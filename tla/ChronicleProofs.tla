---------------------------- MODULE ChronicleProofs ----------------------------
(***************************************************************************)
(* What holds of the pipeline of Chronicle for every chain, every pattern  *)
(* of forks, stops and failures, when the consumer acknowledges only what  *)
(* the exporter has called irreversible and no failure loses a FORK.       *)
(***************************************************************************)
EXTENDS Chronicle, ReceiverProofs, SequenceTheorems, WellFoundedInduction

\* The pipeline the theorems are about: SHIP is prompt, the consumer
\* acknowledges irreversible blocks, a FORK owed to it is never lost.
SafePipeline ==
    PromptShip /\ WillAck /\ AckPolicy = "irreversible" /\ ~LosesForks

Contents == [BlockNums -> Versions \cup {NoBlock}]

\* All blocks from the first one on up to n, and no others.
Full(b, n) == \A m \in BlockNums : FirstHead < m /\ m <= n => b[m] # NoBlock
Exactly(b, n) == \A m \in BlockNums : b[m] # NoBlock <=> FirstHead < m /\ m <= n

StoredNothing == \A m \in BlockNums : stored[m] = NoBlock

-------------------------------------------------------------------------------
(* The queue of events: s[k] is what the consumer will have stored after the  *)
(* first k events.                                                            *)

IsTrace(s, b, ev) ==
    /\ s \in [0 .. Len(ev) -> Contents]
    /\ s[0] = b
    /\ \A k \in 1 .. Len(ev) : s[k] = ApplyEvent(ev[k], s[k - 1])

\* One of the events k + 1 .. l is a FORK that removes block m.
Cut(ev, k, l, m) == \E j \in k + 1 .. l : ev[j].type = "fork" /\ ev[j].num <= m

\* A stored block stays as it is until a FORK removes it.
Kept(s, ev) ==
    \A k \in 0 .. Len(ev), l \in 0 .. Len(ev), m \in BlockNums :
       k <= l /\ s[k][m] # NoBlock => s[l][m] = s[k][m] \/ Cut(ev, k, l, m)

Consecutive(b) ==
    \A m \in BlockNums : b[m] # NoBlock => m > FirstHead /\ Full(b, m)

\* A block comes right above the stored ones, a FORK not higher.
Fits(b, e) ==
    /\ e.type # "partial" => e.num > FirstHead
    /\ e.type = "block" => Exactly(b, e.num - 1)
    /\ e.type = "fork" => Full(b, e.num - 1)

Stream(s, b, ev) ==
    /\ IsTrace(s, b, ev)
    /\ Kept(s, ev)
    /\ \A k \in 0 .. Len(ev) : Consecutive(s[k])
    /\ \A k \in 1 .. Len(ev) : Fits(s[k - 1], ev[k])

-------------------------------------------------------------------------------

\* The fields of an event.
LEMMA EventFacts ==
    ASSUME NEW e \in Events
    PROVE  /\ e.num \in Nat
           /\ e.type \in {"fork", "block", "partial"}
           /\ e.type = "block" => e.num \in BlockNums /\ e.id \in Versions /\ e.lib \in Nat
           /\ e.type = "fork" => e.reason \in {"network", "restart", "resync"}
BY DEF Events, BlockNums

\* Versions are not NoBlock, and where the numbers are.
LEMMA VersionFacts ==
    /\ \A v \in Versions : v # NoBlock
    /\ MaxBlock \in Nat /\ FirstHead \in Nat /\ FirstHead <= MaxBlock
    /\ \A m \in BlockNums : m \in Nat /\ 1 <= m /\ m <= MaxBlock
BY ChainAssumption, FirstHeadFinal DEF Versions, NoBlock, BlockNums

\* What an event does to the stored blocks (ApplyEvent).
LEMMA AppliedEvent ==
    ASSUME NEW e \in Events, NEW b \in Contents
    PROVE  /\ ApplyEvent(e, b) \in Contents
           /\ e.type = "block" =>
                 /\ ApplyEvent(e, b)[e.num] = e.id
                 /\ \A m \in BlockNums : m # e.num => ApplyEvent(e, b)[m] = b[m]
           /\ e.type = "fork" =>
                 \A m \in BlockNums :
                    ApplyEvent(e, b)[m] = IF m >= e.num THEN NoBlock ELSE b[m]
           /\ e.type = "partial" => ApplyEvent(e, b) = b
<1>1. CASE e.type = "block"
  <2>1. e.num \in BlockNums /\ e.id \in Versions
    BY <1>1, EventFacts
  <2>2. ApplyEvent(e, b) = [b EXCEPT ![e.num] = e.id]
    BY <1>1 DEF ApplyEvent
  <2> QED
    BY <1>1, <2>1, <2>2 DEF Contents
<1>2. CASE e.type = "fork"
  <2>1. ApplyEvent(e, b) = [n \in BlockNums |-> IF n >= e.num THEN NoBlock ELSE b[n]]
    BY <1>2 DEF ApplyEvent
  <2> QED
    BY <1>2, <2>1 DEF Contents
<1>3. CASE e.type = "partial"
  BY <1>3 DEF ApplyEvent
<1> QED
  BY <1>1, <1>2, <1>3, EventFacts

\* An event that fits leaves consecutive blocks, and removes blocks only as a
\* FORK says.
LEMMA AppliedFits ==
    ASSUME NEW e \in Events, NEW b \in Contents, Consecutive(b), Fits(b, e)
    PROVE  /\ Consecutive(ApplyEvent(e, b))
           /\ \A m \in BlockNums : b[m] # NoBlock =>
                 \/ ApplyEvent(e, b)[m] = b[m]
                 \/ (e.type = "fork" /\ e.num <= m)
           /\ e.type = "block" => Exactly(ApplyEvent(e, b), e.num)
           /\ e.type = "fork" => Exactly(ApplyEvent(e, b), e.num - 1)
<1> DEFINE c == ApplyEvent(e, b)
<1>1. /\ e.num \in Nat /\ e.type \in {"fork", "block", "partial"}
      /\ e.type = "block" => e.num \in BlockNums /\ e.id # NoBlock
  BY EventFacts, VersionFacts
<1>2. /\ e.type = "block" => c[e.num] = e.id /\ \A m \in BlockNums : m # e.num => c[m] = b[m]
      /\ e.type = "fork" => \A m \in BlockNums : c[m] = IF m >= e.num THEN NoBlock ELSE b[m]
      /\ e.type = "partial" => c = b
  BY AppliedEvent
<1> HIDE DEF c
<1> SUFFICES /\ Consecutive(c)
             /\ \A m \in BlockNums : b[m] # NoBlock =>
                   c[m] = b[m] \/ (e.type = "fork" /\ e.num <= m)
             /\ e.type = "block" => Exactly(c, e.num)
             /\ e.type = "fork" => Exactly(c, e.num - 1)
  BY DEF c
<1>3. CASE e.type = "block"
  <2>1. Exactly(b, e.num - 1) /\ e.num > FirstHead
    BY <1>3 DEF Fits
  <2> QED
    BY <1>1, <1>2, <1>3, <2>1, VersionFacts DEF Exactly, Consecutive, Full
<1>4. CASE e.type = "fork"
  BY <1>1, <1>2, <1>4, VersionFacts DEF Fits, Exactly, Consecutive, Full
<1>5. CASE e.type = "partial"
  BY <1>2, <1>5
<1> QED
  BY <1>1, <1>3, <1>4, <1>5

\* With no events on their way the consumer has what it will have.
LEMMA StreamEmpty ==
    ASSUME NEW b \in Contents, Consecutive(b)
    PROVE  /\ Stream([k \in 0 .. 0 |-> b], b, <<>>)
           /\ [k \in 0 .. 0 |-> b][Len(<<>>)] = b
<1> DEFINE s == [k \in 0 .. 0 |-> b]
<1>1. s \in [0 .. 0 -> Contents] /\ s[0] = b /\ Len(<<>>) = 0
  OBVIOUS
<1>2. \A k \in 0 .. 0 : k = 0
  OBVIOUS
<1>3. \A k \in 1 .. 0 : FALSE
  OBVIOUS
<1> HIDE DEF s
<1>4. IsTrace(s, b, <<>>)
  BY <1>1, <1>3 DEF IsTrace
<1>5. Kept(s, <<>>)
  BY <1>1, <1>2 DEF Kept
<1> QED
  BY <1>1, <1>2, <1>3, <1>4, <1>5 DEF Stream, s

\* A new event at the end that fits what the consumer will have stored.
LEMMA StreamAppend ==
    ASSUME NEW ev \in Seq(Events), NEW b, NEW s, Stream(s, b, ev),
           NEW e \in Events, Fits(s[Len(ev)], e)
    PROVE  \E t : /\ Stream(t, b, Append(ev, e))
                  /\ t[Len(ev) + 1] = ApplyEvent(e, s[Len(ev)])
<1> DEFINE n == Len(ev)
           fs == Append(ev, e)
           last == ApplyEvent(e, s[n])
           t == [k \in 0 .. n + 1 |-> IF k <= n THEN s[k] ELSE last]
<1>1. /\ n \in Nat /\ Len(fs) = n + 1 /\ fs[n + 1] = e
      /\ \A k \in 1 .. n : fs[k] = ev[k]
  OBVIOUS
<1>2. /\ s \in [0 .. n -> Contents] /\ s[0] = b
      /\ \A k \in 1 .. n : s[k] = ApplyEvent(ev[k], s[k - 1])
      /\ Kept(s, ev)
      /\ \A k \in 0 .. n : Consecutive(s[k])
      /\ \A k \in 1 .. n : Fits(s[k - 1], ev[k])
  BY DEF Stream, IsTrace
<1>3. s[n] \in Contents /\ Consecutive(s[n]) /\ Fits(s[n], e)
  BY <1>1, <1>2
<1>4. /\ last \in Contents /\ Consecutive(last)
      /\ \A m \in BlockNums : s[n][m] # NoBlock =>
            last[m] = s[n][m] \/ (e.type = "fork" /\ e.num <= m)
  BY <1>3, AppliedEvent, AppliedFits
<1>5. /\ t \in [0 .. n + 1 -> Contents]
      /\ \A k \in 0 .. n : t[k] = s[k]
      /\ t[n + 1] = last
  BY <1>1, <1>2, <1>4
<1> HIDE DEF fs, t, last, n
<1>6. IsTrace(t, b, fs)
  <2>1. ASSUME NEW k \in 1 .. n + 1 PROVE t[k] = ApplyEvent(fs[k], t[k - 1])
    <3>1. CASE k = n + 1
      <4>1. k - 1 = n /\ n \in 0 .. n
        BY <1>1, <3>1
      <4> QED
        BY <1>1, <1>5, <3>1, <4>1 DEF last
    <3>2. CASE k # n + 1
      <4>1. k \in 1 .. n /\ k \in 0 .. n /\ k - 1 \in 0 .. n
        BY <1>1, <3>2
      <4> QED
        BY <1>1, <1>2, <1>5, <4>1
    <3> QED
      BY <3>1, <3>2
  <2>2. t[0] = b
    BY <1>1, <1>2, <1>5
  <2> QED
    BY <1>1, <1>5, <2>1, <2>2 DEF IsTrace
<1>7. Kept(t, fs)
  <2> SUFFICES ASSUME NEW k \in 0 .. n + 1, NEW l \in 0 .. n + 1, NEW m \in BlockNums,
                      k <= l, t[k][m] # NoBlock
               PROVE  t[l][m] = t[k][m] \/ Cut(fs, k, l, m)
    BY <1>1 DEF Kept
  <2>1. ASSUME NEW j \in 0 .. n, k <= j, Cut(ev, k, j, m), j <= l
        PROVE  Cut(fs, k, l, m)
    <3>1. PICK i \in k + 1 .. j : ev[i].type = "fork" /\ ev[i].num <= m
      BY <2>1 DEF Cut
    <3>2. i \in 1 .. n /\ i \in k + 1 .. l
      BY <1>1, <2>1
    <3> QED
      BY <1>1, <3>1, <3>2 DEF Cut
  <2>2. CASE l <= n
    <3>1. k \in 0 .. n /\ l \in 0 .. n
      BY <1>1, <2>2
    <3> QED
      BY <1>1, <1>2, <1>5, <2>1, <3>1 DEF Kept, n
  <2>3. CASE k = n + 1
    <3>1. l = k
      BY <1>1, <2>3
    <3> QED
      BY <3>1
  <2>4. CASE l = n + 1 /\ k <= n
    <3>1. k \in 0 .. n /\ n \in 0 .. n /\ k <= n
      BY <1>1, <2>4
    <3>2. t[k] = s[k] /\ t[l] = last
      BY <1>5, <2>4, <3>1
    <3>3. s[n][m] = s[k][m] \/ Cut(ev, k, n, m)
      BY <1>1, <1>2, <3>1, <3>2 DEF Kept, n
    <3>4. CASE Cut(ev, k, n, m)
      BY <1>1, <2>1, <2>4, <3>1, <3>4
    <3>5. CASE s[n][m] = s[k][m]
      <4>1. last[m] = s[k][m] \/ (e.type = "fork" /\ e.num <= m)
        BY <1>4, <3>2, <3>5
      <4>2. n + 1 \in k + 1 .. l
        BY <1>1, <2>4, <3>1
      <4> QED
        BY <1>1, <3>2, <4>1, <4>2 DEF Cut
    <3> QED
      BY <3>3, <3>4, <3>5
  <2> QED
    BY <1>1, <2>2, <2>3, <2>4
<1>8. \A k \in 0 .. n + 1 : Consecutive(t[k])
  <2>1. \A k \in 0 .. n + 1 : k \in 0 .. n \/ k = n + 1
    BY <1>1
  <2> QED
    BY <1>2, <1>4, <1>5, <2>1
<1>9. \A k \in 1 .. n + 1 : Fits(t[k - 1], fs[k])
  <2>1. ASSUME NEW k \in 1 .. n + 1 PROVE Fits(t[k - 1], fs[k])
    <3>1. CASE k = n + 1
      <4>1. k - 1 = n /\ n \in 0 .. n
        BY <1>1, <3>1
      <4> QED
        BY <1>1, <1>3, <1>5, <3>1, <4>1
    <3>2. CASE k # n + 1
      <4>1. k \in 1 .. n /\ k - 1 \in 0 .. n
        BY <1>1, <3>2
      <4> QED
        BY <1>1, <1>2, <1>5, <4>1
    <3> QED
      BY <3>1, <3>2
  <2> QED
    BY <2>1
<1>10. Stream(t, b, fs)
  BY <1>1, <1>6, <1>7, <1>8, <1>9 DEF Stream
<1> QED
  BY <1>5, <1>10 DEF n, fs, last

\* The first event has reached the consumer.
LEMMA StreamTail ==
    ASSUME NEW ev \in Seq(Events), ev # <<>>, NEW b, NEW s, Stream(s, b, ev)
    PROVE  /\ b \in Contents /\ Consecutive(b) /\ Fits(b, Head(ev))
           /\ \E t : /\ Stream(t, ApplyEvent(Head(ev), b), Tail(ev))
                     /\ t[Len(Tail(ev))] = s[Len(ev)]
<1> DEFINE n == Len(ev)
           fs == Tail(ev)
           t == [k \in 0 .. n - 1 |-> s[k + 1]]
<1>1. /\ n \in Nat /\ n >= 1 /\ Len(fs) = n - 1 /\ Head(ev) = ev[1]
      /\ \A k \in 1 .. n - 1 : fs[k] = ev[k + 1]
  OBVIOUS
<1>2. /\ s \in [0 .. n -> Contents] /\ s[0] = b
      /\ \A k \in 1 .. n : s[k] = ApplyEvent(ev[k], s[k - 1])
      /\ Kept(s, ev)
      /\ \A k \in 0 .. n : Consecutive(s[k])
      /\ \A k \in 1 .. n : Fits(s[k - 1], ev[k])
  BY DEF Stream, IsTrace
<1> HIDE DEF fs, n
<1>3. b \in Contents /\ Consecutive(b) /\ Fits(b, Head(ev)) /\ s[1] = ApplyEvent(Head(ev), b)
  <2>1. 0 \in 0 .. n /\ 1 \in 1 .. n /\ 1 - 1 = 0
    BY <1>1
  <2>2. s[1] = ApplyEvent(ev[1], s[1 - 1]) /\ Fits(s[1 - 1], ev[1])
    BY <1>2, <2>1
  <2> QED
    BY <1>1, <1>2, <2>1, <2>2
<1>4. /\ t \in [0 .. n - 1 -> Contents]
      /\ \A k \in 0 .. n - 1 : t[k] = s[k + 1]
  BY <1>1, <1>2
<1> HIDE DEF t
<1>5. IsTrace(t, ApplyEvent(Head(ev), b), fs)
  <2>1. ASSUME NEW k \in 1 .. n - 1 PROVE t[k] = ApplyEvent(fs[k], t[k - 1])
    <3>1. k \in 0 .. n - 1 /\ k - 1 \in 0 .. n - 1 /\ k + 1 \in 1 .. n
          /\ (k + 1) - 1 = k /\ (k - 1) + 1 = k
      BY <1>1
    <3>2. t[k] = s[k + 1] /\ t[k - 1] = s[(k - 1) + 1] /\ fs[k] = ev[k + 1]
      BY <1>1, <1>4, <3>1
    <3>3. s[k + 1] = ApplyEvent(ev[k + 1], s[(k + 1) - 1])
      BY <1>2, <3>1
    <3> QED
      BY <3>1, <3>2, <3>3
  <2>2. t[0] = s[0 + 1] /\ 0 + 1 = 1
    BY <1>1, <1>4
  <2> QED
    BY <1>1, <1>3, <1>4, <2>1, <2>2 DEF IsTrace
<1>6. Kept(t, fs)
  <2> SUFFICES ASSUME NEW k \in 0 .. n - 1, NEW l \in 0 .. n - 1, NEW m \in BlockNums,
                      k <= l, t[k][m] # NoBlock
               PROVE  t[l][m] = t[k][m] \/ Cut(fs, k, l, m)
    BY <1>1 DEF Kept
  <2>1. k + 1 \in 0 .. n /\ l + 1 \in 0 .. n /\ k + 1 <= l + 1
    BY <1>1
  <2>2. t[k] = s[k + 1] /\ t[l] = s[l + 1]
    BY <1>4
  <2>3. s[l + 1][m] = s[k + 1][m] \/ Cut(ev, k + 1, l + 1, m)
    BY <1>2, <2>1, <2>2 DEF Kept, n
  <2>4. ASSUME Cut(ev, k + 1, l + 1, m) PROVE Cut(fs, k, l, m)
    <3>1. PICK j \in (k + 1) + 1 .. l + 1 : ev[j].type = "fork" /\ ev[j].num <= m
      BY <2>4 DEF Cut
    <3>2. j - 1 \in k + 1 .. l /\ j - 1 \in 1 .. n - 1 /\ (j - 1) + 1 = j
      BY <1>1
    <3>3. fs[j - 1] = ev[j]
      BY <1>1, <3>2
    <3> QED
      BY <3>1, <3>2, <3>3 DEF Cut
  <2> QED
    BY <2>2, <2>3, <2>4
<1>7. \A k \in 0 .. n - 1 : Consecutive(t[k])
  <2>1. \A k \in 0 .. n - 1 : k + 1 \in 0 .. n
    BY <1>1
  <2> QED
    BY <1>2, <1>4, <2>1
<1>8. \A k \in 1 .. n - 1 : Fits(t[k - 1], fs[k])
  <2>1. ASSUME NEW k \in 1 .. n - 1 PROVE Fits(t[k - 1], fs[k])
    <3>1. k - 1 \in 0 .. n - 1 /\ k + 1 \in 1 .. n /\ (k - 1) + 1 = (k + 1) - 1
      BY <1>1
    <3>2. t[k - 1] = s[(k - 1) + 1] /\ fs[k] = ev[k + 1]
      BY <1>1, <1>4, <3>1
    <3>3. Fits(s[(k + 1) - 1], ev[k + 1])
      BY <1>2, <3>1
    <3> QED
      BY <3>1, <3>2, <3>3
  <2> QED
    BY <2>1
<1>9. Stream(t, ApplyEvent(Head(ev), b), fs)
  BY <1>1, <1>5, <1>6, <1>7, <1>8 DEF Stream
<1>10. t[n - 1] = s[n]
  <2>1. n - 1 \in 0 .. n - 1 /\ (n - 1) + 1 = n
    BY <1>1
  <2> QED
    BY <1>4, <2>1
<1>11. /\ Stream(t, ApplyEvent(Head(ev), b), Tail(ev))
       /\ t[Len(Tail(ev))] = s[Len(ev)]
  BY <1>1, <1>9, <1>10 DEF fs, n
<1> QED
  BY <1>3, <1>11
-------------------------------------------------------------------------------
(* The invariant of the pipeline.                                             *)

Live == pc = "connecting" \/ SessionOpen

\* What the consumer will have stored is what the database holds.
MatchInv(b) ==
    /\ Running => \A m \in BlockNums : m > db.revision => b[m] = NoBlock
    /\ Live =>
          /\ \A m \in BlockNums : m > head => b[m] = NoBlock
          /\ \A m \in BlockNums :
                db.committed < m /\ m <= db.revision => b[m] = db.at[m].head_id

StreamInv == \E s : Stream(s, stored, events) /\ MatchInv(s[Len(events)])

Announces(e) == e.type # "partial"
Restarts(e)  == e.type = "fork" /\ e.reason # "network"

\* The numbers of the events on their way: above the committed block c, not
\* below an earlier FORK, and a fork of the chain above all that was called
\* irreversible before it.
OrderInv(ev, c, known, f) ==
    /\ \A i \in 1 .. Len(ev) : Announces(ev[i]) => ev[i].num > c /\ ev[i].num > FirstHead
    /\ \A i \in 1 .. Len(ev), j \in 1 .. Len(ev) :
          i < j /\ ev[i].type = "fork" /\ Announces(ev[j]) => ev[i].num <= ev[j].num
    /\ \A i \in 1 .. Len(ev) :
          ev[i].type = "fork" /\ ev[i].reason = "network" =>
             /\ known < ev[i].num
             /\ \A j \in 1 .. Len(ev) : j < i /\ ev[j].type = "block" => ev[j].lib < ev[i].num
    /\ known <= f
    /\ \A i \in 1 .. Len(ev) : ev[i].type = "block" => ev[i].lib <= f

\* The FORKs of a start come first, and there are two of them only when the
\* database has no state.
RestartsFirst(ev) ==
    \A i \in 1 .. Len(ev) : Restarts(ev[i]) =>
       /\ \A j \in 1 .. Len(ev) : j < i => Restarts(ev[j])
       /\ i > 1 => ev[i].num = FirstHead + 1

\* While the consumer holds blocks that a FORK of the start removes, what it
\* acknowledges is above the FORK.
OwedForkInv ==
    \A i \in 1 .. Len(events) : Restarts(events[i]) =>
       \/ StoredNothing
       \/ /\ forked_at_block = events[i].num
          /\ events[i].num - 1 <= lastAck
          /\ \A j \in 1 .. Len(acks) : acks[j] >= events[i].num

\* The consumer has the committed blocks and has acknowledged them, and a start
\* without a FORK finds nothing else there.
ConsumerInv ==
    /\ db.at[db.committed].saved =>
          /\ FirstHead < db.committed /\ db.committed <= lastAck
          /\ \A m \in BlockNums :
                FirstHead < m /\ m <= db.committed => stored[m] = branch[m]
    /\ \/ FirstHead <= lastAck
       \/ StoredNothing /\ (Running => events # <<>> /\ events[1].type = "fork")
    /\ ~Running => acks = <<>> /\ events = <<>>
    /\ ~Running /\ ~HasUndoSession(db) /\ db.at[db.committed].saved =>
          \A m \in BlockNums : m > db.committed => stored[m] = NoBlock

\* An acknowledgement up to which the consumer has what the database has, and
\* will not be told otherwise.
AckOk(a) ==
    /\ a <= head
    /\ a <= lastAck \/ a <= FirstHead
    /\ \A i \in 1 .. Len(events) : Announces(events[i]) => a < events[i].num
    /\ \A m \in BlockNums :
          db.committed < m /\ m <= db.revision /\ m <= a => stored[m] = db.at[m].head_id

\* One that the receiver will ignore: the FORK is not acknowledged before it.
AckIgnored(i) ==
    /\ forked_at_block > 0 /\ acks[i] >= forked_at_block
    /\ \A j \in 1 .. Len(acks) : j < i => acks[j] # forked_at_block - 1

\* Only one acknowledgement, or the FORK that it will answer, can be above the
\* final blocks: the one awaited.
LooseFork(i) == events[i].type = "fork" /\ events[i].num - 1 > final
LooseAck(i)  == acks[i] > final

LooseInv ==
    /\ \A i \in 1 .. Len(events) : LooseFork(i) =>
          /\ events[i].num = forked_at_block
          /\ \A j \in 1 .. Len(events) : LooseFork(j) => i = j
          /\ \A j \in 1 .. Len(acks) : ~LooseAck(j)
    /\ \A i \in 1 .. Len(acks) : LooseAck(i) =>
          /\ acks[i] = forked_at_block - 1
          /\ \A j \in 1 .. Len(acks) : LooseAck(j) => i = j

AcksInv ==
    Live =>
       /\ pc \in {"reading", "quitting"} => forked_at_block = 0
       /\ AckOk(exporter_acked_block)
       /\ \A i \in 1 .. Len(events) : events[i].type = "fork" => events[i].num <= head + 1
       /\ \A i \in 1 .. Len(acks) : AckOk(acks[i]) \/ AckIgnored(i)
       /\ LooseInv

SysInv ==
    /\ IInv
    /\ ConsumerTypeOK
    /\ StreamInv
    /\ OrderInv(events, db.committed, knownLib, final)
    /\ RestartsFirst(events)
    /\ OwedForkInv
    /\ ConsumerInv
    /\ AcksInv

-------------------------------------------------------------------------------

\* What there is at the two ends of the queue.
LEMMA EndFacts ==
    ASSUME NEW ev \in Seq(Events), NEW b, NEW s, Stream(s, b, ev)
    PROVE  /\ b \in Contents /\ Consecutive(b)
           /\ s[Len(ev)] \in Contents /\ Consecutive(s[Len(ev)])
           /\ \A m \in BlockNums : b[m] # NoBlock =>
                 s[Len(ev)][m] = b[m] \/ Cut(ev, 0, Len(ev), m)
<1>1. Len(ev) \in Nat /\ 0 \in 0 .. Len(ev) /\ Len(ev) \in 0 .. Len(ev) /\ 0 <= Len(ev)
  OBVIOUS
<1>2. /\ s \in [0 .. Len(ev) -> Contents] /\ s[0] = b
      /\ Kept(s, ev)
      /\ \A k \in 0 .. Len(ev) : Consecutive(s[k])
  BY DEF Stream, IsTrace
<1>3. \A m \in BlockNums : s[0][m] # NoBlock =>
         s[Len(ev)][m] = s[0][m] \/ Cut(ev, 0, Len(ev), m)
  BY <1>1, <1>2 DEF Kept
<1> QED
  BY <1>1, <1>2, <1>3

\* The types of the pipeline.
LEMMA SystemFacts ==
    ASSUME SysInv
    PROVE  /\ events \in Seq(Events) /\ acks \in Seq(Nat)
           /\ \A i \in 1 .. Len(events) : events[i] \in Events /\ events[i].num \in Nat
           /\ \A i \in 1 .. Len(acks) : acks[i] \in Nat
           /\ Len(events) \in Nat /\ Len(acks) \in Nat
           /\ stored \in Contents /\ Consecutive(stored)
           /\ knownLib \in Nat /\ lastAck \in Nat /\ stops \in 0 .. MaxStops
           /\ db.committed \in Nat /\ db.revision \in Nat /\ db.committed <= db.revision
           /\ db.revision <= MaxBlock
           /\ head \in Nat /\ exporter_acked_block \in Nat /\ forked_at_block \in Nat
           /\ final \in Nat /\ db.committed <= final /\ lib \in Nat /\ lib <= final
           /\ MaxBlock \in Nat /\ FirstHead \in Nat /\ FirstHead <= final
<1>1. events \in Seq(Events)
  BY DEF SysInv, IInv, TypeOK
<1>2. \A i \in 1 .. Len(events) : events[i] \in Events
  BY <1>1
<1>3. \A i \in 1 .. Len(events) : events[i].num \in Nat
  BY <1>2, EventFacts
<1>4. stored \in Contents /\ Consecutive(stored)
  BY <1>1, EndFacts DEF SysInv, StreamInv
<1>5. acks \in Seq(Nat) /\ knownLib \in Nat /\ lastAck \in Nat /\ stops \in 0 .. MaxStops
  BY DEF SysInv, ConsumerTypeOK
<1>6. /\ db.committed \in Nat /\ db.revision \in Nat /\ db.committed <= db.revision
      /\ db.revision <= MaxBlock
      /\ head \in Nat /\ exporter_acked_block \in Nat /\ forked_at_block \in Nat
      /\ db.committed <= final
  BY InvariantFacts DEF SysInv, IInv, DbOk
<1>7. final \in Nat /\ lib \in Nat /\ lib <= final /\ MaxBlock \in Nat /\ FirstHead \in Nat
  BY Numbers DEF SysInv
<1>8. FirstHead <= final
  <2>1. FirstHead \in 0 .. final
    BY InvariantFacts DEF SysInv
  <2> QED
    BY <1>7, <2>1
<1>9. \A i \in 1 .. Len(acks) : acks[i] \in Nat
  BY <1>5
<1> QED
  BY <1>1, <1>2, <1>3, <1>4, <1>5, <1>6, <1>7, <1>8, <1>9

\* The tables of the database, revision by revision.
LEMMA RevisionFacts ==
    ASSUME IInv
    PROVE  /\ \A r \in db.committed + 1 .. db.revision :
                 db.at[r].saved /\ db.at[r].head_id \in Versions /\ db.at[r].head = r
           /\ ~db.at[db.committed].saved =>
                 /\ db.committed <= FirstHead
                 /\ db.committed < db.revision => db.committed = FirstHead
           /\ db.at[db.committed].saved => db.at[db.committed].head = db.committed
<1>1. /\ db.committed \in Nat /\ db.revision \in Nat /\ db.committed <= db.revision
      /\ \A r \in db.committed .. db.revision : db.at[r] \in TableContents
  BY InvariantFacts
<1>2. ASSUME NEW r \in db.committed .. db.revision, db.at[r].saved
      PROVE  db.at[r].head_id \in Versions /\ db.at[r].head = r
  <2>1. RevisionHoldsBlock(db, r)
    BY DEF IInv, DbOk
  <2>2. db.at[r].head_id \in Versions
    BY <1>1 DEF TableContents
  <2> QED
    BY <1>2, <2>1, <2>2 DEF RevisionHoldsBlock
<1>3. db.committed \in db.committed .. db.revision
  BY <1>1
<1>4. \A r \in db.committed + 1 .. db.revision : r \in db.committed .. db.revision /\ db.at[r].saved
  BY <1>1 DEF IInv, DbOk
<1> QED
  BY <1>1, <1>2, <1>3, <1>4 DEF IInv, DbOk

\* No FORK on its way removes a committed block (receive_result, load_state).
LEMMA NothingCommittedCut ==
    ASSUME SysInv, NEW m \in BlockNums, m <= db.committed
    PROVE  ~Cut(events, 0, Len(events), m)
<1>1. SUFFICES ASSUME NEW j \in 0 + 1 .. Len(events),
                      events[j].type = "fork", events[j].num <= m
               PROVE  FALSE
  BY DEF Cut
<1>2. /\ db.committed \in Nat /\ m \in Nat /\ j \in 1 .. Len(events)
      /\ events[j].num \in Nat
  BY SystemFacts, VersionFacts
<1>3. events[j].num > db.committed
  BY <1>1, <1>2 DEF SysInv, OrderInv, Announces
<1> QED
  BY <1>1, <1>2, <1>3

\* A session's consumer will have exactly the blocks up to the head
\* (receive_result).
LEMMA LiveEnd ==
    ASSUME SysInv, Live, NEW s, Stream(s, stored, events), MatchInv(s[Len(events)])
    PROVE  Exactly(s[Len(events)], head)
<1> DEFINE z == s[Len(events)]
<1>1. /\ z \in Contents /\ Consecutive(z)
      /\ \A m \in BlockNums : stored[m] # NoBlock =>
            z[m] = stored[m] \/ Cut(events, 0, Len(events), m)
  BY EndFacts, SystemFacts
<1>2. /\ \A m \in BlockNums : m > head => z[m] = NoBlock
      /\ \A m \in BlockNums : db.committed < m /\ m <= db.revision => z[m] = db.at[m].head_id
  BY DEF MatchInv
<1> HIDE DEF z
<1>3. /\ db.committed \in Nat /\ db.revision \in Nat /\ head \in Nat /\ FirstHead \in Nat
      /\ db.committed <= db.revision
      /\ head = IF Tables(db).saved THEN db.revision ELSE FirstHead
      /\ branch \in [1 .. MaxBlock -> 0 .. MaxForks]
  BY SystemFacts, Numbers DEF SysInv, IInv, MemoryInv, Live
<1>4. ASSUME NEW m \in BlockNums, FirstHead < m, m <= head PROVE z[m] # NoBlock
  <2>1. m \in Nat
    BY VersionFacts
  <2>2. m <= db.revision
    BY <1>3, <1>4, <2>1
  <2>3. CASE db.committed < m
    <3>1. z[m] = db.at[m].head_id /\ m \in db.committed + 1 .. db.revision
      BY <1>2, <1>3, <2>1, <2>2, <2>3
    <3> QED
      BY <3>1, RevisionFacts, VersionFacts DEF SysInv
  <2>4. CASE m <= db.committed
    <3>1. db.at[db.committed].saved
      BY <1>3, <1>4, <2>1, <2>4, RevisionFacts DEF SysInv
    <3>2. stored[m] = branch[m] /\ branch[m] \in Versions
      BY <1>3, <1>4, <2>4, <3>1 DEF SysInv, ConsumerInv, BlockNums, Versions
    <3>3. ~Cut(events, 0, Len(events), m)
      BY <2>4, NothingCommittedCut
    <3> QED
      BY <1>1, <3>2, <3>3, VersionFacts
  <2> QED
    BY <1>3, <2>1, <2>3, <2>4
<1>5. \A m \in BlockNums : z[m] # NoBlock => FirstHead < m /\ m <= head
  BY <1>1, <1>2, <1>3, VersionFacts DEF Consecutive
<1> QED
  BY <1>4, <1>5 DEF Exactly, z
-------------------------------------------------------------------------------

\* An empty queue is in order.
LEMMA EmptyOrder ==
    ASSUME NEW c, NEW known, NEW f, known <= f
    PROVE  OrderInv(<<>>, c, known, f) /\ RestartsFirst(<<>>)
<1>1. \A i \in 1 .. Len(<<>>) : FALSE
  OBVIOUS
<1> QED
  BY <1>1 DEF OrderInv, RestartsFirst

\* The pipeline begins in a state of the invariant (an empty database, a
\* consumer that has nothing).
LEMMA SystemInitInvariant == SystemInit => SysInv
<1> SUFFICES ASSUME SystemInit PROVE SysInv
  OBVIOUS
<1>1. /\ IInv /\ pc = "down" /\ events = <<>> /\ acks = <<>> /\ knownLib = 0 /\ lastAck = 0
      /\ stops = 0 /\ stored = [n \in BlockNums |-> NoBlock]
      /\ ~db.at[db.committed].saved
  <2>1. ~EmptyTables.saved
    BY DEF EmptyTables
  <2> QED
    BY <2>1, InitInvariant DEF SystemInit, Init, NewDatabase
<1>2. stored \in Contents /\ Consecutive(stored) /\ StoredNothing
  BY <1>1 DEF Contents, Consecutive, StoredNothing
<1>3. ConsumerTypeOK
  BY <1>1, <1>2, ChronicleAssumption DEF ConsumerTypeOK, Contents
<1>4. ~Running /\ ~Live
  BY <1>1 DEF Running, Live, SessionOpen
<1>5. StreamInv
  <2>1. MatchInv(stored)
    BY <1>4 DEF MatchInv
  <2> QED
    BY <1>1, <1>2, <2>1, StreamEmpty DEF StreamInv
<1>6. OrderInv(events, db.committed, knownLib, final) /\ RestartsFirst(events)
  <2>1. 0 <= final
    BY <1>1, Numbers
  <2> QED
    BY <1>1, <2>1, EmptyOrder
<1>7. OwedForkInv /\ ConsumerInv /\ AcksInv
  BY <1>1, <1>2, <1>4 DEF OwedForkInv, ConsumerInv, AcksInv
<1> QED
  BY <1>1, <1>3, <1>5, <1>6, <1>7 DEF SysInv

-------------------------------------------------------------------------------

\* The database holds what it held.
SameDb ==
    /\ db'.committed = db.committed /\ db'.revision = db.revision
    /\ \A r \in db.committed .. db.revision : db'.at[r] = db.at[r]

\* Steps that neither publish nor store, leave the database as it is, and at
\* most close a session or let the chain and the LIB grow.
LEMMA QuietStep ==
    ASSUME SysInv, IInv', SameDb,
           UNCHANGED <<events, stored, knownLib, lastAck, acks>>,
           stops' \in 0 .. MaxStops,
           final <= final', \A n \in BlockNums : n <= final => branch'[n] = branch[n],
           Running' = Running,
           Running => UNCHANGED <<forked_at_block, exporter_acked_block>>,
           Live' => Live /\ UNCHANGED head,
           pc' \in {"reading", "quitting"} => forked_at_block = 0
    PROVE  SysInv'
<1>1. /\ events \in Seq(Events)
      /\ db.committed \in Nat /\ db.revision \in Nat /\ db.committed <= db.revision
      /\ final \in Nat /\ db.committed <= final /\ knownLib \in Nat
      /\ \A i \in 1 .. Len(events) : events[i].num \in Nat /\ events[i] \in Events
      /\ \A i \in 1 .. Len(acks) : acks[i] \in Nat
  BY SystemFacts
<1>2. final' \in Nat
  BY Numbers DEF IInv, TypeOK, ChainTypeOK, BlockNums
<1>3. /\ db'.committed = db.committed /\ db'.revision = db.revision
      /\ db'.at[db.committed] = db.at[db.committed]
      /\ \A m \in BlockNums : db.committed < m /\ m <= db.revision => db'.at[m] = db.at[m]
  <2>1. db.committed \in db.committed .. db.revision
    BY <1>1
  <2>2. \A m \in BlockNums : db.committed < m /\ m <= db.revision => m \in db.committed .. db.revision
    BY <1>1, VersionFacts
  <2> QED
    BY <2>1, <2>2 DEF SameDb
<1>4. ConsumerTypeOK'
  BY DEF SysInv, ConsumerTypeOK
<1>5. StreamInv'
  <2>1. PICK s : Stream(s, stored, events) /\ MatchInv(s[Len(events)])
    BY DEF SysInv, StreamInv
  <2> DEFINE z == s[Len(events)]
  <2> HIDE DEF z
  <2>2. MatchInv(z)
    BY <2>1 DEF z
  <2>4. Stream(s, stored', events')
    BY <2>1
  <2>5. /\ Running' => \A m \in BlockNums : m > db'.revision => s[Len(events')][m] = NoBlock
        /\ Live' =>
              /\ \A m \in BlockNums : m > head' => s[Len(events')][m] = NoBlock
              /\ \A m \in BlockNums : db'.committed < m /\ m <= db'.revision =>
                    s[Len(events')][m] = db'.at[m].head_id
    BY <1>3, <2>2 DEF MatchInv, z
  <2> QED
    BY <2>4, <2>5 DEF StreamInv, MatchInv
<1>6. OrderInv(events, db.committed, knownLib, final)'
  <2>1. \A i \in 1 .. Len(events) : events[i].type = "block" => events[i].lib \in Nat
    BY <1>1, EventFacts
  <2> QED
    BY <1>1, <1>2, <1>3, <2>1 DEF SysInv, OrderInv
<1>7. RestartsFirst(events)'
  BY DEF SysInv, RestartsFirst
<1>8. ConsumerInv'
  <2>1. \A m \in BlockNums : m <= db.committed => branch'[m] = branch[m]
    BY <1>1, VersionFacts
  <2> QED
    BY <1>3, <2>1 DEF SysInv, ConsumerInv, HasUndoSession, StoredNothing
<1>9. CASE ~Running
  <2>1. events = <<>> /\ ~Live'
    BY <1>9 DEF SysInv, ConsumerInv, Live, SessionOpen, Running
  <2>2. OwedForkInv' /\ AcksInv'
    BY <2>1 DEF OwedForkInv, AcksInv
  <2> QED
    BY <1>4, <1>5, <1>6, <1>7, <1>8, <2>2 DEF SysInv
<1>10. CASE Running
  <2>1. OwedForkInv'
    BY <1>10 DEF SysInv, OwedForkInv, StoredNothing
  <2>2. AcksInv'
    <3> SUFFICES ASSUME Live' PROVE AcksInv'
      BY DEF AcksInv
    <3>1. AcksInv /\ Live /\ UNCHANGED <<head, forked_at_block, exporter_acked_block>>
      BY <1>10 DEF SysInv
    <3>2. \A a : AckOk(a) => AckOk(a)'
      BY <1>3, <3>1 DEF AckOk
    <3>3. \A i \in 1 .. Len(acks) : AckIgnored(i) => AckIgnored(i)'
      BY <3>1 DEF AckIgnored
    <3>4. /\ \A i \in 1 .. Len(events) : LooseFork(i)' => LooseFork(i)
          /\ \A i \in 1 .. Len(acks) : LooseAck(i)' => LooseAck(i)
      BY <1>1, <1>2 DEF LooseFork, LooseAck
    <3>5. LooseInv'
      BY <3>1, <3>4 DEF AcksInv, LooseInv
    <3> QED
      BY <3>1, <3>2, <3>3, <3>5 DEF AcksInv
  <2> QED
    BY <1>4, <1>5, <1>6, <1>7, <1>8, <2>1, <2>2 DEF SysInv
<1> QED
  BY <1>9, <1>10
\* A step of the chain (StateHistory).
LEMMA ChainQuiet ==
    ASSUME SafePipeline, SysInv, SystemChainStep PROVE SysInv'
<1>1. /\ UNCHANGED <<db, pc, head, forked_at_block, exporter_acked_block, events,
                     stored, knownLib, lastAck, acks, stops>>
      /\ ChainStep /\ PromptShip
  BY DEF SystemChainStep, ChainStep, receiverVars, memory, consumerVars, SafePipeline
<1>2. IInv' /\ final <= final' /\ \A n \in BlockNums : n <= final => branch'[n] = branch[n]
  BY <1>1, ChainStepInvariant, ChainStepKeeps DEF SysInv, ChainKeeps
<1>3. Running' = Running /\ Live' = Live /\ SameDb
  BY <1>1 DEF Running, Live, SessionOpen, SameDb
<1>4. pc \in {"reading", "quitting"} => forked_at_block = 0
  BY DEF SysInv, AcksInv, Live, SessionOpen
<1>5. stops' \in 0 .. MaxStops
  BY <1>1, SystemFacts
<1> QED
  BY <1>1, <1>2, <1>3, <1>4, <1>5, QuietStep

\* With acknowledgements a read follows only when no FORK awaits its own
\* (check_pause).
LEMMA ReadsUnforked ==
    ASSUME WillAck, NEW h, NEW l, NEW f \in Nat, NEW a, "reading" \in ContinueRead(h, l, f, a)
    PROVE  f = 0
BY DEF ContinueRead, CheckPause

\* Requests, aborts, and the timer of a pause that goes on or ends
\* (request_blocks, abort_receiver, check_pause).
LEMMA MemoryQuiet ==
    ASSUME SafePipeline, SysInv, UNCHANGED <<consumerVars, stops>>,
           RequestBlocks \/ Abort \/ (PauseTimer /\ pc' # "closed")
    PROVE  SysInv'
<1>1. /\ UNCHANGED <<db, head, forked_at_block, exporter_acked_block, events, branch, final,
                     stored, knownLib, lastAck, acks, stops>>
      /\ Running /\ Running'
      /\ Live' => Live
  BY ContinueReadStates
  DEF RequestBlocks, Abort, PauseTimer, Aborted, OpenSession, consumerVars, memory, shipVars,
      Running, Live, SessionOpen
<1>2. IInv'
  BY RequestInvariant, AbortInvariant, PauseInvariant DEF SysInv
<1>3. pc' \in {"reading", "quitting"} => forked_at_block = 0
  <2>1. CASE RequestBlocks \/ (PauseTimer /\ pc' # "closed")
    <3>1. /\ pc' \in ContinueRead(head, irreversible, forked_at_block, exporter_acked_block)
          /\ pc' # "quitting" /\ forked_at_block \in Nat /\ WillAck
      BY <2>1, ContinueReadStates, SystemFacts DEF RequestBlocks, PauseTimer, SafePipeline
    <3> QED
      BY <3>1, ReadsUnforked
  <2>2. CASE Abort
    <3>1. pc' \in {"reading", "quitting"} => pc = "reading"
      BY <2>2 DEF Abort, Aborted
    <3> QED
      BY <3>1 DEF SysInv, AcksInv, Live, SessionOpen
  <2> QED
    BY <2>1, <2>2
<1>4. final \in Nat /\ stops' \in 0 .. MaxStops
  BY <1>1, SystemFacts
<1>5. SameDb /\ final <= final' /\ Running' = Running
  BY <1>1, <1>4 DEF SameDb, Running
<1> QED
  BY <1>1, <1>2, <1>3, <1>4, <1>5, QuietStep

\* A refused start with nothing to undo leaves everything as it was
\* (load_state).
LEMMA RefusedQuiet ==
    ASSUME SysInv, UNCHANGED <<consumerVars, stops>>, ~HasUndoSession(db),
           NEW given, NEW end, StartRefused(given, end)
    PROVE  SysInv'
<1>1. /\ UNCHANGED <<pc, head, forked_at_block, exporter_acked_block, events, branch, final,
                     stored, knownLib, lastAck, acks, stops>>
      /\ pc = "down" /\ db' = UndoAll(db)
  BY DEF StartRefused, consumerVars, memory, shipVars
<1>2. IInv'
  BY StartRefusedInvariant DEF SysInv
<1>3. /\ db.committed \in Nat /\ db.revision \in Nat /\ db.committed = db.revision
      /\ final \in Nat /\ stops' \in 0 .. MaxStops
  BY <1>1, SystemFacts DEF HasUndoSession
<1>4. /\ db'.committed = db.committed /\ db'.revision = db.committed
      /\ db'.at[db.committed] = db.at[db.committed]
  BY <1>1, InvariantFacts, UndoAllDatabase DEF SysInv
<1>5. SameDb
  BY <1>3, <1>4 DEF SameDb
<1>6. Running' = Running /\ ~Running /\ ~Live'
  BY <1>1 DEF Running, Live, SessionOpen
<1> QED
  BY <1>1, <1>2, <1>3, <1>5, <1>6, QuietStep
-------------------------------------------------------------------------------

\* The end of the process: what it leaves at the consumer above an empty undo
\* stack is nothing (close).
LEMMA ProcessEndsKeeps ==
    ASSUME SafePipeline, SysInv, ProcessEnds PROVE SysInv'
<1>1. /\ UNCHANGED <<db, branch, final, stored, knownLib, lastAck>>
      /\ events' = <<>> /\ acks' = <<>> /\ pc' = "down"
      /\ pc # "down" /\ (ForkPending => HasUndoSession(db))
      /\ stops' \in {stops, stops + 1} /\ (stops' = stops + 1 => stops < MaxStops)
      /\ IInv'
  BY StopInvariant DEF ProcessEnds, Stop, shipVars, SafePipeline, OnlyCopyPending, SysInv
<1>2. /\ stored \in Contents /\ Consecutive(stored) /\ events \in Seq(Events)
      /\ db.committed \in Nat /\ db.revision \in Nat /\ db.committed <= db.revision
  BY SystemFacts
<1>3. ~Running' /\ ~Live' /\ Running
  BY <1>1 DEF Running, Live, SessionOpen
<1>4. ConsumerTypeOK'
  <2>1. stops' \in 0 .. MaxStops
    BY <1>1, SystemFacts, ChronicleAssumption
  <2> QED
    BY <1>1, <2>1 DEF SysInv, ConsumerTypeOK
<1>5. StreamInv'
  <2>1. /\ Stream([k \in 0 .. 0 |-> stored], stored, <<>>)
        /\ [k \in 0 .. 0 |-> stored][Len(<<>>)] = stored
    BY <1>2, StreamEmpty
  <2> QED
    BY <1>1, <1>3, <2>1 DEF StreamInv, MatchInv
<1>6. OrderInv(events, db.committed, knownLib, final)' /\ RestartsFirst(events)'
  BY <1>1, EmptyOrder DEF SysInv, OrderInv
<1>7. OwedForkInv' /\ AcksInv'
  BY <1>1, <1>3 DEF OwedForkInv, AcksInv
<1>8. ASSUME ~HasUndoSession(db), db.at[db.committed].saved,
             NEW m \in BlockNums, m > db.committed
      PROVE  stored[m] = NoBlock
  <2>1. PICK s : Stream(s, stored, events) /\ MatchInv(s[Len(events)])
    BY DEF SysInv, StreamInv
  <2>2. s[Len(events)][m] = NoBlock
    BY <1>2, <1>3, <1>8, <2>1 DEF MatchInv, HasUndoSession
  <2>3. ~Cut(events, 0, Len(events), m)
    BY <1>1, <1>2, <1>8 DEF ForkPending, Cut
  <2> QED
    BY <1>2, <2>1, <2>2, <2>3, EndFacts
<1>9. ConsumerInv'
  BY <1>1, <1>3, <1>8 DEF SysInv, ConsumerInv, HasUndoSession, StoredNothing
<1> QED
  BY <1>1, <1>4, <1>5, <1>6, <1>7, <1>9 DEF SysInv

-------------------------------------------------------------------------------
(* What a handler publishes.                                                  *)

\* A FORK at the end of the queue leaves the consumer the blocks below it.
LEMMA AppendFork ==
    ASSUME NEW ev \in Seq(Events), NEW b, NEW s, Stream(s, b, ev),
           NEW e \in Events, e.type = "fork", e.num > FirstHead,
           Full(s[Len(ev)], e.num - 1)
    PROVE  \E t : /\ Stream(t, b, Append(ev, e))
                  /\ Exactly(t[Len(Append(ev, e))], e.num - 1)
                  /\ \A m \in BlockNums :
                        m < e.num => t[Len(Append(ev, e))][m] = s[Len(ev)][m]
<1>1. Fits(s[Len(ev)], e)
  BY DEF Fits
<1>2. s[Len(ev)] \in Contents /\ Consecutive(s[Len(ev)])
  BY EndFacts
<1>3. PICK t : Stream(t, b, Append(ev, e)) /\ t[Len(ev) + 1] = ApplyEvent(e, s[Len(ev)])
  BY <1>1, StreamAppend
<1>4. Len(Append(ev, e)) = Len(ev) + 1
  OBVIOUS
<1>5. Exactly(ApplyEvent(e, s[Len(ev)]), e.num - 1)
  BY <1>1, <1>2, AppliedFits
<1>6. \A m \in BlockNums :
         ApplyEvent(e, s[Len(ev)])[m] = IF m >= e.num THEN NoBlock ELSE s[Len(ev)][m]
  BY <1>2, AppliedEvent
<1>7. \A m \in BlockNums : m < e.num => ~(m >= e.num)
  BY EventFacts, VersionFacts
<1> QED
  BY <1>3, <1>4, <1>5, <1>6, <1>7

\* A block at the end of the queue is added to those the consumer will have.
LEMMA AppendBlock ==
    ASSUME NEW ev \in Seq(Events), NEW b, NEW s, Stream(s, b, ev),
           NEW e \in Events, e.type = "block", e.num > FirstHead,
           Exactly(s[Len(ev)], e.num - 1)
    PROVE  \E t : /\ Stream(t, b, Append(ev, e))
                  /\ Exactly(t[Len(Append(ev, e))], e.num)
                  /\ t[Len(Append(ev, e))][e.num] = e.id
                  /\ \A m \in BlockNums :
                        m # e.num => t[Len(Append(ev, e))][m] = s[Len(ev)][m]
<1>1. Fits(s[Len(ev)], e)
  BY DEF Fits
<1>2. s[Len(ev)] \in Contents /\ Consecutive(s[Len(ev)])
  BY EndFacts
<1>3. PICK t : Stream(t, b, Append(ev, e)) /\ t[Len(ev) + 1] = ApplyEvent(e, s[Len(ev)])
  BY <1>1, StreamAppend
<1>4. Len(Append(ev, e)) = Len(ev) + 1
  OBVIOUS
<1>5. Exactly(ApplyEvent(e, s[Len(ev)]), e.num)
  BY <1>1, <1>2, AppliedFits
<1>6. /\ ApplyEvent(e, s[Len(ev)])[e.num] = e.id
      /\ \A m \in BlockNums : m # e.num => ApplyEvent(e, s[Len(ev)])[m] = s[Len(ev)][m]
  BY <1>2, AppliedEvent
<1> QED
  BY <1>3, <1>4, <1>5, <1>6

\* An incomplete block changes nothing.
LEMMA AppendPartial ==
    ASSUME NEW ev \in Seq(Events), NEW b, NEW s, Stream(s, b, ev),
           NEW e \in Events, e.type = "partial"
    PROVE  \E t : /\ Stream(t, b, Append(ev, e))
                  /\ t[Len(Append(ev, e))] = s[Len(ev)]
<1>1. Fits(s[Len(ev)], e)
  BY DEF Fits
<1>2. s[Len(ev)] \in Contents
  BY EndFacts
<1>3. PICK t : Stream(t, b, Append(ev, e)) /\ t[Len(ev) + 1] = ApplyEvent(e, s[Len(ev)])
  BY <1>1, StreamAppend
<1>4. Len(Append(ev, e)) = Len(ev) + 1
  OBVIOUS
<1>5. ApplyEvent(e, s[Len(ev)]) = s[Len(ev)]
  BY <1>2, AppliedEvent
<1> QED
  BY <1>3, <1>4, <1>5

\* A new event above the committed block, not below an earlier FORK, and above
\* what is final if it is a FORK of the chain, keeps the order.
LEMMA OrderAppend ==
    ASSUME NEW ev \in Seq(Events), NEW e \in Events, NEW c \in Nat, NEW known \in Nat,
           NEW f \in Nat, OrderInv(ev, c, known, f),
           Announces(e) =>
              /\ e.num > c /\ e.num > FirstHead
              /\ \A i \in 1 .. Len(ev) : ev[i].type = "fork" => ev[i].num <= e.num,
           e.type = "fork" /\ e.reason = "network" => f < e.num,
           e.type = "block" => e.lib <= f
    PROVE  OrderInv(Append(ev, e), c, known, f)
<1> DEFINE n == Len(ev)
           fs == Append(ev, e)
<1>1. /\ n \in Nat /\ Len(fs) = n + 1 /\ fs[n + 1] = e
      /\ \A i \in 1 .. n : fs[i] = ev[i]
      /\ \A i \in 1 .. n + 1 : i \in 1 .. n \/ i = n + 1
  OBVIOUS
<1>2. \A i \in 1 .. n : ev[i] \in Events
  OBVIOUS
<1>3. e.num \in Nat /\ \A i \in 1 .. n : ev[i].type = "block" => ev[i].lib \in Nat
  BY <1>2, EventFacts
<1> HIDE DEF n, fs
<1> SUFFICES OrderInv(fs, c, known, f)
  BY DEF fs
<1>4. /\ \A i \in 1 .. n : Announces(ev[i]) => ev[i].num > c /\ ev[i].num > FirstHead
      /\ \A i \in 1 .. n, j \in 1 .. n :
            i < j /\ ev[i].type = "fork" /\ Announces(ev[j]) => ev[i].num <= ev[j].num
      /\ \A i \in 1 .. n :
            ev[i].type = "fork" /\ ev[i].reason = "network" =>
               /\ known < ev[i].num
               /\ \A j \in 1 .. n : j < i /\ ev[j].type = "block" => ev[j].lib < ev[i].num
      /\ known <= f
      /\ \A i \in 1 .. n : ev[i].type = "block" => ev[i].lib <= f
      /\ Announces(e) =>
            /\ e.num > c /\ e.num > FirstHead
            /\ \A i \in 1 .. n : ev[i].type = "fork" => ev[i].num <= e.num
  BY DEF OrderInv, n
<1>5. \A i \in 1 .. n + 1 : Announces(fs[i]) => fs[i].num > c /\ fs[i].num > FirstHead
  BY <1>1, <1>4
<1>6. ASSUME NEW i \in 1 .. n + 1, NEW j \in 1 .. n + 1, i < j, fs[i].type = "fork",
             Announces(fs[j])
      PROVE  fs[i].num <= fs[j].num
  <2>1. i \in 1 .. n
    BY <1>1, <1>6
  <2>2. CASE j \in 1 .. n
    BY <1>1, <1>4, <1>6, <2>1, <2>2
  <2>3. CASE j = n + 1
    BY <1>1, <1>4, <1>6, <2>1, <2>3
  <2> QED
    BY <1>1, <2>2, <2>3
<1>7. ASSUME NEW i \in 1 .. n + 1, fs[i].type = "fork", fs[i].reason = "network"
      PROVE  /\ known < fs[i].num
             /\ \A j \in 1 .. n + 1 : j < i /\ fs[j].type = "block" => fs[j].lib < fs[i].num
  <2>1. CASE i \in 1 .. n
    <3>1. \A j \in 1 .. n + 1 : j < i => j \in 1 .. n
      BY <1>1, <2>1
    <3> QED
      BY <1>1, <1>4, <1>7, <2>1, <3>1
  <2>2. CASE i = n + 1
    <3>1. \A j \in 1 .. n + 1 : j < i => j \in 1 .. n
      BY <1>1, <2>2
    <3>2. f < e.num /\ fs[i] = e
      BY <1>1, <1>7, <2>2
    <3>3. \A j \in 1 .. n : ev[j].type = "block" => ev[j].lib < e.num
      BY <1>3, <1>4, <3>2
    <3> QED
      BY <1>1, <1>3, <1>4, <3>1, <3>2, <3>3
  <2> QED
    BY <1>1, <2>1, <2>2
<1>8. \A i \in 1 .. n + 1 : fs[i].type = "block" => fs[i].lib <= f
  BY <1>1, <1>4
<1> QED
  BY <1>1, <1>4, <1>5, <1>6, <1>7, <1>8 DEF OrderInv

\* Only a start publishes a FORK of a start.
LEMMA RestartsAppend ==
    ASSUME NEW ev \in Seq(Events), RestartsFirst(ev), NEW e \in Events, ~Restarts(e)
    PROVE  RestartsFirst(Append(ev, e))
<1> DEFINE n == Len(ev)
           fs == Append(ev, e)
<1>1. /\ n \in Nat /\ Len(fs) = n + 1 /\ fs[n + 1] = e
      /\ \A i \in 1 .. n : fs[i] = ev[i]
      /\ \A i \in 1 .. n + 1 : i \in 1 .. n \/ i = n + 1
  OBVIOUS
<1> HIDE DEF n, fs
<1>2. ASSUME NEW i \in 1 .. n + 1, Restarts(fs[i])
      PROVE  /\ \A j \in 1 .. n + 1 : j < i => Restarts(fs[j])
             /\ i > 1 => fs[i].num = FirstHead + 1
  <2>1. i \in 1 .. n /\ fs[i] = ev[i]
    BY <1>1, <1>2
  <2>2. \A j \in 1 .. n + 1 : j < i => j \in 1 .. n /\ fs[j] = ev[j]
    BY <1>1, <2>1
  <2> QED
    BY <1>2, <2>1, <2>2 DEF RestartsFirst, n
<1> QED
  BY <1>1, <1>2 DEF RestartsFirst, fs

-------------------------------------------------------------------------------

\* Nothing happens.
LEMMA NothingQuiet ==
    ASSUME SafePipeline, SysInv, UNCHANGED systemVars PROVE SysInv'
<1>1. /\ UNCHANGED <<db, pc, head, forked_at_block, exporter_acked_block, events, branch, final,
                     stored, knownLib, lastAck, acks, stops>>
      /\ UNCHANGED vars /\ PromptShip
  BY DEF systemVars, vars, shipVars, receiverVars, memory, consumerVars, SafePipeline
<1>2. IInv'
  BY <1>1, StepInvariant DEF SysInv
<1>3. Running' = Running /\ Live' = Live /\ SameDb
  BY <1>1 DEF Running, Live, SessionOpen, SameDb
<1>4. pc \in {"reading", "quitting"} => forked_at_block = 0
  BY DEF SysInv, AcksInv, Live, SessionOpen
<1>5. stops' \in 0 .. MaxStops /\ final <= final'
  BY <1>1, SystemFacts
<1> QED
  BY <1>1, <1>2, <1>3, <1>4, <1>5, QuietStep

\* Sequences of at most two elements.
LEMMA ShortSequences ==
    ASSUME NEW S, NEW a \in S, NEW b \in S
    PROVE  /\ <<>> \o <<>> = <<>> /\ <<a>> \o <<>> = <<a>> /\ <<>> \o <<b>> = <<b>>
           /\ <<a>> \o <<b>> = <<a, b>>
           /\ Append(<<>>, a) = <<a>> /\ Append(<<a>>, b) = <<a, b>>
<1>1. /\ <<>> \o <<>> = <<>> /\ <<a>> \o <<>> = <<a>> /\ <<>> \o <<b>> = <<b>>
      /\ Append(<<>>, a) = <<a>>
  OBVIOUS
<1>2. Append(<<a>>, b) = <<a, b>>
  <2>1. /\ <<a, b>> \in Seq(S) /\ Append(<<a>>, b) \in Seq(S)
        /\ Len(<<a, b>>) = 2 /\ Len(Append(<<a>>, b)) = 2
    OBVIOUS
  <2>2. <<a, b>>[1] = Append(<<a>>, b)[1] /\ <<a, b>>[2] = Append(<<a>>, b)[2]
    OBVIOUS
  <2>3. \A i \in 1 .. 2 : i = 1 \/ i = 2
    OBVIOUS
  <2> QED
    BY <2>1, <2>2, <2>3, SeqEqual
<1>3. <<a>> \o <<b>> = Append(<<a>>, b)
  OBVIOUS
<1> QED
  BY <1>1, <1>2, <1>3

\* load_state: what the process announces first removes from the consumer all
\* that is above the committed block, or there is nothing to remove.
LEMMA StartKeeps ==
    ASSUME SafePipeline, SysInv, NEW end \in EndBlocks, Start(end),
           UNCHANGED <<consumerVars, stops>>
    PROVE  SysInv'
<1>1. /\ db.committed \in Nat /\ db.revision \in Nat /\ db.committed <= db.revision
      /\ db.committed <= final /\ final \in Nat /\ FirstHead \in Nat /\ FirstHead <= final
      /\ stored \in Contents /\ Consecutive(stored)
      /\ knownLib \in Nat /\ lastAck \in Nat /\ MaxBlock \in Nat
      /\ db.committed \in db.committed .. db.revision
  BY SystemFacts
<1>2. /\ IInv' /\ pc = "down" /\ pc' = "connecting" /\ WillAck
      /\ UNCHANGED <<branch, final, stored, knownLib, lastAck, acks, stops>>
  BY StartInvariant DEF SysInv, Start, SafePipeline, consumerVars, shipVars
<1>3. PICK t \in TableContents :
         /\ t = db.at[db.committed]
         /\ db'.committed = db.committed /\ db'.revision = db.committed
         /\ db'.at[db.committed] = t
         /\ Tables(UndoAll(db)) = t
  BY <1>1, InvariantFacts, UndoAllDatabase DEF SysInv, Start
<1>4. PICK owed \in BOOLEAN : owed <=> ~t.saved \/ HasUndoSession(db)
  OBVIOUS
<1>5. /\ t.saved => /\ ResumeHead(t) = db.committed
                    /\ FirstHead < db.committed /\ db.committed <= lastAck
      /\ ~t.saved => ResumeHead(t) = FirstHead /\ db.committed <= FirstHead
  <2>1. RevisionHoldsBlock(db, db.committed)
    BY <1>1 DEF SysInv, IInv, DbOk
  <2>2. t.saved => t.head = db.committed
    BY <1>3, <2>1 DEF RevisionHoldsBlock
  <2>3. ~t.saved => t = EmptyTables /\ db.committed <= FirstHead
    BY <1>3, <2>1, RevisionFacts DEF SysInv, RevisionHoldsBlock
  <2> QED
    BY <1>3, <2>2, <2>3 DEF SysInv, ConsumerInv, ResumeHead, FirstHead
<1>6. PICK n \in Nat :
         /\ n - 1 \in Nat /\ FirstHead < n /\ n - 1 <= final
         /\ db.committed < n
         /\ t.saved => n - 1 = db.committed
         /\ ~t.saved => n - 1 = FirstHead
         /\ n = ResumeHead(t) + 1 /\ n - 1 = ResumeHead(t)
  <2>1. ResumeHead(t) \in Nat
    BY <1>1, <1>5
  <2>2. ResumeHead(t) + 1 \in Nat /\ (ResumeHead(t) + 1) - 1 = ResumeHead(t)
    BY <2>1
  <2> QED
    BY <1>1, <1>5, <2>1, <2>2
<1>60. /\ head' = n - 1
       /\ forked_at_block' = IF owed THEN n ELSE 0
       /\ exporter_acked_block' = n - 1
       /\ events' = StartEvents(t, UndoDepth(db))
  BY <1>2, <1>3, <1>4, <1>6 DEF Start
<1>7. acks = <<>> /\ events = <<>>
  BY <1>2 DEF SysInv, ConsumerInv, Running
<1>8. Running' /\ Live' /\ ~Running
  BY <1>2 DEF Running, Live, SessionOpen
<1>9. Full(stored, n - 1)
  <2>1. ASSUME NEW m \in BlockNums, FirstHead < m, m <= n - 1 PROVE stored[m] # NoBlock
    <3>1. t.saved /\ m <= db.committed /\ m \in Nat
      <4>1. m \in Nat
        BY VersionFacts
      <4>2. CASE t.saved
        BY <1>6, <2>1, <4>1, <4>2
      <4>3. CASE ~t.saved
        BY <1>1, <1>6, <2>1, <4>1, <4>3
      <4> QED
        BY <4>2, <4>3
    <3>2. stored[m] = branch[m]
      BY <1>3, <2>1, <3>1 DEF SysInv, ConsumerInv
    <3>3. branch[m] \in Versions
      BY DEF SysInv, IInv, TypeOK, ChainTypeOK
    <3> QED
      BY <3>2, <3>3, VersionFacts
  <2> QED
    BY <2>1 DEF Full
<1>10. PICK e1 \in Events, e2 \in Events :
          /\ e1 = ForkEvent(n, "resync")
          /\ e1.type = "fork" /\ e1.num = n /\ e1.reason = "resync"
          /\ e2 = ForkEvent(n, "restart")
          /\ e2.type = "fork" /\ e2.num = n /\ e2.reason = "restart"
  <2>1. ForkEvent(n, "resync") \in Events /\ ForkEvent(n, "restart") \in Events
    BY <1>6 DEF ForkEvent, Events
  <2> QED
    BY <2>1 DEF ForkEvent
<1>11. \/ events' = <<>> /\ t.saved /\ ~HasUndoSession(db)
       \/ \E e \in {e1, e2} : events' = <<e>> /\ owed
       \/ events' = <<e1, e2>> /\ owed /\ ~t.saved
  <2>1. UndoDepth(db) > 0 <=> HasUndoSession(db)
    BY <1>1 DEF UndoDepth, HasUndoSession
  <2>2. events' = (IF t.saved THEN <<>> ELSE <<e1>>) \o (IF UndoDepth(db) > 0 THEN <<e2>> ELSE <<>>)
    BY <1>6, <1>10, <1>60 DEF StartEvents
  <2>3. /\ <<>> \o <<>> = <<>> /\ <<e1>> \o <<>> = <<e1>> /\ <<>> \o <<e2>> = <<e2>>
        /\ <<e1>> \o <<e2>> = <<e1, e2>>
    BY <1>10, ShortSequences
  <2> QED
    BY <1>4, <2>1, <2>2, <2>3
<1>12. t.saved /\ ~HasUndoSession(db) =>
          \A m \in BlockNums : m > db.committed => stored[m] = NoBlock
  BY <1>3, <1>8 DEF SysInv, ConsumerInv
<1> DEFINE ForksOnly(ev) ==
            \A i \in 1 .. Len(ev) :
               /\ ev[i].type = "fork" /\ ev[i].num = n /\ ev[i].reason # "network"
               /\ i > 1 => ~t.saved
               /\ owed
           Leaves(ev) ==
            \E s : /\ Stream(s, stored, ev)
                   /\ IF ev = <<>> THEN s[Len(ev)] = stored
                                   ELSE Exactly(s[Len(ev)], n - 1)
<1>13. /\ \E s : Stream(s, stored, <<>>) /\ s[Len(<<>>)] = stored
       /\ <<>> \in Seq(Events)
  <2> DEFINE z == [k \in 0 .. 0 |-> stored]
  <2>1. Stream(z, stored, <<>>) /\ z[Len(<<>>)] = stored
    BY <1>1, StreamEmpty
  <2> HIDE DEF z
  <2> QED
    BY <2>1
<1>14. ASSUME NEW e \in {e1, e2}, owed
       PROVE  ForksOnly(<<e>>) /\ Leaves(<<e>>)
  <2>1. \A i \in 1 .. Len(<<e>>) : i = 1 /\ <<e>>[i] = e
    OBVIOUS
  <2>2. ForksOnly(<<e>>)
    BY <1>10, <1>14, <2>1
  <2>3. PICK s : Stream(s, stored, <<>>) /\ s[Len(<<>>)] = stored
    BY <1>13
  <2>4. e \in Events /\ e.type = "fork" /\ e.num = n
    BY <1>10
  <2>5. \E z : /\ Stream(z, stored, Append(<<>>, e))
               /\ Exactly(z[Len(Append(<<>>, e))], e.num - 1)
    BY <1>6, <1>9, <1>13, <2>3, <2>4, AppendFork
  <2>6. Append(<<>>, e) = <<e>> /\ <<e>> # <<>>
    BY <2>4, ShortSequences
  <2> QED
    BY <2>2, <2>4, <2>5, <2>6
<1>15. ASSUME owed, ~t.saved
       PROVE  ForksOnly(<<e1, e2>>) /\ Leaves(<<e1, e2>>)
  <2>1. \A i \in 1 .. Len(<<e1, e2>>) : <<e1, e2>>[i] \in {e1, e2}
    OBVIOUS
  <2>2. ForksOnly(<<e1, e2>>)
    BY <1>10, <1>15, <2>1
  <2>3. <<e1>> \in Seq(Events) /\ <<e1>> # <<>> /\ Len(<<e1>>) = 1
    BY <1>10
  <2>4. PICK s : Stream(s, stored, <<e1>>) /\ Exactly(s[Len(<<e1>>)], n - 1)
    BY <1>14, <1>15, <2>3
  <2>5. Full(s[Len(<<e1>>)], n - 1)
    BY <2>4 DEF Full, Exactly
  <2>6. \E z : /\ Stream(z, stored, Append(<<e1>>, e2))
               /\ Exactly(z[Len(Append(<<e1>>, e2))], e2.num - 1)
    BY <1>6, <1>10, <2>3, <2>4, <2>5, AppendFork
  <2>7. Append(<<e1>>, e2) = <<e1, e2>> /\ <<e1, e2>> # <<>>
    BY <1>10, ShortSequences
  <2> QED
    BY <1>10, <2>2, <2>6, <2>7
<1>16. /\ ForksOnly(events') /\ Leaves(events')
       /\ events' = <<>> => t.saved /\ ~HasUndoSession(db)
  <2>1. CASE events' = <<>> /\ t.saved /\ ~HasUndoSession(db)
    <3>1. \A i \in 1 .. Len(<<>>) : FALSE
      OBVIOUS
    <3> QED
      BY <1>13, <2>1, <3>1
  <2>2. ASSUME NEW e \in {e1, e2}, events' = <<e>>, owed
        PROVE  ForksOnly(events') /\ Leaves(events') /\ events' # <<>>
    <3>1. ForksOnly(<<e>>) /\ Leaves(<<e>>)
      BY <1>14, <2>2
    <3> HIDE DEF ForksOnly, Leaves
    <3> QED
      BY <2>2, <3>1
  <2>3. CASE events' = <<e1, e2>> /\ owed /\ ~t.saved
    <3>1. ForksOnly(<<e1, e2>>) /\ Leaves(<<e1, e2>>)
      BY <1>15, <2>3
    <3>2. <<e1, e2>> # <<>>
      OBVIOUS
    <3> HIDE DEF ForksOnly, Leaves
    <3> QED
      BY <2>3, <3>1, <3>2
  <2> HIDE DEF ForksOnly, Leaves
  <2> QED
    BY <1>11, <2>1, <2>2, <2>3
<1>17. ConsumerTypeOK'
  BY <1>2 DEF SysInv, ConsumerTypeOK
<1>18. StreamInv'
  <2>1. PICK s : /\ Stream(s, stored, events')
                 /\ IF events' = <<>> THEN s[Len(events')] = stored
                                      ELSE Exactly(s[Len(events')], n - 1)
    BY <1>16
  <2> DEFINE z == s[Len(events')]
  <2>2. \A m \in BlockNums : m > db.committed => z[m] = NoBlock
    <3>1. CASE events' = <<>>
      BY <1>12, <1>16, <2>1, <3>1
    <3>2. CASE events' # <<>>
      <4>1. \A m \in BlockNums : z[m] # NoBlock <=> FirstHead < m /\ m <= n - 1
        BY <2>1, <3>2 DEF Exactly
      <4> HIDE DEF z
      <4>2. \A m \in BlockNums : m > db.committed => ~(FirstHead < m /\ m <= n - 1)
        BY <1>1, <1>5, <1>6, <4>1, VersionFacts
      <4> QED
        BY <4>1, <4>2
    <3> QED
      BY <3>1, <3>2
  <2> HIDE DEF z
  <2>3. head' >= db.committed /\ head' \in Nat
    BY <1>1, <1>6, <1>60
  <2>4. \A m \in BlockNums : m > head' => m > db.committed
    BY <1>1, <2>3, VersionFacts
  <2>5. \A m \in BlockNums : ~(db'.committed < m /\ m <= db'.revision)
    BY <1>1, <1>3, VersionFacts
  <2>6. /\ Running' => \A m \in BlockNums : m > db'.revision => z[m] = NoBlock
        /\ Live' =>
              /\ \A m \in BlockNums : m > head' => z[m] = NoBlock
              /\ \A m \in BlockNums : db'.committed < m /\ m <= db'.revision =>
                    z[m] = db'.at[m].head_id
    BY <1>3, <2>2, <2>4, <2>5
  <2>7. Stream(s, stored', events')
    BY <1>2, <2>1
  <2> QED
    BY <2>6, <2>7 DEF StreamInv, MatchInv, z
<1>19. OrderInv(events, db.committed, knownLib, final)'
  <2>1. /\ knownLib' <= final' /\ db'.committed = db.committed
    BY <1>2, <1>3 DEF SysInv, OrderInv
  <2>2. n > db.committed /\ n > FirstHead /\ n <= n
    BY <1>1, <1>6
  <2> QED
    BY <1>16, <2>1, <2>2 DEF OrderInv
<1>20. RestartsFirst(events)'
  <2>1. ~t.saved => n = FirstHead + 1
    BY <1>1, <1>6
  <2> QED
    BY <1>16, <2>1 DEF RestartsFirst, Restarts
<1>21. OwedForkInv'
  <2>1. StoredNothing \/ n - 1 <= lastAck
    BY <1>5, <1>6, <1>1, <1>8 DEF SysInv, ConsumerInv
  <2>2. \A j \in 1 .. Len(acks') : FALSE
    BY <1>2, <1>7
  <2>3. StoredNothing => StoredNothing'
    BY <1>2 DEF StoredNothing
  <2> QED
    BY <1>2, <1>16, <1>60, <2>1, <2>2, <2>3 DEF OwedForkInv
<1>22. ConsumerInv'
  <2>1. events' # <<>> => events'[1].type = "fork"
    <3>1. events' \in Seq(Events)
      BY <1>2 DEF IInv, TypeOK
    <3>2. events' # <<>> => 1 \in 1 .. Len(events')
      BY <3>1
    <3> QED
      BY <1>16, <3>2
  <2>2. FirstHead <= lastAck \/ (StoredNothing /\ ~t.saved)
    BY <1>1, <1>5 DEF SysInv, ConsumerInv
  <2>3. StoredNothing => StoredNothing'
    BY <1>2 DEF StoredNothing
  <2>4. /\ db'.at[db'.committed].saved =>
              /\ FirstHead < db'.committed /\ db'.committed <= lastAck'
              /\ \A m \in BlockNums :
                    FirstHead < m /\ m <= db'.committed => stored'[m] = branch'[m]
    BY <1>2, <1>3 DEF SysInv, ConsumerInv
  <2> QED
    BY <1>2, <1>8, <1>16, <2>1, <2>2, <2>3, <2>4 DEF ConsumerInv
<1>23. AcksInv'
  <2>1. \A j \in 1 .. Len(acks') : FALSE
    BY <1>2, <1>7
  <2>2. exporter_acked_block' = n - 1 /\ head' = n - 1
    BY <1>60, <1>6
  <2>3. AckOk(exporter_acked_block)'
    <3>1. n - 1 <= lastAck' \/ n - 1 <= FirstHead
      BY <1>1, <1>2, <1>5, <1>6
    <3>2. \A i \in 1 .. Len(events') : Announces(events'[i]) => n - 1 < events'[i].num
      BY <1>6, <1>16
    <3>3. \A m \in BlockNums : ~(db'.committed < m /\ m <= db'.revision)
      BY <1>1, <1>3, VersionFacts
    <3>4. n - 1 <= n - 1
      BY <1>6
    <3> QED
      BY <2>2, <3>1, <3>2, <3>3, <3>4 DEF AckOk
  <2>4. \A i \in 1 .. Len(events') : ~(events'[i].num - 1 > final') /\ events'[i].num <= head' + 1
    BY <1>1, <1>2, <1>6, <1>16, <2>2
  <2> QED
    BY <1>2, <2>1, <2>3, <2>4 DEF AcksInv, LooseInv, LooseFork
<1> QED
  BY <1>2, <1>17, <1>18, <1>19, <1>20, <1>21, <1>22, <1>23 DEF SysInv
-------------------------------------------------------------------------------

\* An undo stack above committed tables without a state begins at the block to
\* resume from (receive_result's set_revision).
LEMMA UncommittedAbove ==
    ASSUME SysInv, NEW m \in BlockNums, db.committed < m, m <= db.revision
    PROVE  /\ m \in Nat /\ FirstHead < m
           /\ db.at[m].saved /\ db.at[m].head_id \in Versions /\ db.at[m].head = m
<1>1. /\ db.committed \in Nat /\ db.revision \in Nat /\ FirstHead \in Nat /\ m \in Nat
  BY SystemFacts, VersionFacts
<1>2. m \in db.committed + 1 .. db.revision /\ db.committed < db.revision
  BY <1>1
<1>3. FirstHead <= db.committed
  BY <1>1, <1>2, RevisionFacts DEF SysInv, ConsumerInv
<1> QED
  BY <1>1, <1>2, <1>3, RevisionFacts DEF SysInv

\* The exporter takes the next event and the consumer applies it
\* (async_send_events).
LEMMA DeliverKeeps ==
    ASSUME SafePipeline, SysInv, Deliver PROVE SysInv'
<1>1. /\ Running /\ events # <<>> /\ events' = Tail(events) /\ WillAck
      /\ UNCHANGED <<db, pc, head, forked_at_block, exporter_acked_block, branch, final, stops>>
  BY DEF Deliver, TakeEvent, shipVars, memory, SafePipeline
<1>2. /\ events \in Seq(Events) /\ acks \in Seq(Nat)
      /\ stored \in Contents /\ Consecutive(stored)
      /\ db.committed \in Nat /\ db.revision \in Nat /\ final \in Nat /\ FirstHead \in Nat
      /\ head \in Nat /\ lastAck \in Nat /\ knownLib \in Nat /\ forked_at_block \in Nat
      /\ exporter_acked_block \in Nat
      /\ \A i \in 1 .. Len(events) : events[i] \in Events /\ events[i].num \in Nat
      /\ \A i \in 1 .. Len(acks) : acks[i] \in Nat
  BY SystemFacts
<1>3. PICK e \in Events :
         /\ e = events[1] /\ e = Head(events)
         /\ stored' = ApplyEvent(e, stored)
         /\ knownLib' = IF e.type = "block" THEN e.lib ELSE knownLib
         /\ IF e.type = "fork"
            THEN acks' = Append(acks, e.num - 1) /\ lastAck' = e.num - 1
            ELSE UNCHANGED <<acks, lastAck>>
  <2>1. Head(events) \in Events /\ Head(events) = events[1]
    BY <1>1, <1>2
  <2> QED
    BY <1>1, <2>1 DEF Deliver
<1>4. PICK n \in Nat :
         /\ n >= 1 /\ n = Len(events)
         /\ Len(Tail(events)) = n - 1
         /\ \A i \in 1 .. n - 1 : i \in Nat /\ i + 1 \in 1 .. n /\ i + 1 > 1
                                  /\ Tail(events)[i] = events[i + 1]
         /\ 1 \in 1 .. n
  BY <1>1, <1>2
<1>5. /\ e.num \in Nat /\ e.type \in {"fork", "block", "partial"}
      /\ e.type = "block" => e.num \in BlockNums /\ e.id \in Versions /\ e.lib \in Nat
  BY EventFacts
<1>6. /\ Announces(e) => e.num > db.committed /\ e.num > FirstHead
      /\ e.type = "fork" => \A i \in 1 .. n - 1 : Announces(events[i + 1]) => e.num <= events[i + 1].num
      /\ e.type = "block" => \A i \in 1 .. n - 1 :
            events[i + 1].type = "fork" /\ events[i + 1].reason = "network" => e.lib < events[i + 1].num
      /\ e.type = "block" => e.lib <= final
  BY <1>3, <1>4 DEF SysInv, OrderInv
<1>7. PICK s : Stream(s, stored, events) /\ MatchInv(s[Len(events)])
  BY DEF SysInv, StreamInv
<1>8. /\ Fits(stored, e)
      /\ \E t : /\ Stream(t, stored', events')
                /\ t[Len(events')] = s[Len(events)]
  BY <1>1, <1>2, <1>3, <1>7, StreamTail
<1>9. /\ stored' \in Contents
      /\ e.type = "fork" => Exactly(stored', e.num - 1) /\ Full(stored, e.num - 1)
      /\ \A m \in BlockNums : (Announces(e) => m < e.num) => stored'[m] = stored[m]
  <2>1. \A m \in BlockNums : m < e.num => m # e.num /\ ~(m >= e.num)
    BY <1>5, VersionFacts
  <2>2. /\ stored' \in Contents
        /\ e.type = "block" => \A m \in BlockNums : m # e.num => stored'[m] = stored[m]
        /\ e.type = "fork" => \A m \in BlockNums :
              stored'[m] = IF m >= e.num THEN NoBlock ELSE stored[m]
        /\ e.type = "partial" => stored' = stored
    BY <1>2, <1>3, AppliedEvent
  <2>3. e.type = "fork" => Exactly(stored', e.num - 1)
    BY <1>2, <1>3, <1>8, AppliedFits
  <2>4. e.type = "fork" => Full(stored, e.num - 1)
    BY <1>8 DEF Fits
  <2>5. e.type # "partial" => Announces(e)
    BY DEF Announces
  <2> QED
    BY <1>5, <2>1, <2>2, <2>3, <2>4, <2>5
<1>10. e.type = "fork" => e.num - 1 \in Nat /\ e.num - 1 >= FirstHead /\ e.num - 1 >= db.committed
  BY <1>2, <1>5, <1>6 DEF Announces
<1>11. Running' = Running /\ Live' = Live /\ IInv'
  BY <1>1, EventsInvariant DEF Running, Live, SessionOpen, Deliver, SysInv
<1>12. ConsumerTypeOK'
  <2>1. knownLib' \in Nat /\ lastAck' \in Nat
    BY <1>2, <1>3, <1>5, <1>10
  <2>2. acks' \in Seq(Nat)
    <3>1. CASE e.type = "fork"
      <4>1. acks' = Append(acks, e.num - 1) /\ e.num - 1 \in Nat
        BY <1>3, <1>10, <3>1
      <4> QED
        BY <1>2, <4>1, AppendProperties
    <3>2. CASE e.type # "fork"
      BY <1>2, <1>3, <3>2
    <3> QED
      BY <3>1, <3>2
  <2>3. stops' \in 0 .. MaxStops
    BY <1>1, SystemFacts
  <2> QED
    BY <1>9, <2>1, <2>2, <2>3 DEF ConsumerTypeOK, Contents
<1>13. StreamInv'
  <2>1. PICK t : Stream(t, stored', events') /\ t[Len(events')] = s[Len(events)]
    BY <1>8
  <2>2. PICK z : z = s[Len(events)]
    OBVIOUS
  <2>3. MatchInv(z)
    BY <1>7, <2>2
  <2>4. /\ Running' => \A m \in BlockNums : m > db'.revision => t[Len(events')][m] = NoBlock
        /\ Live' =>
              /\ \A m \in BlockNums : m > head' => t[Len(events')][m] = NoBlock
              /\ \A m \in BlockNums : db'.committed < m /\ m <= db'.revision =>
                    t[Len(events')][m] = db'.at[m].head_id
    BY <1>1, <1>11, <2>1, <2>2, <2>3 DEF MatchInv
  <2> QED
    BY <2>1, <2>4 DEF StreamInv, MatchInv
<1>14. OrderInv(events, db.committed, knownLib, final)'
  <2> DEFINE fs == Tail(events)
  <2>1. \A i \in 1 .. n - 1 : Announces(fs[i]) => fs[i].num > db.committed /\ fs[i].num > FirstHead
    BY <1>4 DEF SysInv, OrderInv
  <2>2. \A i \in 1 .. n - 1, j \in 1 .. n - 1 :
           i < j /\ fs[i].type = "fork" /\ Announces(fs[j]) => fs[i].num <= fs[j].num
    <3>1. \A i \in 1 .. n - 1, j \in 1 .. n - 1 : i < j => i + 1 < j + 1
      BY <1>4
    <3> QED
      BY <1>4, <3>1 DEF SysInv, OrderInv
  <2>3. \A i \in 1 .. n - 1 : fs[i].type = "fork" /\ fs[i].reason = "network" =>
           /\ knownLib' < fs[i].num
           /\ \A j \in 1 .. n - 1 : j < i /\ fs[j].type = "block" => fs[j].lib < fs[i].num
    <3>1. \A i \in 1 .. n - 1, j \in 1 .. n - 1 : j < i => j + 1 < i + 1
      BY <1>4
    <3> QED
      BY <1>3, <1>4, <1>6, <3>1 DEF SysInv, OrderInv
  <2>4. knownLib' <= final /\ \A i \in 1 .. n - 1 : fs[i].type = "block" => fs[i].lib <= final
    BY <1>3, <1>4, <1>6 DEF SysInv, OrderInv
  <2> QED
    BY <1>1, <1>4, <2>1, <2>2, <2>3, <2>4 DEF OrderInv
<1>15. RestartsFirst(events)' /\ OwedForkInv'
  <2>1. ASSUME NEW i \in 1 .. n - 1, Restarts(events[i + 1])
        PROVE  /\ \A j \in 1 .. n - 1 : j < i => Restarts(events[j + 1])
               /\ events[i + 1].num = FirstHead + 1
               /\ StoredNothing'
    <3>1. /\ \A j \in 1 .. n : j < i + 1 => Restarts(events[j])
          /\ events[i + 1].num = FirstHead + 1
      BY <1>4, <2>1 DEF SysInv, RestartsFirst
    <3>2. \A j \in 1 .. n - 1 : j < i => j + 1 < i + 1
      BY <1>4
    <3>3. 1 < i + 1
      BY <1>4
    <3>4. e.type = "fork" /\ e.num <= FirstHead + 1 /\ e.num > FirstHead
      BY <1>3, <1>4, <1>6, <2>1, <3>1, <3>3 DEF Restarts, Announces
    <3>5. e.num - 1 = FirstHead
      BY <1>2, <1>5, <3>4
    <3>6. \A m \in BlockNums : stored'[m] # NoBlock <=> FirstHead < m /\ m <= FirstHead
      BY <1>9, <3>4, <3>5 DEF Exactly
    <3>7. StoredNothing'
      BY <1>2, <3>6, VersionFacts DEF StoredNothing
    <3> QED
      BY <1>4, <3>1, <3>2, <3>7
  <2>2. RestartsFirst(events)'
    BY <1>1, <1>4, <2>1 DEF RestartsFirst
  <2>3. OwedForkInv'
    BY <1>1, <1>4, <2>1 DEF OwedForkInv
  <2> QED
    BY <2>2, <2>3
<1>16. ConsumerInv'
  <2>1. FirstHead <= lastAck'
    BY <1>1, <1>3, <1>10 DEF SysInv, ConsumerInv
  <2>2. ASSUME db.at[db.committed].saved
        PROVE  /\ FirstHead < db.committed /\ db.committed <= lastAck'
               /\ \A m \in BlockNums : FirstHead < m /\ m <= db.committed => stored'[m] = branch[m]
    <3>1. db.committed <= lastAck'
      BY <1>3, <1>10, <2>2 DEF SysInv, ConsumerInv
    <3>2. \A m \in BlockNums : m <= db.committed => (Announces(e) => m < e.num)
      BY <1>2, <1>5, <1>6, VersionFacts
    <3> QED
      BY <1>9, <2>2, <3>1, <3>2 DEF SysInv, ConsumerInv
  <2> QED
    BY <1>1, <1>11, <2>1, <2>2 DEF ConsumerInv
<1>17. AcksInv'
  <2> SUFFICES ASSUME Live PROVE AcksInv'
    BY <1>11 DEF AcksInv
  <2>1. /\ pc \in {"reading", "quitting"} => forked_at_block = 0
        /\ AckOk(exporter_acked_block)
        /\ \A i \in 1 .. n : events[i].type = "fork" => events[i].num <= head + 1
        /\ \A i \in 1 .. Len(acks) : AckOk(acks[i]) \/ AckIgnored(i)
        /\ LooseInv
    BY <1>4 DEF SysInv, AcksInv
  <2>2. ASSUME NEW a \in Nat, AckOk(a) PROVE AckOk(a)'
    <3>1. Announces(e) => a < e.num
      BY <1>3, <1>4, <2>2 DEF AckOk
    <3>2. a <= lastAck' \/ a <= FirstHead
      BY <1>2, <1>3, <1>5, <2>2, <3>1 DEF AckOk, Announces
    <3>3. \A i \in 1 .. Len(events') : Announces(events'[i]) => a < events'[i].num
      BY <1>1, <1>4, <2>2 DEF AckOk
    <3>4. \A m \in BlockNums : m <= a => (Announces(e) => m < e.num)
      BY <1>5, <3>1, VersionFacts
    <3>5. \A m \in BlockNums :
             db.committed < m /\ m <= db.revision /\ m <= a => stored'[m] = db.at[m].head_id
      BY <1>9, <2>2, <3>4 DEF AckOk
    <3> QED
      BY <1>1, <2>2, <3>2, <3>3, <3>5 DEF AckOk
  <2>3. ASSUME e.type = "fork" PROVE AckOk(e.num - 1)'
    <3>1. e.num - 1 <= head
      BY <1>2, <1>3, <1>4, <1>5, <2>1, <2>3
    <3>2. \A i \in 1 .. Len(events') : Announces(events'[i]) => e.num - 1 < events'[i].num
      <4>1. \A i \in 1 .. n - 1 : Announces(events[i + 1]) => e.num - 1 < events[i + 1].num
        BY <1>2, <1>4, <1>5, <1>6, <2>3
      <4> QED
        BY <1>1, <1>4, <4>1
    <3>3. ASSUME NEW m \in BlockNums, db.committed < m, m <= db.revision, m <= e.num - 1
          PROVE  stored'[m] = db.at[m].head_id
      <4>1. m \in Nat /\ FirstHead < m
        BY <3>3, UncommittedAbove
      <4>2. stored[m] # NoBlock /\ stored'[m] = stored[m]
        BY <1>5, <1>9, <2>3, <3>3, <4>1 DEF Full
      <4>3. ~Cut(events, 0, Len(events), m)
        <5>1. SUFFICES ASSUME NEW j \in 0 + 1 .. n, events[j].type = "fork", events[j].num <= m
                       PROVE  FALSE
          BY <1>4 DEF Cut
        <5>2. j = 1 \/ (j - 1 \in 1 .. n - 1 /\ (j - 1) + 1 = j)
          BY <1>4
        <5>3. CASE j = 1
          BY <1>3, <1>5, <3>3, <4>1, <5>1, <5>3
        <5>4. CASE j - 1 \in 1 .. n - 1 /\ (j - 1) + 1 = j
          <6>1. Announces(events[(j - 1) + 1])
            BY <5>1, <5>4 DEF Announces
          <6>2. e.num <= events[j].num
            BY <1>6, <2>3, <5>4, <6>1
          <6>3. events[j].num \in Nat
            BY <1>2, <1>4
          <6> QED
            BY <1>5, <3>3, <4>1, <5>1, <6>2, <6>3
        <5> QED
          BY <5>2, <5>3, <5>4
      <4>4. s[Len(events)][m] = stored[m]
        BY <1>2, <1>7, <4>2, <4>3, EndFacts
      <4>5. s[Len(events)][m] = db.at[m].head_id
        BY <1>7, <3>3 DEF MatchInv
      <4> QED
        BY <4>2, <4>4, <4>5
    <3> QED
      BY <1>1, <1>3, <1>10, <2>3, <3>1, <3>2, <3>3 DEF AckOk
  <2>4. \A i \in 1 .. n - 1 : LooseFork(i)' <=> LooseFork(i + 1)
    BY <1>1, <1>4 DEF LooseFork
  <2>5. \A i \in 1 .. n - 1 : LooseFork(i)' =>
           /\ events'[i].num = forked_at_block
           /\ \A j \in 1 .. n : LooseFork(j) => i + 1 = j
           /\ \A j \in 1 .. Len(acks) : ~LooseAck(j)
    BY <1>1, <1>4, <2>1, <2>4 DEF LooseInv
  <2>6. \A i \in 1 .. n - 1 : events'[i].type = "fork" => events'[i].num <= head + 1
    BY <1>1, <1>4, <2>1
  <2>7. \A i \in 1 .. n - 1, j \in 1 .. n - 1 : i + 1 = j + 1 => i = j
    BY <1>4
  <2>10. AckOk(exporter_acked_block)'
    <3>1. PICK a \in Nat : a = exporter_acked_block
      BY <1>2
    <3>2. AckOk(a)'
      BY <2>1, <2>2, <3>1
    <3> QED
      BY <1>1, <3>1, <3>2 DEF AckOk
  <2>8. CASE e.type # "fork"
    <3>1. acks' = acks
      BY <1>3, <2>8
    <3>2. \A i \in 1 .. Len(acks') : AckOk(acks[i])' \/ AckIgnored(i)'
      <4>1. \A i \in 1 .. Len(acks) : AckOk(acks[i]) => AckOk(acks[i])'
        BY <1>2, <2>2, <3>1 DEF AckOk
      <4>2. \A i \in 1 .. Len(acks) : AckIgnored(i) => AckIgnored(i)'
        BY <1>1, <3>1 DEF AckIgnored
      <4> QED
        BY <2>1, <3>1, <4>1, <4>2
    <3>3. LooseInv'
      <4>1. \A i \in 1 .. Len(acks) : LooseAck(i)' <=> LooseAck(i)
        BY <1>1, <3>1 DEF LooseAck
      <4>2. \A i \in 1 .. n - 1 : LooseFork(i)' =>
               /\ events'[i].num = forked_at_block
               /\ \A j \in 1 .. n - 1 : LooseFork(j)' => i = j
               /\ \A j \in 1 .. Len(acks) : ~LooseAck(j)
        BY <1>4, <2>4, <2>5, <2>7
      <4> QED
        BY <1>1, <1>4, <2>1, <3>1, <4>1, <4>2 DEF LooseInv
    <3> QED
      BY <1>1, <1>2, <1>4, <2>1, <2>6, <2>10, <3>2, <3>3 DEF AcksInv
  <2>9. CASE e.type = "fork"
    <3>1. PICK k \in Nat :
             /\ k = Len(acks) /\ Len(acks') = k + 1 /\ acks'[k + 1] = e.num - 1
             /\ \A i \in 1 .. k : acks'[i] = acks[i]
             /\ \A i \in 1 .. k + 1 : i \in 1 .. k \/ i = k + 1
             /\ \A i \in 1 .. k, j \in 1 .. k + 1 : j < i => j \in 1 .. k
      <4>1. acks' = Append(acks, e.num - 1)
        BY <1>3, <2>9
      <4>2. PICK a \in Nat : a = e.num - 1
        BY <1>10, <2>9
      <4>3. PICK k \in Nat : k = Len(acks)
        BY <1>2
      <4>4. /\ Len(acks') = k + 1 /\ acks'[k + 1] = a
            /\ \A i \in 1 .. k : acks'[i] = acks[i]
        BY <1>2, <4>1, <4>2, <4>3, AppendProperties
      <4>5. /\ \A i \in 1 .. k + 1 : i \in 1 .. k \/ i = k + 1
            /\ \A i \in 1 .. k, j \in 1 .. k + 1 : j < i => j \in 1 .. k
        OBVIOUS
      <4> QED
        BY <4>2, <4>3, <4>4, <4>5
    <3>2. \A i \in 1 .. k + 1 : AckOk(acks[i])' \/ AckIgnored(i)'
      <4>1. ASSUME NEW i \in 1 .. k PROVE AckOk(acks[i])' \/ AckIgnored(i)'
        <5>1. AckIgnored(i) => AckIgnored(i)'
          BY <1>1, <3>1 DEF AckIgnored
        <5>2. PICK a \in Nat : a = acks[i] /\ a = acks'[i]
          BY <1>2, <3>1
        <5>3. AckOk(acks[i]) => AckOk(a)'
          BY <2>2, <5>2
        <5>4. AckOk(a)' => AckOk(acks[i])'
          BY <5>2 DEF AckOk
        <5> QED
          BY <2>1, <3>1, <5>1, <5>3, <5>4
      <4>2. AckOk(acks[k + 1])'
        <5>1. PICK a : a = e.num - 1 /\ a = acks'[k + 1]
          BY <3>1
        <5>2. AckOk(e.num - 1)'
          BY <2>3, <2>9
        <5> QED
          BY <5>1, <5>2 DEF AckOk
      <4> QED
        BY <3>1, <4>1, <4>2
    <3>3. LooseInv'
      <4>1. \A i \in 1 .. k : LooseAck(i)' <=> LooseAck(i)
        BY <1>1, <3>1 DEF LooseAck
      <4>2. LooseAck(k + 1)' => LooseFork(1)
        BY <1>1, <1>3, <2>9, <3>1 DEF LooseAck, LooseFork
      <4>3. LooseFork(1) =>
               /\ e.num = forked_at_block
               /\ \A j \in 1 .. n : LooseFork(j) => 1 = j
               /\ \A j \in 1 .. k : ~LooseAck(j)
        BY <1>3, <1>4, <2>1, <3>1 DEF LooseInv
      <4>4. ASSUME NEW i \in 1 .. n - 1, LooseFork(i)'
            PROVE  /\ events'[i].num = forked_at_block
                   /\ \A j \in 1 .. n - 1 : LooseFork(j)' => i = j
                   /\ \A j \in 1 .. k + 1 : ~LooseAck(j)'
        <5>1. ~LooseFork(1)
          BY <1>4, <2>5, <4>4
        <5> QED
          BY <1>4, <2>4, <2>5, <2>7, <3>1, <4>1, <4>2, <4>4, <5>1
      <4>5. ASSUME NEW i \in 1 .. k + 1, LooseAck(i)'
            PROVE  /\ acks'[i] = forked_at_block - 1
                   /\ \A j \in 1 .. k + 1 : LooseAck(j)' => i = j
        <5>1. CASE i = k + 1
          <6>1. e.num = forked_at_block /\ \A j \in 1 .. k : ~LooseAck(j)
            BY <4>2, <4>3, <4>5, <5>1
          <6> QED
            BY <3>1, <4>1, <5>1, <6>1
        <5>2. CASE i \in 1 .. k
          <6>1. LooseAck(i)
            BY <4>1, <4>5, <5>2
          <6>2. ~LooseFork(1)
            BY <4>3, <5>2, <6>1
          <6>3. \A j \in 1 .. k + 1 : LooseAck(j)' => j \in 1 .. k /\ LooseAck(j)
            BY <3>1, <4>1, <4>2, <6>2
          <6> QED
            BY <2>1, <3>1, <5>2, <6>1, <6>3 DEF LooseInv
        <5> QED
          BY <3>1, <5>1, <5>2
      <4> QED
        BY <1>1, <1>4, <3>1, <4>4, <4>5 DEF LooseInv
    <3> QED
      BY <1>1, <1>2, <1>4, <2>1, <2>6, <2>10, <3>1, <3>2, <3>3 DEF AcksInv
  <2> QED
    BY <2>8, <2>9
<1> QED
  BY <1>11, <1>12, <1>13, <1>14, <1>15, <1>16, <1>17 DEF SysInv
-------------------------------------------------------------------------------

\* A set of numbers has a smallest one.
LEMMA SmallestOf ==
    ASSUME NEW T \in SUBSET Nat, T # {}
    PROVE  \E x \in T : \A y \in T : x <= y
<1> DEFINE R == OpToRel(<, Nat)
<1>1. IsWellFoundedOn(R, Nat)
  BY NatLessThanWellFounded
<1>2. \A x \in Nat, y \in Nat : y < x => <<y, x>> \in R
  BY DEF OpToRel
<1> HIDE DEF R
<1>3. PICK x \in T : \A y \in T : ~(<<y, x>> \in R)
  BY <1>1, WFMin
<1>4. \A y \in T : y \in Nat
  OBVIOUS
<1>5. ASSUME NEW y \in T PROVE x <= y
  <2>1. ~(y < x)
    BY <1>2, <1>3, <1>4
  <2> QED
    BY <1>4, <2>1
<1> QED
  BY <1>5

\* The highest stored block is stored.
LEMMA TopStored ==
    ASSUME SysInv, ~StoredNothing
    PROVE  Top \in BlockNums /\ Stored(Top)
<1>1. MaxBlock \in Nat /\ \A m \in BlockNums : m \in Nat /\ 1 <= m /\ m <= MaxBlock
  BY VersionFacts
<1>2. PICK n0 \in BlockNums : Stored(n0)
  BY DEF StoredNothing, Stored
<1> DEFINE U == {n \in Nat : \A m \in BlockNums : Stored(m) => m <= n}
<1>3. MaxBlock \in U
  BY <1>1
<1>4. PICK n \in U : \A y \in U : n <= y
  <2>1. U \in SUBSET Nat /\ U # {}
    BY <1>3
  <2> HIDE DEF U
  <2> QED
    BY <2>1, SmallestOf
<1>5. n \in Nat /\ \A m \in BlockNums : Stored(m) => m <= n
  OBVIOUS
<1>6. n >= 1
  BY <1>1, <1>2, <1>5
<1>7. n - 1 \in Nat /\ n - 1 \notin U
  <2>1. n - 1 \in Nat /\ ~(n <= n - 1)
    BY <1>5, <1>6
  <2> HIDE DEF U
  <2> QED
    BY <1>4, <2>1
<1>8. PICK m \in BlockNums : Stored(m) /\ ~(m <= n - 1)
  BY <1>7
<1>9. m = n
  BY <1>1, <1>5, <1>8
<1>10. n \in BlockNums /\ Stored(n) /\ \A k \in BlockNums : Stored(k) => k <= n
  BY <1>5, <1>8, <1>9
<1> QED
  BY <1>10 DEF Top

\* The consumer acknowledges a block that is irreversible and that no event on
\* its way takes from it (MayAck).
LEMMA SendAckKeeps ==
    ASSUME SafePipeline, SysInv, NEW n \in BlockNums, SendAck(n) PROVE SysInv'
<1>1. /\ UNCHANGED vars
      /\ UNCHANGED <<db, pc, head, forked_at_block, exporter_acked_block, events, branch,
                     final, stored, knownLib, stops>>
      /\ Running /\ WillAck
      /\ n > lastAck /\ n <= Top /\ n <= knownLib
      /\ acks' = Append(acks, n) /\ lastAck' = n
  BY DEF SendAck, MayAck, SafePipeline, vars, shipVars, receiverVars, memory
<1>2. /\ events \in Seq(Events) /\ acks \in Seq(Nat) /\ Len(events) \in Nat
      /\ stored \in Contents /\ Consecutive(stored)
      /\ db.committed \in Nat /\ db.revision \in Nat /\ final \in Nat /\ FirstHead \in Nat
      /\ head \in Nat /\ lastAck \in Nat /\ knownLib \in Nat /\ forked_at_block \in Nat
      /\ \A i \in 1 .. Len(events) : events[i] \in Events /\ events[i].num \in Nat
      /\ \A i \in 1 .. Len(acks) : acks[i] \in Nat
      /\ n \in Nat /\ n >= 1 /\ MaxBlock \in Nat
  BY SystemFacts, VersionFacts
<1>3. ~StoredNothing
  BY <1>1, <1>2 DEF StoredNothing, Top, Stored
<1>4. FirstHead <= lastAck /\ FirstHead < n
  BY <1>1, <1>2, <1>3 DEF SysInv, ConsumerInv
<1>5. \A m \in BlockNums : FirstHead < m /\ m <= n => stored[m] # NoBlock
  <2>1. Top \in BlockNums /\ Top \in Nat /\ stored[Top] # NoBlock
    BY <1>3, TopStored, VersionFacts DEF Stored
  <2> QED
    BY <1>1, <1>2, <2>1, VersionFacts DEF Consecutive, Full
<1>6. PICK k \in Nat :
         /\ k = Len(acks) /\ Len(acks') = k + 1 /\ acks'[k + 1] = n
         /\ \A i \in 1 .. k : acks'[i] = acks[i]
         /\ \A i \in 1 .. k + 1 : i \in 1 .. k \/ i = k + 1
         /\ \A i \in 1 .. k + 1, j \in 1 .. k + 1 : j < i => j \in 1 .. k
         /\ acks' \in Seq(Nat)
  <2>1. PICK k \in Nat : k = Len(acks)
    BY <1>2
  <2>2. /\ Len(acks') = k + 1 /\ acks'[k + 1] = n
        /\ \A i \in 1 .. k : acks'[i] = acks[i]
        /\ acks' \in Seq(Nat)
    BY <1>1, <1>2, <2>1, AppendProperties
  <2>3. /\ \A i \in 1 .. k + 1 : i \in 1 .. k \/ i = k + 1
        /\ \A i \in 1 .. k + 1, j \in 1 .. k + 1 : j < i => j \in 1 .. k
    OBVIOUS
  <2> QED
    BY <2>1, <2>2, <2>3
<1>7. Running' = Running /\ Live' = Live /\ IInv'
  BY <1>1, StepInvariant DEF Running, Live, SessionOpen, SysInv, SafePipeline
<1>8. ConsumerTypeOK'
  BY <1>1, <1>2, <1>6 DEF SysInv, ConsumerTypeOK
<1>9. StreamInv'
  <2>1. PICK s : Stream(s, stored, events) /\ MatchInv(s[Len(events)])
    BY DEF SysInv, StreamInv
  <2>2. PICK z : z = s[Len(events)]
    OBVIOUS
  <2>3. MatchInv(z)
    BY <2>1, <2>2
  <2>4. /\ Running' => \A m \in BlockNums : m > db'.revision => s[Len(events')][m] = NoBlock
        /\ Live' =>
              /\ \A m \in BlockNums : m > head' => s[Len(events')][m] = NoBlock
              /\ \A m \in BlockNums : db'.committed < m /\ m <= db'.revision =>
                    s[Len(events')][m] = db'.at[m].head_id
    BY <1>1, <1>7, <2>2, <2>3 DEF MatchInv
  <2> QED
    BY <1>1, <2>1, <2>4 DEF StreamInv, MatchInv
<1>10. OrderInv(events, db.committed, knownLib, final)' /\ RestartsFirst(events)'
  BY <1>1 DEF SysInv, OrderInv, RestartsFirst
<1>11. \A i \in 1 .. Len(events) : Restarts(events[i]) =>
          /\ forked_at_block = events[i].num
          /\ events[i].num <= n
          /\ \A j \in 1 .. k : acks[j] >= events[i].num
  <2> SUFFICES ASSUME NEW i \in 1 .. Len(events), Restarts(events[i])
               PROVE  /\ forked_at_block = events[i].num
                      /\ events[i].num <= n
                      /\ \A j \in 1 .. k : acks[j] >= events[i].num
    OBVIOUS
  <2>1. \/ StoredNothing
        \/ /\ forked_at_block = events[i].num
           /\ events[i].num - 1 <= lastAck
           /\ \A j \in 1 .. Len(acks) : acks[j] >= events[i].num
    BY DEF SysInv, OwedForkInv
  <2>2. events[i].num \in Nat
    BY <1>2
  <2> QED
    BY <1>1, <1>2, <1>3, <1>6, <2>1, <2>2
<1>12. OwedForkInv'
  <2>1. ASSUME NEW i \in 1 .. Len(events), Restarts(events[i])
        PROVE  /\ forked_at_block = events[i].num /\ events[i].num - 1 <= n
               /\ \A j \in 1 .. k + 1 : acks'[j] >= events[i].num
    <3>1. /\ forked_at_block = events[i].num /\ events[i].num <= n
          /\ \A j \in 1 .. k : acks[j] >= events[i].num
          /\ events[i].num \in Nat
      BY <1>2, <1>11, <2>1
    <3>2. ASSUME NEW j \in 1 .. k + 1 PROVE acks'[j] >= events[i].num
      <4>1. CASE j \in 1 .. k
        BY <1>6, <3>1, <4>1
      <4>2. CASE j = k + 1
        BY <1>2, <1>6, <3>1, <4>2
      <4> QED
        BY <1>6, <4>1, <4>2
    <3> QED
      BY <1>2, <3>1, <3>2
  <2> QED
    BY <1>1, <1>6, <2>1 DEF OwedForkInv
<1>13. ConsumerInv'
  <2>1. lastAck <= n /\ FirstHead <= n
    BY <1>1, <1>2, <1>4
  <2> QED
    BY <1>1, <1>2, <1>7, <2>1 DEF SysInv, ConsumerInv
<1>14. AcksInv'
  <2> SUFFICES ASSUME Live PROVE AcksInv'
    BY <1>7 DEF AcksInv
  <2>1. AcksInv
    BY DEF SysInv
  <2>2. ASSUME NEW a, a \in Nat, AckOk(a) PROVE AckOk(a)'
    <3>1. a <= head' /\ (a <= lastAck' \/ a <= FirstHead)
      BY <1>1, <1>2, <2>2 DEF AckOk
    <3>2. \A i \in 1 .. Len(events') : Announces(events'[i]) => a < events'[i].num
      BY <1>1, <2>2 DEF AckOk, Announces
    <3>3. \A m \in BlockNums :
             db'.committed < m /\ m <= db'.revision /\ m <= a => stored'[m] = db'.at[m].head_id
      BY <1>1, <2>2 DEF AckOk
    <3> QED
      BY <3>1, <3>2, <3>3 DEF AckOk, Announces
  <2>3. AckOk(exporter_acked_block)'
    <3>1. PICK a \in Nat : a = exporter_acked_block
      BY SystemFacts
    <3>2. AckOk(a)'
      BY <2>1, <2>2, <3>1 DEF AcksInv
    <3> QED
      BY <1>1, <3>1, <3>2 DEF AckOk
  <2>4. ASSUME NEW i \in 1 .. k PROVE AckOk(acks[i])' \/ AckIgnored(i)'
    <3>1. AckIgnored(i) => AckIgnored(i)'
      BY <1>1, <1>6 DEF AckIgnored
    <3>2. PICK a \in Nat : a = acks[i] /\ a = acks'[i]
      BY <1>2, <1>6
    <3>3. AckOk(acks[i]) => AckOk(a)'
      BY <2>2, <3>2
    <3>4. AckOk(a)' => AckOk(acks[i])'
      BY <3>2 DEF AckOk
    <3> QED
      BY <1>6, <2>1, <3>1, <3>3, <3>4 DEF AcksInv
  <2>5. AckOk(acks[k + 1])' \/ AckIgnored(k + 1)'
    <3>1. CASE \E i \in 1 .. Len(events) : Restarts(events[i])
      <4>1. PICK i \in 1 .. Len(events) : Restarts(events[i])
        BY <3>1
      <4>2. /\ forked_at_block = events[i].num /\ events[i].num <= n
            /\ \A j \in 1 .. k : acks[j] >= events[i].num
            /\ events[i].num \in Nat
        BY <1>2, <1>11, <4>1
      <4>3. events[i].num > FirstHead
        BY <4>1 DEF SysInv, OrderInv, Announces, Restarts
      <4>4. forked_at_block > 0 /\ n >= forked_at_block
            /\ \A j \in 1 .. k : acks[j] # forked_at_block - 1
        BY <1>2, <1>6, <4>2, <4>3
      <4> QED
        BY <1>1, <1>6, <4>4 DEF AckIgnored
    <3>2. CASE \A i \in 1 .. Len(events) : ~Restarts(events[i])
      <4>1. PICK s : Stream(s, stored, events) /\ MatchInv(s[Len(events)])
        BY DEF SysInv, StreamInv
      <4>2. \A i \in 1 .. Len(events) : events[i].type = "fork" => n < events[i].num
        <5>1. \A i \in 1 .. Len(events) : events[i].type = "fork" => knownLib < events[i].num
          BY <3>2 DEF SysInv, OrderInv, Restarts
        <5> QED
          BY <1>1, <1>2, <5>1
      <4>3. ASSUME NEW m \in BlockNums, m <= n, NEW l \in 0 .. Len(events)
            PROVE  ~Cut(events, 0, l, m)
        <5>1. SUFFICES ASSUME NEW j \in 0 + 1 .. l, events[j].type = "fork", events[j].num <= m
                       PROVE  FALSE
          BY DEF Cut
        <5>2. j \in 1 .. Len(events) /\ m \in Nat
          BY <1>2, VersionFacts
        <5> QED
          BY <1>2, <4>2, <4>3, <5>1, <5>2
      <4>4. ASSUME NEW m \in BlockNums, FirstHead < m, m <= n, NEW l \in 0 .. Len(events)
            PROVE  s[l][m] = stored[m] /\ s[l][m] # NoBlock
        <5>1. s[0] = stored /\ Kept(s, events)
          BY <4>1 DEF Stream, IsTrace
        <5>2. stored[m] # NoBlock /\ ~Cut(events, 0, l, m)
          BY <1>5, <4>3, <4>4
        <5>3. 0 \in 0 .. Len(events) /\ 0 <= l
          BY <1>2
        <5> QED
          BY <5>1, <5>2, <5>3 DEF Kept
      <4>5. ASSUME NEW i \in 1 .. Len(events), Announces(events[i])
            PROVE  n < events[i].num
        <5>1. CASE events[i].type = "fork"
          BY <4>2, <5>1
        <5>2. CASE events[i].type = "block"
          <6>1. i - 1 \in 0 .. Len(events)
            BY <1>2
          <6>2. Fits(s[i - 1], events[i])
            BY <4>1 DEF Stream
          <6>3. s[i - 1][n] # NoBlock
            BY <1>2, <1>4, <4>4, <6>1
          <6>4. n <= events[i].num - 1
            BY <5>2, <6>2, <6>3 DEF Fits, Exactly
          <6> QED
            BY <1>2, <6>4
        <5> QED
          BY <1>2, <4>5, <5>1, <5>2, EventFacts DEF Announces
      <4>6. Len(events) \in 0 .. Len(events)
        BY <1>2
      <4>7. n <= head
        <5>1. s[Len(events)][n] # NoBlock
          BY <1>2, <1>4, <4>4, <4>6
        <5> QED
          BY <1>2, <4>1, <5>1 DEF MatchInv
      <4>8. ASSUME NEW m \in BlockNums, db.committed < m, m <= db.revision, m <= n
            PROVE  stored[m] = db.at[m].head_id
        <5>1. FirstHead < m
          BY <4>8, UncommittedAbove
        <5>2. s[Len(events)][m] = stored[m]
          BY <4>4, <4>6, <4>8, <5>1
        <5> QED
          BY <4>1, <4>8, <5>2 DEF MatchInv
      <4>9. AckOk(acks[k + 1])'
        BY <1>1, <1>2, <1>6, <4>5, <4>7, <4>8 DEF AckOk
      <4> QED
        BY <4>9
    <3> QED
      BY <3>1, <3>2
  <2>6. LooseInv'
    <3>1. n <= final
      BY <1>1, <1>2 DEF SysInv, OrderInv
    <3>2. /\ ~LooseAck(k + 1)'
          /\ \A i \in 1 .. k : LooseAck(i)' <=> LooseAck(i)
      BY <1>1, <1>2, <1>6, <3>1 DEF LooseAck
    <3>3. \A i \in 1 .. Len(events) : LooseFork(i)' <=> LooseFork(i)
      BY <1>1 DEF LooseFork
    <3>4. LooseInv
      BY <2>1 DEF AcksInv
    <3>5. \A i \in 1 .. k + 1 : LooseAck(i)' => i \in 1 .. k /\ LooseAck(i)
      BY <1>6, <3>2
    <3> QED
      BY <1>1, <1>6, <3>3, <3>4, <3>5 DEF LooseInv
  <2> QED
    BY <1>1, <1>6, <2>1, <2>3, <2>4, <2>5, <2>6 DEF AcksInv
<1> QED
  BY <1>7, <1>8, <1>9, <1>10, <1>12, <1>13, <1>14 DEF SysInv

\* The acknowledgement the receiver takes is one up to which the consumer has
\* what the database has, and once the FORK is acknowledged none that was sent
\* before it is left (ack_block).
LEMMA ReceiveAckKeeps ==
    ASSUME SafePipeline, SysInv, ReceiveAck PROVE SysInv'
<1>1. /\ acks # <<>> /\ acks' = Tail(acks)
      /\ UNCHANGED <<db, head, events, branch, final, stored, knownLib, lastAck, stops>>
      /\ Running /\ ack_block(Head(acks))
  BY DEF ReceiveAck, ack_block, shipVars
<1>2. /\ events \in Seq(Events) /\ acks \in Seq(Nat) /\ Len(events) \in Nat
      /\ db.committed \in Nat /\ db.revision \in Nat /\ final \in Nat /\ FirstHead \in Nat
      /\ forked_at_block \in Nat /\ exporter_acked_block \in Nat
      /\ \A i \in 1 .. Len(events) : events[i] \in Events /\ events[i].num \in Nat
      /\ \A i \in 1 .. Len(acks) : acks[i] \in Nat
  BY SystemFacts
<1>3. PICK k \in Nat, n \in Nat :
         /\ k >= 1 /\ k = Len(acks) /\ n = acks[1] /\ n = Head(acks)
         /\ Len(acks') = k - 1 /\ acks' \in Seq(Nat)
         /\ \A i \in 1 .. k - 1 : i \in Nat /\ i + 1 \in 1 .. k /\ i + 1 > 1
                                  /\ acks'[i] = acks[i + 1]
         /\ \A i \in 1 .. k - 1, j \in 1 .. k - 1 : (i + 1 = j + 1 => i = j) /\ (j < i => j + 1 < i + 1)
         /\ 1 \in 1 .. k
  <2>1. PICK k \in Nat, n \in Nat : k >= 1 /\ k = Len(acks) /\ n = acks[1] /\ n = Head(acks)
    BY <1>1, <1>2
  <2>2. /\ Len(acks') = k - 1 /\ acks' \in Seq(Nat)
        /\ \A i \in 1 .. k - 1 : acks'[i] = acks[i + 1]
    BY <1>1, <1>2, <2>1
  <2>3. /\ \A i \in 1 .. k - 1 : i \in Nat /\ i + 1 \in 1 .. k /\ i + 1 > 1
        /\ \A i \in 1 .. k - 1, j \in 1 .. k - 1 : (i + 1 = j + 1 => i = j) /\ (j < i => j + 1 < i + 1)
        /\ 1 \in 1 .. k
    BY <2>1
  <2> QED
    BY <2>1, <2>2, <2>3
<1>4. /\ exporter_acked_block' = IF AckAccepted(n) THEN n ELSE exporter_acked_block
      /\ forked_at_block' = IF n = forked_at_block - 1 THEN 0 ELSE forked_at_block
      /\ pc' = IF AckTooLow(n) THEN Aborted ELSE pc
  BY <1>1, <1>3 DEF ack_block, AckEffect
<1>5. IInv'
  BY <1>1, <1>3, AckInvariant DEF SysInv
<1>6. Running' = Running /\ (Live' => Live)
  BY <1>1, <1>4 DEF Running, Live, SessionOpen, Aborted
<1>7. ConsumerTypeOK'
  BY <1>1, <1>3 DEF SysInv, ConsumerTypeOK
<1>8. StreamInv'
  <2>1. PICK s : Stream(s, stored, events) /\ MatchInv(s[Len(events)])
    BY DEF SysInv, StreamInv
  <2>2. PICK z : z = s[Len(events)]
    OBVIOUS
  <2>3. MatchInv(z)
    BY <2>1, <2>2
  <2>4. /\ Running' => \A m \in BlockNums : m > db'.revision => s[Len(events')][m] = NoBlock
        /\ Live' =>
              /\ \A m \in BlockNums : m > head' => s[Len(events')][m] = NoBlock
              /\ \A m \in BlockNums : db'.committed < m /\ m <= db'.revision =>
                    s[Len(events')][m] = db'.at[m].head_id
    BY <1>1, <1>6, <2>2, <2>3 DEF MatchInv
  <2> QED
    BY <1>1, <2>1, <2>4 DEF StreamInv, MatchInv
<1>9. OrderInv(events, db.committed, knownLib, final)' /\ RestartsFirst(events)'
  BY <1>1 DEF SysInv, OrderInv, RestartsFirst
<1>10. OwedForkInv'
  <2>1. ASSUME NEW i \in 1 .. Len(events), Restarts(events[i]), ~StoredNothing
        PROVE  /\ forked_at_block' = events[i].num
               /\ events[i].num - 1 <= lastAck
               /\ \A j \in 1 .. k - 1 : acks'[j] >= events[i].num
    <3>1. /\ forked_at_block = events[i].num
          /\ events[i].num - 1 <= lastAck
          /\ \A j \in 1 .. k : acks[j] >= events[i].num
      BY <1>3, <2>1 DEF SysInv, OwedForkInv
    <3>2. n # forked_at_block - 1
      BY <1>2, <1>3, <3>1
    <3> QED
      BY <1>3, <1>4, <3>1, <3>2
  <2>2. StoredNothing' = StoredNothing
    BY <1>1 DEF StoredNothing
  <2> QED
    BY <1>1, <1>3, <2>1, <2>2 DEF OwedForkInv
<1>11. ConsumerInv'
  BY <1>1, <1>6 DEF SysInv, ConsumerInv, StoredNothing
<1>12. AcksInv'
  <2> SUFFICES ASSUME Live, Live' PROVE AcksInv'
    BY <1>6 DEF AcksInv
  <2>1. /\ pc \in {"reading", "quitting"} => forked_at_block = 0
        /\ AckOk(exporter_acked_block)
        /\ \A i \in 1 .. Len(events) : events[i].type = "fork" => events[i].num <= head + 1
        /\ \A i \in 1 .. k : AckOk(acks[i]) \/ AckIgnored(i)
        /\ LooseInv
    BY <1>3 DEF SysInv, AcksInv
  <2>2. \A a : a \in Nat /\ AckOk(a) => AckOk(a)'
    BY <1>1 DEF AckOk
  <2>3. ASSUME NEW i \in 1 .. k - 1, AckOk(acks[i + 1])
        PROVE  AckOk(acks[i])'
    <3>1. PICK a \in Nat : a = acks[i + 1] /\ a = acks'[i]
      BY <1>2, <1>3
    <3>2. AckOk(a)
      BY <2>3, <3>1
    <3>3. AckOk(a)'
      BY <2>2, <3>2
    <3> QED
      BY <3>1, <3>3 DEF AckOk
  <2>4. AckOk(exporter_acked_block)'
    <3>1. PICK a \in Nat : a = exporter_acked_block'
      BY <1>2, <1>3, <1>4
    <3>2. AckOk(a)
      <4>1. AckIgnored(1) => ~AckAccepted(n)
        BY <1>2, <1>3 DEF AckIgnored, AckAccepted
      <4> QED
        BY <1>3, <1>4, <2>1, <3>1, <4>1
    <3>3. AckOk(a)'
      BY <2>2, <3>2
    <3> QED
      BY <3>1, <3>3 DEF AckOk
  <2>5. /\ \A i \in 1 .. Len(events) : LooseFork(i)' <=> LooseFork(i)
        /\ \A i \in 1 .. k - 1 : LooseAck(i)' <=> LooseAck(i + 1)
    BY <1>1, <1>3 DEF LooseFork, LooseAck
  <2>6. CASE forked_at_block = 0
    <3>1. forked_at_block' = 0
      BY <1>4, <2>6
    <3>2. \A i \in 1 .. k - 1 : AckOk(acks[i])'
      <4>1. \A i \in 1 .. k : ~AckIgnored(i)
        BY <2>6 DEF AckIgnored
      <4> QED
        BY <1>3, <2>1, <2>3, <4>1
    <3>3. LooseInv'
      <4>1. \A i \in 1 .. Len(events) : ~LooseFork(i)
        <5>1. ASSUME NEW i \in 1 .. Len(events), LooseFork(i) PROVE FALSE
          <6>1. events[i].num = 0
            BY <2>1, <2>6, <5>1 DEF LooseInv
          <6> QED
            BY <1>2, <5>1, <6>1 DEF LooseFork
        <5> QED
          BY <5>1
      <4>2. \A i \in 1 .. k : ~LooseAck(i)
        <5>1. ASSUME NEW i \in 1 .. k, LooseAck(i) PROVE FALSE
          <6>1. acks[i] = 0 - 1
            BY <1>3, <2>1, <2>6, <5>1 DEF LooseInv
          <6>2. acks[i] \in Nat
            BY <1>2, <1>3
          <6> QED
            BY <6>1, <6>2
        <5> QED
          BY <5>1
      <4> QED
        BY <1>1, <1>3, <2>5, <4>1, <4>2 DEF LooseInv
    <3> QED
      BY <1>1, <1>3, <2>1, <2>4, <3>1, <3>2, <3>3 DEF AcksInv
  <2>7. CASE forked_at_block # 0
    <3>1. pc' = pc /\ pc \notin {"reading", "quitting"}
      BY <1>4, <2>1, <2>7 DEF AckTooLow
    <3>2. CASE n = forked_at_block - 1
      <4>1. forked_at_block' = 0
        BY <1>4, <3>2
      <4>2. \A i \in 1 .. k - 1 : ~AckIgnored(i + 1)
        BY <1>3, <3>2 DEF AckIgnored
      <4>3. \A i \in 1 .. k - 1 : AckOk(acks[i])'
        BY <1>3, <2>1, <2>3, <4>2
      <4>4. \A i \in 1 .. Len(events) : ~LooseFork(i)
        <5>1. ASSUME NEW i \in 1 .. Len(events), LooseFork(i) PROVE FALSE
          <6>1. events[i].num = forked_at_block /\ ~LooseAck(1)
            BY <1>3, <2>1, <5>1 DEF LooseInv
          <6> QED
            BY <1>2, <1>3, <3>2, <5>1, <6>1 DEF LooseFork, LooseAck
        <5> QED
          BY <5>1
      <4>5. \A i \in 1 .. k - 1 : ~LooseAck(i + 1)
        <5>1. ASSUME NEW i \in 1 .. k - 1, LooseAck(i + 1) PROVE FALSE
          <6>1. /\ acks[i + 1] = forked_at_block - 1
                /\ LooseAck(1) => i + 1 = 1
            BY <1>3, <2>1, <5>1 DEF LooseInv
          <6>2. LooseAck(1)
            BY <1>3, <3>2, <5>1, <6>1 DEF LooseAck
          <6>3. i + 1 > 1
            BY <1>3
          <6> QED
            BY <6>1, <6>2, <6>3
        <5> QED
          BY <5>1
      <4>6. LooseInv'
        BY <1>1, <1>3, <2>5, <4>4, <4>5 DEF LooseInv
      <4> QED
        BY <1>1, <1>3, <2>1, <2>4, <4>1, <4>3, <4>6 DEF AcksInv
    <3>3. CASE n # forked_at_block - 1
      <4>1. forked_at_block' = forked_at_block
        BY <1>4, <3>3
      <4>2. \A i \in 1 .. k - 1 : AckIgnored(i + 1) => AckIgnored(i)'
        BY <1>3, <4>1 DEF AckIgnored
      <4>3. \A i \in 1 .. k - 1 : AckOk(acks[i])' \/ AckIgnored(i)'
        BY <1>3, <2>1, <2>3, <4>2
      <4>4. LooseInv'
        <5>1. \A i \in 1 .. Len(events) : LooseFork(i)' =>
                 /\ events'[i].num = forked_at_block'
                 /\ \A j \in 1 .. Len(events) : LooseFork(j)' => i = j
                 /\ \A j \in 1 .. k - 1 : ~LooseAck(j)'
          BY <1>1, <1>3, <2>1, <2>5, <4>1 DEF LooseInv
        <5>2. \A i \in 1 .. k - 1 : LooseAck(i)' =>
                 /\ acks'[i] = forked_at_block' - 1
                 /\ \A j \in 1 .. k - 1 : LooseAck(j)' => i = j
          <6> SUFFICES ASSUME NEW i \in 1 .. k - 1, LooseAck(i + 1)
                       PROVE  /\ acks'[i] = forked_at_block - 1
                              /\ \A j \in 1 .. k - 1 : LooseAck(j + 1) => i = j
            BY <2>5, <4>1
          <6>1. i + 1 \in 1 .. k /\ acks'[i] = acks[i + 1]
            BY <1>3
          <6>2. /\ acks[i + 1] = forked_at_block - 1
                /\ \A j \in 1 .. k : LooseAck(j) => i + 1 = j
            BY <1>3, <2>1, <6>1 DEF LooseInv
          <6> QED
            BY <1>3, <6>1, <6>2
        <5> QED
          BY <1>1, <1>3, <5>1, <5>2 DEF LooseInv
      <4> QED
        BY <1>1, <1>3, <2>1, <2>4, <3>1, <4>3, <4>4 DEF AcksInv
    <3> QED
      BY <3>2, <3>3
  <2> QED
    BY <2>6, <2>7
<1> QED
  BY <1>5, <1>7, <1>8, <1>9, <1>10, <1>11, <1>12 DEF SysInv
-------------------------------------------------------------------------------

\* The consumer has the committed blocks of database d, and has acknowledged
\* them.
Secured(d) ==
    d.at[d.committed].saved =>
       /\ FirstHead < d.committed /\ d.committed <= lastAck
       /\ \A m \in BlockNums : FirstHead < m /\ m <= d.committed => stored[m] = branch[m]

\* Committing what was acknowledged and is of the chain commits what the
\* consumer has (commit_db).
LEMMA CommitSecured ==
    ASSUME SysInv, NEW d, IsDatabase(d, TableContents), DbOk(d), Secured(d),
           NEW a \in Nat, NEW n \in Nat, n <= a,
           a <= lastAck \/ a <= FirstHead,
           \A r \in d.committed .. d.revision : d.at[r].saved /\ r <= n => OnChain(d.at[r]),
           \A m \in BlockNums :
              d.committed < m /\ m <= d.revision /\ m <= a => stored[m] = d.at[m].head_id
    PROVE  Secured(Commit(d, n))
<1>1. PICK c :
         /\ c = Commit(d, n)
         /\ IsDatabase(c, TableContents) /\ c.revision = d.revision
         /\ c.committed \in d.committed .. d.revision
         /\ c.committed # d.committed => c.committed <= n
         /\ \A r \in c.committed .. d.revision : c.at[r] = d.at[r]
  <2>1. PICK c : c = Commit(d, n)
    OBVIOUS
  <2>2. /\ IsDatabase(c, TableContents) /\ c.revision = d.revision
        /\ c.committed \in d.committed .. d.revision
        /\ c.committed # d.committed => c.committed <= n
        /\ \A r \in c.committed .. d.revision : c.at[r] = d.at[r]
    BY <2>1, CommitDatabase
  <2> QED
    BY <2>1, <2>2
<1>2. /\ d.committed \in Nat /\ d.revision \in Nat /\ d.committed <= d.revision
      /\ c.committed \in Nat /\ lastAck \in Nat /\ FirstHead \in Nat
      /\ c.committed \in c.committed .. d.revision
  BY <1>1, SystemFacts DEF IsDatabase
<1>3. c.at[c.committed] = d.at[c.committed]
  BY <1>1, <1>2
<1>4. CASE c.committed = d.committed
  BY <1>1, <1>3, <1>4 DEF Secured
<1>5. CASE c.committed # d.committed
  <2>1. /\ d.committed < c.committed /\ c.committed <= n /\ c.committed <= a
        /\ d.committed < d.revision
    BY <1>1, <1>2, <1>5
  <2>2. FirstHead <= d.committed
    BY <1>2, <2>1 DEF DbOk, Secured
  <2>3. FirstHead < c.committed /\ c.committed <= lastAck
    BY <1>2, <2>1, <2>2
  <2>4. ASSUME NEW m \in BlockNums, FirstHead < m, m <= c.committed
        PROVE  stored[m] = branch[m]
    <3>1. m \in Nat
      BY VersionFacts
    <3>2. CASE m <= d.committed
      <4>1. d.at[d.committed].saved
        BY <1>2, <2>1, <2>2, <2>4, <3>1, <3>2 DEF DbOk
      <4> QED
        BY <2>4, <3>2, <4>1 DEF Secured
    <3>3. CASE ~(m <= d.committed)
      <4>1. /\ d.committed < m /\ m <= d.revision /\ m <= a /\ m <= n
            /\ m \in d.committed .. d.revision /\ m \in d.committed + 1 .. d.revision
        BY <1>1, <1>2, <2>1, <2>4, <3>1, <3>3
      <4>2. d.at[m].saved /\ RevisionHoldsBlock(d, m)
        BY <4>1 DEF DbOk
      <4>3. d.at[m].head = m /\ OnChain(d.at[m])
        BY <4>1, <4>2 DEF RevisionHoldsBlock
      <4> QED
        BY <4>1, <4>3 DEF OnChain
    <3> QED
      BY <3>2, <3>3
  <2> QED
    BY <1>1, <2>3, <2>4 DEF Secured
<1> QED
  BY <1>1, <1>4, <1>5

\* A step that closes the session and leaves the events and the consumer as
\* they are has the database to keep in order.
LEMMA ClosingKeeps ==
    ASSUME SysInv, IInv', pc' = "closed", Running,
           UNCHANGED <<forked_at_block, events, branch, final, stored, knownLib, lastAck,
                       acks, stops>>,
           Secured(db'), db'.committed \in Nat,
           \A i \in 1 .. Len(events) : Announces(events[i]) => events[i].num > db'.committed,
           \A s : Stream(s, stored, events) /\ MatchInv(s[Len(events)]) =>
                     \A m \in BlockNums : m > db'.revision => s[Len(events)][m] = NoBlock
    PROVE  SysInv'
<1>1. Running' /\ ~Live'
  BY DEF Running, Live, SessionOpen
<1>2. ConsumerTypeOK'
  BY DEF SysInv, ConsumerTypeOK
<1>3. StreamInv'
  <2>1. PICK s : Stream(s, stored, events) /\ MatchInv(s[Len(events)])
    BY DEF SysInv, StreamInv
  <2>2. \A m \in BlockNums : m > db'.revision => s[Len(events')][m] = NoBlock
    BY <2>1
  <2>3. Stream(s, stored', events')
    BY <2>1
  <2> QED
    BY <1>1, <2>2, <2>3 DEF StreamInv, MatchInv
<1>4. OrderInv(events, db.committed, knownLib, final)'
  BY DEF SysInv, OrderInv
<1>5. RestartsFirst(events)' /\ OwedForkInv'
  BY DEF SysInv, RestartsFirst, OwedForkInv, StoredNothing
<1>6. ConsumerInv'
  BY <1>1 DEF SysInv, ConsumerInv, Secured, StoredNothing
<1>7. AcksInv'
  BY <1>1 DEF AcksInv
<1> QED
  BY <1>2, <1>3, <1>4, <1>5, <1>6, <1>7 DEF SysInv

\* The end block is reached on the timer: commit_db (check_pause).
LEMMA EndReachedKeeps ==
    ASSUME SafePipeline, SysInv, PauseTimer, pc' = "closed", UNCHANGED <<consumerVars, stops>>
    PROVE  SysInv'
<1>1. /\ pc = "paused" /\ Running /\ Live /\ SessionOpen /\ WillAck
      /\ db' = Commit(db, CommitRevision(irreversible, exporter_acked_block))
      /\ UNCHANGED <<forked_at_block, events, branch, final, stored, knownLib, lastAck, acks, stops>>
  BY DEF PauseTimer, SafePipeline, Running, Live, SessionOpen, consumerVars, shipVars, memory
<1>2. /\ IInv' /\ IInv
      /\ IsDatabase(db, TableContents) /\ DbOk(db)
      /\ irreversible \in Nat /\ exporter_acked_block \in Nat /\ final \in Nat
      /\ irreversible <= final
  BY <1>1, PauseInvariant, InvariantFacts, FinalOnChain, Numbers DEF SysInv, IInv
<1>3. PICK n \in Nat, a \in Nat :
         /\ n = CommitRevision(irreversible, exporter_acked_block)
         /\ a = exporter_acked_block
         /\ n <= a /\ n <= final
  BY <1>1, <1>2 DEF CommitRevision
<1>4. /\ a <= lastAck \/ a <= FirstHead
      /\ \A i \in 1 .. Len(events) : Announces(events[i]) => a < events[i].num
      /\ \A m \in BlockNums :
            db.committed < m /\ m <= db.revision /\ m <= a => stored[m] = db.at[m].head_id
  BY <1>1, <1>3 DEF SysInv, AcksInv, AckOk
<1>5. /\ db.committed \in Nat /\ db.revision \in Nat
      /\ \A i \in 1 .. Len(events) : events[i].num \in Nat
  BY SystemFacts
<1>6. \A r \in db.committed .. db.revision : db.at[r].saved /\ r <= n => OnChain(db.at[r])
  <2>1. \A r \in db.committed .. db.revision : r <= n => r <= final
    BY <1>2, <1>3, <1>5
  <2> QED
    BY <1>1, <1>2, <2>1, FinalOnChain
<1>7. Secured(db)
  BY DEF SysInv, ConsumerInv, Secured
<1>8. Secured(Commit(db, n))
  BY <1>2, <1>3, <1>4, <1>6, <1>7, CommitSecured
<1>9. /\ db' = Commit(db, n)
      /\ db'.revision = db.revision
      /\ db'.committed \in db.committed .. db.revision
      /\ db'.committed # db.committed => db'.committed <= n
  BY <1>1, <1>2, <1>3, CommitDatabase
<1>10. db'.committed \in Nat
  BY <1>5, <1>9
<1>11. \A i \in 1 .. Len(events) : Announces(events[i]) => events[i].num > db'.committed
  <2>1. \A i \in 1 .. Len(events) : Announces(events[i]) => events[i].num > db.committed
    BY DEF SysInv, OrderInv
  <2> QED
    BY <1>3, <1>4, <1>5, <1>9, <1>10, <2>1
<1>12. \A s : Stream(s, stored, events) /\ MatchInv(s[Len(events)]) =>
                 \A m \in BlockNums : m > db'.revision => s[Len(events)][m] = NoBlock
  BY <1>1, <1>9 DEF MatchInv
<1> QED
  BY <1>1, <1>2, <1>8, <1>9, <1>10, <1>11, <1>12, ClosingKeeps

\* A rejected result closes the connection; all it may have done is to move the
\* revision of a database without a state (receive_result).
LEMMA RejectKeeps ==
    ASSUME SafePipeline, SysInv, RejectResult, UNCHANGED <<consumerVars, stops>>
    PROVE  SysInv'
<1>1. /\ pc \in {"reading", "quitting"} /\ Running /\ Live /\ SessionOpen /\ pc' = "closed"
      /\ db' = IF lib < irreversible \/ SetRevisionThrows(db) THEN db ELSE AlignedDb
      /\ UNCHANGED <<forked_at_block, events, branch, final, stored, knownLib, lastAck, acks, stops>>
  BY DEF RejectResult, CanRead, Running, Live, SessionOpen, consumerVars, chainVars, memory
<1>2. IInv' /\ IInv /\ db.committed \in Nat /\ FirstHead \in Nat /\ next \in Nat /\ head \in Nat
  BY RejectInvariant, SystemFacts, Numbers DEF SysInv
<1>3. CASE db' = db
  <2>1. Secured(db')
    BY <1>3 DEF SysInv, ConsumerInv, Secured
  <2>2. \A i \in 1 .. Len(events) : Announces(events[i]) => events[i].num > db'.committed
    BY <1>3 DEF SysInv, OrderInv
  <2>3. \A s : Stream(s, stored, events) /\ MatchInv(s[Len(events)]) =>
                 \A m \in BlockNums : m > db'.revision => s[Len(events)][m] = NoBlock
    BY <1>1, <1>3 DEF MatchInv
  <2> QED
    BY <1>1, <1>2, <1>3, <2>1, <2>2, <2>3, ClosingKeeps
<1>4. CASE db' # db
  <2>1. RevisionBehind /\ ~SetRevisionThrows(db) /\ db' = AlignedDb
    BY <1>1, <1>4 DEF AlignedDb
  <2>2. /\ next = head + 1 /\ ~Tables(db).saved
        /\ db'.committed = next - 1 /\ db'.revision = next - 1 /\ db'.at[next - 1] = EmptyTables
    BY <1>1, <1>2, <2>1, AlignedOk
  <2>3. head = FirstHead
    BY <1>1, <2>2 DEF SysInv, IInv, MemoryInv
  <2>4. db'.committed = FirstHead /\ db'.revision = head /\ db'.at[db'.committed] = EmptyTables
    BY <1>2, <2>2, <2>3
  <2>5. Secured(db')
    BY <2>4 DEF Secured, EmptyTables
  <2>6. \A i \in 1 .. Len(events) : Announces(events[i]) => events[i].num > db'.committed
    BY <2>4 DEF SysInv, OrderInv
  <2>7. \A s : Stream(s, stored, events) /\ MatchInv(s[Len(events)]) =>
                 \A m \in BlockNums : m > db'.revision => s[Len(events)][m] = NoBlock
    BY <1>1, <2>4 DEF MatchInv
  <2>8. db'.committed \in Nat
    BY <1>2, <2>4
  <2> QED
    BY <1>1, <1>2, <2>5, <2>6, <2>7, <2>8, ClosingKeeps
<1> QED
  BY <1>3, <1>4

-------------------------------------------------------------------------------

\* While a read is outstanding no acknowledgement of a FORK is awaited
\* (check_pause), so that no acknowledgement is ignored and no FORK owed.
LEMMA NoneAwaited ==
    ASSUME SafePipeline, SysInv, pc \in {"reading", "quitting"}
    PROVE  /\ Running /\ Live /\ SessionOpen /\ forked_at_block = 0
           /\ AckOk(exporter_acked_block)
           /\ \A i \in 1 .. Len(acks) : AckOk(acks[i]) /\ ~LooseAck(i)
           /\ \A i \in 1 .. Len(events) : ~LooseFork(i)
           /\ \A i \in 1 .. Len(events) : Restarts(events[i]) => StoredNothing
           /\ \A i \in 1 .. Len(events) : events[i].type = "fork" => events[i].num <= head + 1
<1>1. Running /\ Live /\ SessionOpen
  BY DEF Running, Live, SessionOpen
<1>2. /\ forked_at_block = 0 /\ AckOk(exporter_acked_block) /\ LooseInv
      /\ \A i \in 1 .. Len(acks) : AckOk(acks[i]) \/ AckIgnored(i)
      /\ \A i \in 1 .. Len(events) : events[i].type = "fork" => events[i].num <= head + 1
  BY <1>1 DEF SysInv, AcksInv
<1>3. /\ \A i \in 1 .. Len(events) : events[i].num \in Nat
      /\ \A i \in 1 .. Len(acks) : acks[i] \in Nat
      /\ final \in Nat /\ FirstHead \in Nat
  BY SystemFacts
<1>4. \A i \in 1 .. Len(acks) : ~AckIgnored(i) /\ ~LooseAck(i)
  BY <1>2, <1>3 DEF AckIgnored, LooseInv
<1>5. \A i \in 1 .. Len(events) : ~LooseFork(i)
  BY <1>2, <1>3 DEF LooseFork, LooseInv
<1>6. ASSUME NEW i \in 1 .. Len(events), Restarts(events[i]) PROVE StoredNothing
  <2>1. events[i].num > FirstHead
    BY <1>6 DEF SysInv, OrderInv, Restarts, Announces
  <2>2. StoredNothing \/ forked_at_block = events[i].num
    BY <1>6 DEF SysInv, OwedForkInv
  <2>3. forked_at_block # events[i].num
    <3>1. events[i].num \in Nat /\ FirstHead \in Nat /\ forked_at_block = 0
      BY <1>2, <1>3
    <3> QED
      BY <2>1, <3>1
  <2> QED
    BY <2>2, <2>3
<1> QED
  BY <1>1, <1>2, <1>4, <1>5, <1>6

\* What the checks and a fork's rollback leave of the database: the revisions
\* below the block that arrives (receive_result).
LEMMA PreparedFacts ==
    ASSUME SysInv, AcceptResult, NEW p, p = PreparedDb
    PROVE  /\ next \in BlockNums /\ next \in Nat /\ FirstHead < next
           /\ p.committed \in Nat /\ p.revision = next - 1 /\ p.committed <= next - 1
           /\ p.committed = db.committed \/ p.committed = FirstHead
           /\ db.at[db.committed].saved => p.committed = db.committed
           /\ \A m \in BlockNums : p.committed < m /\ m <= next - 1 =>
                 db.committed < m /\ m <= db.revision /\ p.at[m] = db.at[m]
           /\ Secured(p)
           /\ ForkDetected => final < next /\ next <= head
           /\ ~ForkDetected => next = head + 1
<1>1. /\ IInv /\ CanRead /\ ~Rejected /\ SessionOpen
      /\ ~(RevisionBehind /\ SetRevisionThrows(db))
      /\ next \in 1 .. tip
  BY AcceptFacts DEF SysInv, CanRead, Rejected, SessionOpen
<1>2. /\ db.committed \in Nat /\ db.revision \in Nat /\ db.committed <= db.revision
      /\ next \in Nat /\ next >= 1 /\ next <= MaxBlock /\ MaxBlock \in Nat
      /\ head \in Nat /\ FirstHead \in Nat /\ final \in Nat /\ lib \in Nat /\ lib <= final
      /\ FirstHead <= final /\ IsDatabase(db, TableContents)
  BY <1>1, SystemFacts, InvariantFacts, Numbers
<1>3. /\ head = IF Tables(db).saved THEN db.revision ELSE FirstHead
      /\ db.committed < next /\ next <= head + 1
      /\ next <= head => final < next /\ Tables(db).saved
  BY <1>1 DEF IInv, MemoryInv, SessionInv
<1>4. next \in BlockNums /\ \A m \in BlockNums : m \in Nat
  BY <1>2, VersionFacts DEF BlockNums
<1>5. IsDatabase(p, TableContents) /\ p.revision = next - 1
  BY <1>1, PreparedOk
<1>6. p.committed \in Nat /\ p.committed <= next - 1
  BY <1>2, <1>5 DEF IsDatabase
<1>7. /\ ForkDetected => final < next /\ next <= head
      /\ ~ForkDetected => next = head + 1
  BY <1>2, <1>3 DEF ForkDetected
<1>8. FirstHead <= head
  <2>1. CASE db.at[db.committed].saved
    <3>1. FirstHead < db.committed
      BY <2>1 DEF SysInv, ConsumerInv
    <3> QED
      BY <1>2, <1>3, <3>1
  <2>2. CASE ~db.at[db.committed].saved
    <3>1. db.committed < db.revision => db.committed = FirstHead
      BY <1>1, <2>2, RevisionFacts
    <3>2. Tables(db).saved => db.committed < db.revision
      BY <1>2, <2>2 DEF Tables
    <3> QED
      BY <1>2, <1>3, <3>1, <3>2
  <2> QED
    BY <2>1, <2>2
<1>9. FirstHead < next
  BY <1>2, <1>7, <1>8
<1>10. Secured(db)
  BY DEF SysInv, ConsumerInv, Secured
<1>11. CASE RevisionBehind
  <2>1. /\ next = head + 1 /\ ~Tables(db).saved /\ AlignedDb.committed = next - 1
        /\ AlignedDb.at[next - 1] = EmptyTables
    BY <1>1, <1>11, AlignedOk
  <2>2. p = AlignedDb
    BY <1>2, <2>1 DEF PreparedDb, ForkDetected
  <2>3. p.committed = next - 1 /\ next - 1 = FirstHead /\ p.at[p.committed] = EmptyTables
    BY <1>2, <1>3, <2>1, <2>2
  <2>4. Secured(p)
    BY <2>3 DEF Secured, EmptyTables
  <2>5. ASSUME NEW m \in BlockNums PROVE ~(p.committed < m /\ m <= next - 1)
    <3>1. m \in Nat
      BY <1>4
    <3> QED
      BY <1>2, <2>3, <3>1
  <2>6. ~db.at[db.committed].saved
    <3>1. db.committed = db.revision
      BY <1>1, <1>2, <1>11 DEF SetRevisionThrows, HasUndoSession
    <3> QED
      BY <2>1, <3>1 DEF Tables
  <2> QED
    BY <1>2, <1>4, <1>5, <1>6, <1>7, <1>9, <2>3, <2>4, <2>5, <2>6
<1>12. CASE ~RevisionBehind /\ ForkDetected
  <2>1. p = UndoFrom(db, next) /\ next <= db.revision /\ db.committed < next
    BY <1>3, <1>7, <1>12 DEF PreparedDb, AlignedDb
  <2>2. /\ p.committed = db.committed
        /\ \A r \in db.committed .. next - 1 : p.at[r] = db.at[r]
    BY <1>2, <2>1, UndoFromDatabase
  <2>3. /\ db.committed \in db.committed .. next - 1
        /\ \A m \in BlockNums : db.committed < m /\ m <= next - 1 =>
              m \in db.committed .. next - 1 /\ m <= db.revision
    BY <1>2, <1>4, <2>1
  <2>4. Secured(p)
    BY <1>10, <2>2, <2>3 DEF Secured
  <2> QED
    BY <1>2, <1>4, <1>5, <1>6, <1>7, <1>9, <2>2, <2>3, <2>4
<1>13. CASE ~RevisionBehind /\ ~ForkDetected
  <2>1. p = db
    BY <1>13 DEF PreparedDb, AlignedDb
  <2> QED
    BY <1>2, <1>4, <1>5, <1>6, <1>7, <1>9, <1>10, <2>1
<1> QED
  BY <1>11, <1>12, <1>13

\* With the FORK of a detected fork behind it the queue leads to the blocks
\* below the one that arrives (receive_result).
LEMMA PreparedStream ==
    ASSUME SysInv, AcceptResult, NEW p, p = PreparedDb
    PROVE  \E s : /\ Stream(s, stored, PreparedEvents)
                  /\ Exactly(s[Len(PreparedEvents)], next - 1)
                  /\ \A m \in BlockNums : p.committed < m /\ m <= next - 1 =>
                        s[Len(PreparedEvents)][m] = p.at[m].head_id
<1>1. /\ next \in BlockNums /\ next \in Nat /\ FirstHead < next
      /\ \A m \in BlockNums : p.committed < m /\ m <= next - 1 =>
            db.committed < m /\ m <= db.revision /\ p.at[m] = db.at[m]
      /\ ForkDetected => next <= head
      /\ ~ForkDetected => next = head + 1
  BY PreparedFacts
<1>2. Live
  BY AcceptFacts DEF SysInv, CanRead, Live, SessionOpen
<1>3. PICK s : Stream(s, stored, events) /\ MatchInv(s[Len(events)])
  BY DEF SysInv, StreamInv
<1>4. Exactly(s[Len(events)], head)
  BY <1>2, <1>3, LiveEnd
<1>5. \A m \in BlockNums : db.committed < m /\ m <= db.revision =>
         s[Len(events)][m] = db.at[m].head_id
  BY <1>2, <1>3 DEF MatchInv
<1>6. CASE ForkDetected
  <2>1. PICK e : e = ForkEvent(next, "network")
    OBVIOUS
  <2>2. /\ e \in Events /\ e.type = "fork" /\ e.num = next
        /\ PreparedEvents = Append(events, e)
    BY <1>1, <1>6, <2>1 DEF ForkEvent, Events, PreparedEvents
  <2>3. events \in Seq(Events) /\ head \in Nat /\ \A m \in BlockNums : m \in Nat
    BY SystemFacts, VersionFacts
  <2>4. Full(s[Len(events)], next - 1)
    <3>1. \A m \in BlockNums : m <= next - 1 => m <= head
      BY <1>1, <1>6, <2>3
    <3> QED
      BY <1>4, <3>1 DEF Exactly, Full
  <2>5. PICK t : /\ Stream(t, stored, Append(events, e))
                 /\ Exactly(t[Len(Append(events, e))], next - 1)
                 /\ \A m \in BlockNums :
                       m < next => t[Len(Append(events, e))][m] = s[Len(events)][m]
    <3>1. Stream(s, stored, events) /\ e.num > FirstHead /\ Full(s[Len(events)], e.num - 1)
      BY <1>1, <1>3, <2>2, <2>4
    <3>2. \E t : /\ Stream(t, stored, Append(events, e))
                 /\ Exactly(t[Len(Append(events, e))], e.num - 1)
                 /\ \A m \in BlockNums :
                       m < e.num => t[Len(Append(events, e))][m] = s[Len(events)][m]
      BY <2>2, <2>3, <3>1, AppendFork
    <3> QED
      BY <2>2, <3>2
  <2>6. \A m \in BlockNums : m <= next - 1 => m < next
    BY <1>1, <2>3
  <2> QED
    BY <1>1, <1>5, <2>2, <2>5, <2>6
<1>7. CASE ~ForkDetected
  <2>1. PreparedEvents = events /\ next - 1 = head
    BY <1>1, <1>7, SystemFacts DEF PreparedEvents
  <2> QED
    BY <1>1, <1>3, <1>4, <1>5, <2>1
<1> QED
  BY <1>6, <1>7

\* The order of the events with the FORK of a detected fork behind them
\* (receive_result).
LEMMA PreparedOrder ==
    ASSUME SafePipeline, SysInv, AcceptResult
    PROVE  /\ PreparedEvents \in Seq(Events)
           /\ OrderInv(PreparedEvents, db.committed, knownLib, final)
           /\ RestartsFirst(PreparedEvents)
           /\ \A i \in 1 .. Len(PreparedEvents) :
                 PreparedEvents[i].type = "fork" => PreparedEvents[i].num <= next
           /\ \A i \in 1 .. Len(PreparedEvents) : Restarts(PreparedEvents[i]) => StoredNothing
<1>1. PICK p : p = PreparedDb
  OBVIOUS
<1>2. /\ next \in Nat /\ FirstHead < next
      /\ ForkDetected => final < next /\ next <= head
      /\ ~ForkDetected => next = head + 1
  BY <1>1, PreparedFacts
<1>3. /\ events \in Seq(Events) /\ head \in Nat /\ final \in Nat /\ db.committed \in Nat
      /\ knownLib \in Nat /\ db.committed <= final /\ Len(events) \in Nat
      /\ \A i \in 1 .. Len(events) : events[i].num \in Nat
  BY SystemFacts
<1>4. pc \in {"reading", "quitting"}
  BY DEF AcceptResult, CanRead
<1>5. /\ \A i \in 1 .. Len(events) : Restarts(events[i]) => StoredNothing
      /\ \A i \in 1 .. Len(events) : events[i].type = "fork" =>
            events[i].num <= head + 1 /\ ~LooseFork(i)
  BY <1>4, NoneAwaited
<1>6. \A i \in 1 .. Len(events) : events[i].type = "fork" => events[i].num <= next
  BY <1>2, <1>3, <1>5 DEF LooseFork
<1>7. /\ OrderInv(events, db.committed, knownLib, final) /\ RestartsFirst(events)
  BY DEF SysInv
<1>8. CASE ForkDetected
  <2>1. PICK e : e = ForkEvent(next, "network")
    OBVIOUS
  <2>2. /\ e \in Events /\ e.type = "fork" /\ e.num = next /\ ~Restarts(e)
        /\ PreparedEvents = Append(events, e)
    BY <1>2, <1>8, <2>1 DEF ForkEvent, Events, PreparedEvents, Restarts
  <2>3. OrderInv(Append(events, e), db.committed, knownLib, final)
    <3>1. e.num > db.committed /\ e.num > FirstHead /\ final < e.num
      BY <1>2, <1>3, <1>8, <2>2
    <3> QED
      BY <1>3, <1>6, <1>7, <2>2, <3>1, OrderAppend
  <2>4. RestartsFirst(Append(events, e))
    BY <1>3, <1>7, <2>2, RestartsAppend
  <2>5. /\ Len(Append(events, e)) = Len(events) + 1
        /\ \A i \in 1 .. Len(events) : Append(events, e)[i] = events[i]
        /\ Append(events, e)[Len(events) + 1] = e
        /\ Append(events, e) \in Seq(Events)
    BY <1>3, <2>2, AppendProperties
  <2>6. \A i \in 1 .. Len(events) + 1 : i \in 1 .. Len(events) \/ i = Len(events) + 1
    BY <1>3
  <2>7. \A i \in 1 .. Len(events) + 1 :
           /\ Append(events, e)[i].type = "fork" => Append(events, e)[i].num <= next
           /\ Restarts(Append(events, e)[i]) => StoredNothing
    BY <1>2, <1>5, <1>6, <2>2, <2>5, <2>6
  <2> QED
    BY <2>2, <2>3, <2>4, <2>5, <2>7
<1>9. CASE ~ForkDetected
  BY <1>3, <1>5, <1>6, <1>7, <1>9 DEF PreparedEvents
<1> QED
  BY <1>8, <1>9

\* The acknowledged block after a rollback is below the block that arrives and
\* below everything published, and the consumer has what the database has up to
\* there (receive_result).
LEMMA PreparedAckFacts ==
    ASSUME SafePipeline, SysInv, AcceptResult, NEW p, p = PreparedDb
    PROVE  /\ PreparedAck \in Nat /\ PreparedAck <= next - 1
           /\ PreparedAck <= lastAck \/ PreparedAck <= FirstHead
           /\ \A i \in 1 .. Len(PreparedEvents) :
                 Announces(PreparedEvents[i]) => PreparedAck < PreparedEvents[i].num
           /\ \A m \in BlockNums : p.committed < m /\ m <= next - 1 /\ m <= PreparedAck =>
                 stored[m] = p.at[m].head_id
<1>1. /\ next \in BlockNums /\ next \in Nat
      /\ \A m \in BlockNums : p.committed < m /\ m <= next - 1 =>
            db.committed < m /\ m <= db.revision /\ p.at[m] = db.at[m]
      /\ ForkDetected => next <= head
      /\ ~ForkDetected => next = head + 1
  BY PreparedFacts
<1>2. /\ events \in Seq(Events) /\ head \in Nat /\ exporter_acked_block \in Nat
      /\ lastAck \in Nat /\ FirstHead \in Nat /\ Len(events) \in Nat
      /\ \A i \in 1 .. Len(events) : events[i].num \in Nat
      /\ \A m \in BlockNums : m \in Nat
  BY SystemFacts, VersionFacts
<1>3. AckOk(exporter_acked_block)
  <2>1. pc \in {"reading", "quitting"}
    BY DEF AcceptResult, CanRead
  <2> QED
    BY <2>1, NoneAwaited
<1>4. PICK a \in Nat : a = PreparedAck
  BY AcceptFacts DEF SysInv
<1>5. a <= next - 1 /\ a <= exporter_acked_block
  <2>1. exporter_acked_block <= head
    BY <1>3 DEF AckOk
  <2> QED
    BY <1>1, <1>2, <1>4, <2>1 DEF PreparedAck, SafePipeline
<1>6. a <= lastAck \/ a <= FirstHead
  <2>1. exporter_acked_block <= lastAck \/ exporter_acked_block <= FirstHead
    BY <1>3 DEF AckOk
  <2> QED
    BY <1>2, <1>5, <2>1
<1>7. ASSUME NEW i \in 1 .. Len(events), Announces(events[i]) PROVE a < events[i].num
  <2>1. exporter_acked_block < events[i].num
    BY <1>3, <1>7 DEF AckOk
  <2>2. events[i].num \in Nat
    BY <1>2
  <2> QED
    BY <1>2, <1>5, <2>1, <2>2
<1>8. ASSUME NEW i \in 1 .. Len(PreparedEvents), Announces(PreparedEvents[i])
      PROVE  a < PreparedEvents[i].num
  <2>1. CASE ForkDetected
    <3>1. PICK e : e = ForkEvent(next, "network") /\ PreparedEvents = Append(events, e)
      BY <2>1 DEF PreparedEvents
    <3>2. e \in Events /\ e.num = next
      BY <1>1, <3>1 DEF ForkEvent, Events
    <3>3. /\ Len(PreparedEvents) = Len(events) + 1
          /\ \A j \in 1 .. Len(events) : PreparedEvents[j] = events[j]
          /\ PreparedEvents[Len(events) + 1] = e
      BY <1>2, <3>1, <3>2, AppendProperties
    <3>4. i \in 1 .. Len(events) \/ i = Len(events) + 1
      BY <1>2, <3>3
    <3>5. CASE i \in 1 .. Len(events)
      BY <1>7, <1>8, <3>3, <3>5
    <3>6. CASE i = Len(events) + 1
      BY <1>1, <1>5, <3>2, <3>3, <3>6
    <3> QED
      BY <3>4, <3>5, <3>6
  <2>2. CASE ~ForkDetected
    BY <1>7, <1>8, <2>2 DEF PreparedEvents
  <2> QED
    BY <2>1, <2>2
<1>9. ASSUME NEW m \in BlockNums, p.committed < m, m <= next - 1, m <= a
      PROVE  stored[m] = p.at[m].head_id
  <2>1. m <= exporter_acked_block
    BY <1>2, <1>5, <1>9
  <2>2. db.committed < m /\ m <= db.revision /\ p.at[m] = db.at[m]
    BY <1>1, <1>9
  <2>3. stored[m] = db.at[m].head_id
    BY <1>3, <2>1, <2>2 DEF AckOk
  <2> QED
    BY <2>2, <2>3
<1> QED
  BY <1>4, <1>5, <1>6, <1>8, <1>9

\* What an accepted block publishes keeps the queue in order, whatever becomes
\* of it in the handler (receive_result).
LEMMA AcceptKeeps ==
    ASSUME SafePipeline, SysInv, AcceptResult, UNCHANGED <<consumerVars, stops>>, IInv',
           pc' # "down",
           NEW e \in Events, events' = Append(PreparedEvents, e), e.num = next,
           e.type # "fork", e.type = "block" => e.lib = lib,
           Secured(db'), db'.committed \in Nat,
           db'.committed \in {db.committed, FirstHead} \/ db'.committed <= PreparedAck,
           StreamInv', AcksInv'
    PROVE  SysInv'
<1>1. /\ PreparedEvents \in Seq(Events)
      /\ OrderInv(PreparedEvents, db.committed, knownLib, final)
      /\ RestartsFirst(PreparedEvents)
      /\ \A i \in 1 .. Len(PreparedEvents) :
            PreparedEvents[i].type = "fork" => PreparedEvents[i].num <= next
      /\ \A i \in 1 .. Len(PreparedEvents) : Restarts(PreparedEvents[i]) => StoredNothing
  BY PreparedOrder
<1>2. PICK p : p = PreparedDb
  OBVIOUS
<1>3. /\ next \in Nat /\ FirstHead < next /\ p.committed <= next - 1
      /\ ForkDetected => final < next /\ next <= head
      /\ ~ForkDetected => next = head + 1
  BY <1>2, PreparedFacts
<1>4. /\ PreparedAck \in Nat /\ PreparedAck <= next - 1
      /\ \A i \in 1 .. Len(PreparedEvents) :
            Announces(PreparedEvents[i]) => PreparedAck < PreparedEvents[i].num
  BY <1>2, PreparedAckFacts
<1>5. /\ db.committed \in Nat /\ final \in Nat /\ FirstHead \in Nat /\ knownLib \in Nat
      /\ lib \in Nat /\ lib <= final /\ Len(PreparedEvents) \in Nat
      /\ \A i \in 1 .. Len(PreparedEvents) : PreparedEvents[i] \in Events
  <2>1. /\ db.committed \in Nat /\ final \in Nat /\ FirstHead \in Nat /\ knownLib \in Nat
        /\ lib \in Nat /\ lib <= final
    BY SystemFacts
  <2>2. PICK q \in Seq(Events) : q = PreparedEvents
    BY <1>1
  <2>3. Len(q) \in Nat /\ \A i \in 1 .. Len(q) : q[i] \in Events
    OBVIOUS
  <2> QED
    BY <2>1, <2>2, <2>3
<1>6. \A i \in 1 .. Len(PreparedEvents) : PreparedEvents[i].num \in Nat
  BY <1>5, EventFacts
<1>7. UNCHANGED <<stored, knownLib, lastAck, acks, stops, branch, final>>
  BY AcceptFacts DEF consumerVars, SysInv
<1>8. db.committed < next
  BY <1>1, AcceptFacts DEF SysInv, IInv, SessionInv, CanRead, SessionOpen
<1>9. /\ e.num > db'.committed /\ e.num > FirstHead
      /\ \A i \in 1 .. Len(PreparedEvents) : Announces(PreparedEvents[i]) =>
            PreparedEvents[i].num > db'.committed
  <2>1. \A i \in 1 .. Len(PreparedEvents) : Announces(PreparedEvents[i]) =>
           PreparedEvents[i].num > db.committed /\ PreparedEvents[i].num > FirstHead
    BY <1>1 DEF OrderInv
  <2>2. PICK c \in Nat : c = db'.committed
    OBVIOUS
  <2>3. c = db.committed \/ c = FirstHead \/ c <= PreparedAck
    BY <2>2
  <2>4. c < next
    BY <1>3, <1>4, <1>5, <1>8, <2>3
  <2>5. ASSUME NEW i \in 1 .. Len(PreparedEvents), Announces(PreparedEvents[i])
        PROVE  PreparedEvents[i].num > c
    <3>1. PICK k \in Nat : k = PreparedEvents[i].num
      BY <1>6
    <3>2. k > db.committed /\ k > FirstHead /\ PreparedAck < k
      BY <1>4, <2>1, <2>5, <3>1
    <3> QED
      BY <1>4, <1>5, <2>3, <3>1, <3>2
  <2> QED
    BY <1>3, <1>5, <2>2, <2>4, <2>5
<1>10. OrderInv(PreparedEvents, db'.committed, knownLib, final)
  BY <1>1, <1>9 DEF OrderInv
<1>11. OrderInv(events, db.committed, knownLib, final)'
  <2>1. PICK c \in Nat : c = db'.committed
    OBVIOUS
  <2>2. OrderInv(Append(PreparedEvents, e), c, knownLib, final)
    BY <1>1, <1>5, <1>9, <1>10, <2>1, OrderAppend
  <2> QED
    BY <1>7, <2>1, <2>2
<1>12. RestartsFirst(events)'
  <2>1. ~Restarts(e)
    BY DEF Restarts
  <2>2. RestartsFirst(Append(PreparedEvents, e))
    BY <1>1, <2>1, RestartsAppend
  <2> QED
    BY <2>2 DEF RestartsFirst
<1>13. /\ Len(events') = Len(PreparedEvents) + 1
       /\ \A i \in 1 .. Len(PreparedEvents) : events'[i] = PreparedEvents[i]
       /\ events'[Len(PreparedEvents) + 1] = e
       /\ \A i \in 1 .. Len(events') :
             i \in 1 .. Len(PreparedEvents) \/ i = Len(PreparedEvents) + 1
  <2>1. /\ Len(events') = Len(PreparedEvents) + 1
        /\ \A i \in 1 .. Len(PreparedEvents) : events'[i] = PreparedEvents[i]
        /\ events'[Len(PreparedEvents) + 1] = e
    BY <1>1, AppendProperties
  <2> QED
    BY <1>5, <2>1
<1>14. OwedForkInv'
  <2>1. ~Restarts(e)
    BY DEF Restarts
  <2>2. \A i \in 1 .. Len(events') : Restarts(events'[i]) => StoredNothing
    BY <1>1, <1>13, <2>1
  <2>3. StoredNothing => StoredNothing'
    BY <1>7 DEF StoredNothing
  <2> QED
    BY <2>2, <2>3 DEF OwedForkInv
<1>15. ConsumerInv'
  <2>1. Running /\ Running'
    BY DEF AcceptResult, CanRead, Running
  <2>2. events # <<>> => events' # <<>> /\ events'[1] = events[1]
    <3>1. events \in Seq(Events)
      BY DEF SysInv, IInv, TypeOK
    <3>2. events # <<>> => 1 \in 1 .. Len(events) /\ Len(events) \in Nat
      BY <3>1
    <3>3. events # <<>> => 1 \in 1 .. Len(PreparedEvents) /\ PreparedEvents[1] = events[1]
      <4>1. CASE ForkDetected
        <5>1. PICK f : f = ForkEvent(next, "network") /\ PreparedEvents = Append(events, f)
          BY <4>1 DEF PreparedEvents
        <5>2. f \in Events
          BY <1>3, <5>1 DEF ForkEvent, Events
        <5>3. /\ Len(PreparedEvents) = Len(events) + 1
              /\ \A j \in 1 .. Len(events) : PreparedEvents[j] = events[j]
          BY <3>1, <5>1, <5>2, AppendProperties
        <5> QED
          BY <3>2, <5>3
      <4>2. CASE ~ForkDetected
        BY <3>2, <4>2 DEF PreparedEvents
      <4> QED
        BY <4>1, <4>2
    <3>4. events' # <<>>
      BY <1>5, <1>13
    <3> QED
      BY <1>13, <3>3, <3>4
  <2>3. \/ FirstHead <= lastAck
        \/ StoredNothing /\ events # <<>> /\ events[1].type = "fork"
    BY <2>1 DEF SysInv, ConsumerInv
  <2>4. StoredNothing => StoredNothing'
    BY <1>7 DEF StoredNothing
  <2> QED
    BY <1>7, <2>1, <2>2, <2>3, <2>4 DEF ConsumerInv, Secured
<1>16. ConsumerTypeOK'
  BY <1>7 DEF SysInv, ConsumerTypeOK
<1> QED
  BY <1>11, <1>12, <1>14, <1>15, <1>16 DEF SysInv

\* The database after a stored block: the block's revision on top, and no more
\* committed than the consumer has and has acknowledged (commit_db).
LEMMA StoreFacts ==
    ASSUME SafePipeline, SysInv, StoreBlock, NEW p, p = PreparedDb
    PROVE  /\ db'.committed \in Nat /\ db'.committed <= next /\ db'.revision = next
           /\ p.committed <= db'.committed
           /\ db'.committed = p.committed \/ db'.committed <= PreparedAck
           /\ \A m \in BlockNums : db'.committed < m /\ m <= next - 1 =>
                 p.committed < m /\ db'.at[m] = p.at[m]
           /\ db'.at[next].head_id = branch[next]
           /\ Secured(db')
<1>1. AcceptResult /\ IInv
  BY DEF StoreBlock, SysInv
<1>2. /\ next \in BlockNums /\ next \in Nat
      /\ p.committed \in Nat /\ p.revision = next - 1 /\ p.committed <= next - 1
      /\ Secured(p)
  BY <1>1, PreparedFacts
<1>3. /\ PreparedAck \in Nat /\ PreparedAck <= next - 1
      /\ PreparedAck <= lastAck \/ PreparedAck <= FirstHead
      /\ \A m \in BlockNums : p.committed < m /\ m <= next - 1 /\ m <= PreparedAck =>
            stored[m] = p.at[m].head_id
  BY <1>1, PreparedAckFacts
<1>4. PICK d : d = PushRevision(PreparedDb, SavedTables)
  OBVIOUS
<1>5. /\ IsDatabase(d, TableContents) /\ DbOk(d)
      /\ d.revision = next /\ d.at[next] = SavedTables
      /\ \A r \in d.committed .. d.revision : d.at[r].saved => OnChain(d.at[r])
  BY <1>1, <1>4, PushedOk
<1>6. /\ d.committed = p.committed
      /\ \A r \in p.committed .. next - 1 : d.at[r] = p.at[r]
  <2>1. IsDatabase(p, TableContents) /\ SavedTables \in TableContents
    BY <1>1, AcceptFacts, PreparedOk, SavedTablesOk
  <2> QED
    BY <1>2, <1>4, <2>1, PushDatabase
<1>7. /\ SavedTables.head_id = branch[next]
      /\ lib \in Nat
      /\ \A m \in BlockNums : m \in Nat
  BY <1>1, SavedTablesOk, AcceptNumbers, VersionFacts
<1>8. PICK n \in Nat : n = CommitRevision(lib, PreparedAck) /\ n <= PreparedAck
  BY <1>3, <1>7 DEF CommitRevision, SafePipeline
<1>9. db' = Commit(d, n)
  BY <1>4, <1>8 DEF StoreBlock
<1>10. /\ db'.revision = next
       /\ db'.committed \in p.committed .. next
       /\ db'.committed # p.committed => db'.committed <= n
       /\ \A r \in db'.committed .. next : db'.at[r] = d.at[r]
  BY <1>5, <1>6, <1>9, CommitDatabase
<1>11. db'.committed \in Nat /\ p.committed <= db'.committed /\ db'.committed <= next
  BY <1>2, <1>10
<1>12. Secured(d)
  <2>1. p.committed \in p.committed .. next - 1
    BY <1>2
  <2>2. d.at[d.committed] = p.at[p.committed]
    BY <1>6, <2>1
  <2> QED
    BY <1>2, <1>6, <2>2 DEF Secured
<1>13. ASSUME NEW m \in BlockNums, d.committed < m, m <= d.revision, m <= PreparedAck
       PROVE  stored[m] = d.at[m].head_id
  <2>1. /\ p.committed < m /\ m <= next - 1 /\ m \in p.committed .. next - 1
    BY <1>2, <1>3, <1>6, <1>7, <1>13
  <2> QED
    BY <1>3, <1>6, <1>13, <2>1
<1>14. Secured(db')
  BY <1>3, <1>5, <1>8, <1>9, <1>12, <1>13, CommitSecured
<1>15. db'.committed = p.committed \/ db'.committed <= PreparedAck
  BY <1>3, <1>8, <1>10, <1>11
<1>16. ASSUME NEW m \in BlockNums, db'.committed < m, m <= next - 1
       PROVE  p.committed < m /\ db'.at[m] = p.at[m]
  <2>1. PICK c \in Nat : c = db'.committed
    BY <1>11
  <2>2. m \in p.committed .. next - 1 /\ m \in c .. next /\ p.committed < m
    <3>1. PICK b \in Nat : b = p.committed
      BY <1>2
    <3>2. /\ m \in Nat /\ next \in Nat
          /\ b <= c /\ c < m /\ m <= next - 1
      BY <1>2, <1>7, <1>11, <1>16, <2>1, <3>1
    <3>3. m \in b .. next - 1 /\ m \in c .. next /\ b < m
      BY <3>2
    <3> QED
      BY <3>1, <3>3
  <2>3. db'.at[m] = d.at[m]
    BY <1>10, <2>1, <2>2, Zenon
  <2> QED
    BY <1>6, <2>2, <2>3
<1>17. db'.at[next].head_id = branch[next]
  <2>1. next \in db'.committed .. next
    BY <1>2, <1>11
  <2> QED
    BY <1>5, <1>7, <1>10, <2>1
<1> QED
  BY <1>10, <1>11, <1>14, <1>15, <1>16, <1>17

\* A block stored without its BLOCK_COMPLETED, or reverted because the handler
\* threw, closes the connection: the consumer ignores it (receive_result,
\* catch_and_close).
LEMMA PartialKeeps ==
    ASSUME SafePipeline, SysInv, ReceiveTracesFails \/ ReceiveBlockFails,
           UNCHANGED <<consumerVars, stops>>
    PROVE  SysInv'
<1>1. /\ AcceptResult /\ IInv' /\ pc' = "closed"
      /\ events' = Append(PreparedEvents, PartialEvent(next))
  BY ReceiveInvariant, ReceiveFailsInvariant
  DEF ReceiveTracesFails, ReceiveBlockFails, StoreBlock, SysInv
<1>2. PICK p : p = PreparedDb
  OBVIOUS
<1>3. /\ next \in BlockNums /\ next \in Nat
      /\ p.committed \in Nat /\ p.revision = next - 1 /\ p.committed <= next - 1
      /\ p.committed = db.committed \/ p.committed = FirstHead
      /\ Secured(p)
  BY <1>1, <1>2, PreparedFacts
<1>4. /\ Secured(db') /\ db'.committed \in Nat
      /\ db'.committed = p.committed \/ db'.committed <= PreparedAck
      /\ db'.revision = next \/ db'.revision = next - 1
  <2>1. CASE ReceiveTracesFails
    <3>1. StoreBlock
      BY <2>1 DEF ReceiveTracesFails
    <3> QED
      BY <1>2, <3>1, StoreFacts
  <2>2. CASE ReceiveBlockFails
    <3>1. db' = p
      BY <1>2, <2>2 DEF ReceiveBlockFails
    <3> QED
      BY <1>3, <3>1
  <2> QED
    BY <2>1, <2>2
<1>5. ~Live' /\ UNCHANGED stored
  BY <1>1 DEF Live, SessionOpen, consumerVars
<1>6. AcksInv'
  BY <1>5 DEF AcksInv
<1>7. PICK e : e = PartialEvent(next)
  OBVIOUS
<1>8. /\ e \in Events /\ e.type = "partial" /\ e.num = next /\ events' = Append(PreparedEvents, e)
  BY <1>1, <1>3, <1>7 DEF PartialEvent, Events
<1>9. StreamInv'
  <2>1. PICK s : /\ Stream(s, stored, PreparedEvents)
                 /\ Exactly(s[Len(PreparedEvents)], next - 1)
    BY <1>1, <1>2, PreparedStream
  <2>2. PreparedEvents \in Seq(Events)
    BY <1>1, PreparedOrder
  <2>3. PICK t : /\ Stream(t, stored, Append(PreparedEvents, e))
                 /\ t[Len(Append(PreparedEvents, e))] = s[Len(PreparedEvents)]
    BY <1>8, <2>1, <2>2, AppendPartial
  <2>4. Stream(t, stored', events') /\ t[Len(events')] = s[Len(PreparedEvents)]
    BY <1>5, <1>8, <2>3
  <2>5. \A m \in BlockNums : m > db'.revision => t[Len(events')][m] = NoBlock
    <3>1. \A m \in BlockNums : m > db'.revision => ~(m <= next - 1)
      BY <1>3, <1>4, VersionFacts
    <3> QED
      BY <2>1, <2>4, <3>1 DEF Exactly
  <2> QED
    BY <1>5, <2>4, <2>5 DEF StreamInv, MatchInv
<1>10. db'.committed \in {db.committed, FirstHead} \/ db'.committed <= PreparedAck
  BY <1>3, <1>4
<1> QED
  BY <1>1, <1>4, <1>6, <1>8, <1>9, <1>10, AcceptKeeps

\* A block that is received, stored and published (receive_result).
LEMMA ReceiveKeeps ==
    ASSUME SafePipeline, SysInv, ReceiveBlock, UNCHANGED <<consumerVars, stops>>
    PROVE  SysInv'
<1>1. /\ AcceptResult /\ StoreBlock /\ IInv' /\ WillAck
      /\ events' = Append(PreparedEvents, BlockEvent(next, branch[next], lib))
      /\ pc' \in {"reading", "paused", "closed"}
  BY ReceiveInvariant, ContinueReadStates
  DEF ReceiveBlock, StoreBlock, SafePipeline, SysInv
<1>2. PICK p : p = PreparedDb
  OBVIOUS
<1>3. /\ next \in BlockNums /\ next \in Nat /\ FirstHead < next
      /\ p.committed = db.committed \/ p.committed = FirstHead
      /\ \A m \in BlockNums : p.committed < m /\ m <= next - 1 =>
            db.committed < m /\ m <= db.revision /\ p.at[m] = db.at[m]
      /\ ForkDetected => final < next /\ next <= head
      /\ ~ForkDetected => next = head + 1
  BY <1>1, <1>2, PreparedFacts
<1>4. /\ db'.committed \in Nat /\ db'.committed <= next /\ db'.revision = next
      /\ db'.committed = p.committed \/ db'.committed <= PreparedAck
      /\ \A m \in BlockNums : db'.committed < m /\ m <= next - 1 =>
            p.committed < m /\ db'.at[m] = p.at[m]
      /\ db'.at[next].head_id = branch[next]
      /\ Secured(db')
  BY <1>1, <1>2, StoreFacts
<1>5. PICK e : e = BlockEvent(next, branch[next], lib)
  OBVIOUS
<1>6. /\ e \in Events /\ e.type = "block" /\ e.num = next /\ e.id = branch[next] /\ e.lib = lib
      /\ events' = Append(PreparedEvents, e)
  BY <1>1, <1>5, PreparedEventsType DEF BlockEvent, SysInv
<1>7. /\ PreparedEvents \in Seq(Events) /\ Len(PreparedEvents) \in Nat
      /\ \A i \in 1 .. Len(PreparedEvents) :
            PreparedEvents[i].type = "fork" => PreparedEvents[i].num <= next
  BY <1>1, PreparedOrder
<1>8. /\ Len(events') = Len(PreparedEvents) + 1
      /\ \A i \in 1 .. Len(PreparedEvents) : events'[i] = PreparedEvents[i]
      /\ events'[Len(PreparedEvents) + 1] = e
      /\ \A i \in 1 .. Len(events') :
            i \in 1 .. Len(PreparedEvents) \/ i = Len(PreparedEvents) + 1
  <2>1. /\ Len(events') = Len(PreparedEvents) + 1
        /\ \A i \in 1 .. Len(PreparedEvents) : events'[i] = PreparedEvents[i]
        /\ events'[Len(PreparedEvents) + 1] = e
    BY <1>6, <1>7, AppendProperties
  <2> QED
    BY <1>7, <2>1
<1>9. /\ UNCHANGED <<stored, knownLib, lastAck, acks, stops, branch, final>>
      /\ head' = next /\ exporter_acked_block' = PreparedAck
      /\ forked_at_block' = IF ForkDetected THEN next ELSE forked_at_block
      /\ forked_at_block' \in Nat
  BY <1>1, <1>3, AcceptFacts, SystemFacts DEF consumerVars, SysInv, AcceptResult
<1>10. StreamInv'
  <2>1. PICK s : /\ Stream(s, stored, PreparedEvents)
                 /\ Exactly(s[Len(PreparedEvents)], next - 1)
                 /\ \A m \in BlockNums : p.committed < m /\ m <= next - 1 =>
                       s[Len(PreparedEvents)][m] = p.at[m].head_id
    BY <1>1, <1>2, PreparedStream
  <2>2. PICK t : /\ Stream(t, stored, Append(PreparedEvents, e))
                 /\ Exactly(t[Len(Append(PreparedEvents, e))], next)
                 /\ t[Len(Append(PreparedEvents, e))][next] = branch[next]
                 /\ \A m \in BlockNums : m # next =>
                       t[Len(Append(PreparedEvents, e))][m] = s[Len(PreparedEvents)][m]
    BY <1>3, <1>6, <1>7, <2>1, AppendBlock
  <2>3. PICK z : z = t[Len(events')]
    OBVIOUS
  <2>4. /\ Stream(t, stored', events') /\ Exactly(z, next) /\ z[next] = branch[next]
        /\ \A m \in BlockNums : m # next => z[m] = s[Len(PreparedEvents)][m]
    BY <1>6, <1>9, <2>2, <2>3
  <2>5. \A m \in BlockNums : m > next => z[m] = NoBlock
    <3>1. \A m \in BlockNums : m > next => ~(m <= next)
      BY <1>3, VersionFacts
    <3> QED
      BY <2>4, <3>1 DEF Exactly
  <2>6. ASSUME NEW m \in BlockNums, db'.committed < m, m <= next
        PROVE  z[m] = db'.at[m].head_id
    <3>1. CASE m = next
      BY <1>4, <2>4, <3>1
    <3>2. CASE m # next
      <4>1. m <= next - 1
        BY <1>3, <2>6, <3>2, VersionFacts
      <4>2. p.committed < m /\ db'.at[m] = p.at[m]
        BY <1>4, <2>6, <4>1
      <4> QED
        BY <2>1, <2>4, <3>2, <4>1, <4>2
    <3> QED
      BY <3>1, <3>2
  <2>7. /\ \A m \in BlockNums : m > db'.revision => t[Len(events')][m] = NoBlock
        /\ \A m \in BlockNums : m > head' => t[Len(events')][m] = NoBlock
        /\ \A m \in BlockNums : db'.committed < m /\ m <= db'.revision =>
              t[Len(events')][m] = db'.at[m].head_id
    BY <1>4, <1>9, <2>3, <2>5, <2>6
  <2> QED
    BY <2>4, <2>7 DEF StreamInv, MatchInv
<1>11. AcksInv'
  <2> SUFFICES ASSUME Live' PROVE AcksInv'
    BY DEF AcksInv
  <2>1. pc \in {"reading", "quitting"}
    BY <1>1 DEF AcceptResult, CanRead
  <2>2. /\ forked_at_block = 0
        /\ \A i \in 1 .. Len(acks) : AckOk(acks[i]) /\ ~LooseAck(i)
        /\ \A i \in 1 .. Len(events) : ~LooseFork(i)
    BY <2>1, NoneAwaited
  <2>3. /\ head \in Nat /\ final \in Nat /\ \A i \in 1 .. Len(acks) : acks[i] \in Nat
        /\ events \in Seq(Events) /\ Len(events) \in Nat /\ FirstHead \in Nat /\ lastAck \in Nat
        /\ \A i \in 1 .. Len(events) : events[i].num \in Nat
    BY SystemFacts
  <2>4. PICK a \in Nat : a = PreparedAck
    BY <1>1, AcceptFacts DEF SysInv
  <2>5. /\ a <= next - 1 /\ (a <= lastAck \/ a <= FirstHead)
        /\ \A i \in 1 .. Len(PreparedEvents) :
              Announces(PreparedEvents[i]) => a < PreparedEvents[i].num
        /\ \A m \in BlockNums : p.committed < m /\ m <= next - 1 /\ m <= a =>
              stored[m] = p.at[m].head_id
    BY <1>1, <1>2, <2>4, PreparedAckFacts
  <2>6. ASSUME NEW k \in Nat, k <= next - 1, k <= lastAck \/ k <= FirstHead,
               \A i \in 1 .. Len(PreparedEvents) :
                  Announces(PreparedEvents[i]) => k < PreparedEvents[i].num,
               \A m \in BlockNums : p.committed < m /\ m <= next - 1 /\ m <= k =>
                  stored[m] = p.at[m].head_id
        PROVE  AckOk(k)'
    <3>1. k <= head' /\ (k <= lastAck' \/ k <= FirstHead)
      BY <1>3, <1>9, <2>6
    <3>2. \A i \in 1 .. Len(events') : Announces(events'[i]) => k < events'[i].num
      BY <1>3, <1>6, <1>8, <2>6
    <3>3. ASSUME NEW m \in BlockNums, db'.committed < m, m <= k
          PROVE  stored'[m] = db'.at[m].head_id
      <4>1. m <= next - 1
        BY <1>3, <2>6, <3>3, VersionFacts
      <4>2. p.committed < m /\ db'.at[m] = p.at[m]
        BY <1>4, <3>3, <4>1
      <4> QED
        BY <1>9, <2>6, <3>3, <4>1, <4>2
    <3> QED
      BY <3>1, <3>2, <3>3 DEF AckOk
  <2>7. AckOk(exporter_acked_block)'
    <3>1. AckOk(a)'
      BY <2>5, <2>6
    <3> QED
      BY <1>9, <2>4, <3>1 DEF AckOk
  <2>8. ASSUME NEW i \in 1 .. Len(acks) PROVE AckOk(acks[i])'
    <3>1. PICK k \in Nat : k = acks[i]
      BY <2>3
    <3>2. AckOk(k) /\ k <= final
      BY <2>2, <2>3, <3>1 DEF LooseAck
    <3>3. k <= head /\ (k <= lastAck \/ k <= FirstHead)
      BY <3>2 DEF AckOk
    <3>4. k <= next - 1
      BY <1>3, <2>3, <3>2, <3>3
    <3>5. ASSUME NEW j \in 1 .. Len(PreparedEvents), Announces(PreparedEvents[j])
          PROVE  k < PreparedEvents[j].num
      <4>1. \A l \in 1 .. Len(events) : Announces(events[l]) => k < events[l].num
        BY <3>2 DEF AckOk
      <4>2. CASE ForkDetected
        <5>1. PICK f : f = ForkEvent(next, "network") /\ PreparedEvents = Append(events, f)
          BY <4>2 DEF PreparedEvents
        <5>2. f \in Events /\ f.num = next
          BY <1>3, <5>1 DEF ForkEvent, Events
        <5>3. /\ Len(PreparedEvents) = Len(events) + 1
              /\ \A l \in 1 .. Len(events) : PreparedEvents[l] = events[l]
              /\ PreparedEvents[Len(events) + 1] = f
          BY <2>3, <5>1, <5>2, AppendProperties
        <5>4. j \in 1 .. Len(events) \/ j = Len(events) + 1
          BY <2>3, <5>3
        <5>5. CASE j \in 1 .. Len(events)
          BY <3>5, <4>1, <5>3, <5>5
        <5>6. CASE j = Len(events) + 1
          BY <1>3, <3>4, <5>2, <5>3, <5>6
        <5> QED
          BY <5>4, <5>5, <5>6
      <4>3. CASE ~ForkDetected
        BY <3>5, <4>1, <4>3 DEF PreparedEvents
      <4> QED
        BY <4>2, <4>3
    <3>6. \A m \in BlockNums : p.committed < m /\ m <= next - 1 /\ m <= k =>
             stored[m] = p.at[m].head_id
      BY <1>3, <3>2 DEF AckOk
    <3>7. AckOk(k)'
      BY <2>6, <3>3, <3>4, <3>5, <3>6
    <3> QED
      BY <1>9, <3>1, <3>7 DEF AckOk
  <2>9. LooseInv'
    <3>1. \A i \in 1 .. Len(acks) : ~LooseAck(i)'
      BY <1>9, <2>2 DEF LooseAck
    <3>2. ASSUME NEW i \in 1 .. Len(events'), LooseFork(i)'
          PROVE  ForkDetected /\ i = Len(events) + 1 /\ events'[i].num = next
      <4>1. i \in 1 .. Len(PreparedEvents) /\ events'[i] = PreparedEvents[i]
        BY <1>6, <1>8, <3>2 DEF LooseFork
      <4>2. CASE ForkDetected
        <5>1. PICK f : f = ForkEvent(next, "network") /\ PreparedEvents = Append(events, f)
          BY <4>2 DEF PreparedEvents
        <5>2. f \in Events /\ f.num = next
          BY <1>3, <5>1 DEF ForkEvent, Events
        <5>3. /\ Len(PreparedEvents) = Len(events) + 1
              /\ \A l \in 1 .. Len(events) : PreparedEvents[l] = events[l]
              /\ PreparedEvents[Len(events) + 1] = f
          BY <2>3, <5>1, <5>2, AppendProperties
        <5>4. i \in 1 .. Len(events) \/ i = Len(events) + 1
          BY <2>3, <4>1, <5>3
        <5>5. ~(i \in 1 .. Len(events))
          BY <1>9, <2>2, <3>2, <4>1, <5>3 DEF LooseFork
        <5> QED
          BY <4>1, <4>2, <5>2, <5>3, <5>4, <5>5
      <4>3. CASE ~ForkDetected
        <5>1. PreparedEvents = events
          BY <4>3 DEF PreparedEvents
        <5> QED
          BY <1>9, <2>2, <3>2, <4>1, <5>1 DEF LooseFork
      <4> QED
        BY <4>2, <4>3
    <3>3. \A i \in 1 .. Len(events') : LooseFork(i)' =>
             /\ events'[i].num = forked_at_block'
             /\ \A j \in 1 .. Len(events') : LooseFork(j)' => i = j
      BY <1>9, <3>2
    <3> QED
      BY <1>9, <3>1, <3>3 DEF LooseInv
  <2>10. pc' \in {"reading", "quitting"} => forked_at_block' = 0
    <3>1. pc' = "reading" => "reading" \in ContinueRead(next, lib, forked_at_block', PreparedAck)
      BY <1>1 DEF ReceiveBlock
    <3>2. PICK f \in Nat : f = forked_at_block'
      BY <1>9
    <3>3. pc' = "reading" => f = 0
      BY <1>1, <3>1, <3>2, ReadsUnforked
    <3> QED
      BY <1>1, <3>2, <3>3
  <2>11. \A i \in 1 .. Len(events') : events'[i].type = "fork" => events'[i].num <= head' + 1
    <3>1. ASSUME NEW i \in 1 .. Len(events'), events'[i].type = "fork"
          PROVE  events'[i].num <= next
      BY <1>6, <1>7, <1>8, <3>1
    <3>2. \A i \in 1 .. Len(PreparedEvents) : PreparedEvents[i].num \in Nat
      BY <1>7, EventFacts
    <3> QED
      BY <1>3, <1>6, <1>8, <1>9, <3>1, <3>2
  <2>12. \A i \in 1 .. Len(acks') : AckOk(acks[i])' \/ AckIgnored(i)'
    BY <1>9, <2>8
  <2> QED
    BY <2>7, <2>9, <2>10, <2>11, <2>12 DEF AcksInv
<1>12. db'.committed \in {db.committed, FirstHead} \/ db'.committed <= PreparedAck
  BY <1>3, <1>4
<1>13. pc' # "down"
  BY <1>1
<1> QED
  BY <1>1, <1>4, <1>6, <1>10, <1>11, <1>12, <1>13, AcceptKeeps

-------------------------------------------------------------------------------

\* Every step of the pipeline preserves the invariant.
LEMMA SystemStepInvariant ==
    ASSUME SafePipeline, SysInv, [SystemNext]_systemVars PROVE SysInv'
<1>1. CASE UNCHANGED systemVars
  BY <1>1, NothingQuiet
<1>2. CASE SystemChainStep
  BY <1>2, ChainQuiet
<1>3. CASE SystemReceiverStep
  <2>1. UNCHANGED <<consumerVars, stops>> /\ ~LosesForks
    BY <1>3 DEF SystemReceiverStep, SafePipeline
  <2>2. CASE \E end \in EndBlocks : Start(end)
    BY <2>1, <2>2, StartKeeps
  <2>3. CASE \E given \in {0, StartBlock}, end \in EndBlocks :
                (LosesForks \/ ~HasUndoSession(db)) /\ StartRefused(given, end)
    BY <2>1, <2>3, RefusedQuiet
  <2>4. CASE RequestBlocks \/ Abort \/ (PauseTimer /\ pc' # "closed")
    BY <2>1, <2>4, MemoryQuiet
  <2>5. CASE PauseTimer /\ pc' = "closed"
    BY <2>1, <2>5, EndReachedKeeps
  <2>6. CASE ReceiveBlock
    BY <2>1, <2>6, ReceiveKeeps
  <2>7. CASE RejectResult
    BY <2>1, <2>7, RejectKeeps
  <2>8. CASE ReceiveBlockFails \/ ReceiveTracesFails
    BY <2>1, <2>8, PartialKeeps
  <2> QED
    BY <1>3, <2>2, <2>3, <2>4, <2>5, <2>6, <2>7, <2>8 DEF SystemReceiverStep
<1>4. CASE ProcessEnds
  BY <1>4, ProcessEndsKeeps
<1>5. CASE ConsumerStep
  <2>1. CASE Deliver
    BY <2>1, DeliverKeeps
  <2>2. ASSUME NEW n \in BlockNums, SendAck(n) PROVE SysInv'
    BY <2>2, SendAckKeeps
  <2>3. CASE ReceiveAck
    BY <2>3, ReceiveAckKeeps
  <2> QED
    BY <1>5, <2>1, <2>2, <2>3 DEF ConsumerStep
<1> QED
  BY <1>1, <1>2, <1>3, <1>4, <1>5 DEF SystemNext

\* The invariant of the pipeline holds in every run: the queue between receiver
\* and consumer, the acknowledgements on their way back and the undo stack fit
\* together (receive_result, ack_block, commit_db, load_state).
THEOREM PipelineInvariance ==
    ASSUME SafePipeline PROVE SystemSpec => []SysInv
<1>1. SystemInit => SysInv
  BY SystemInitInvariant
<1>2. SysInv /\ [SystemNext]_systemVars => SysInv'
  BY SystemStepInvariant
<1> QED
  BY <1>1, <1>2, PTL DEF SystemSpec

\* Every variable keeps its type, the database and the queue among them
\* (receiver_plugin_impl's members).
THEOREM SystemTypeCorrect ==
    ASSUME SafePipeline PROVE SystemSpec => []SystemTypeOK
<1>1. SysInv => SystemTypeOK
  BY DEF SysInv, IInv, SystemTypeOK
<1> QED
  BY <1>1, PipelineInvariance, PTL

\* No block is lost: what commit_db has made final for the receiver, so that no
\* restart sends it again, is stored by the consumer, as the chain has it.
THEOREM NothingLost ==
    ASSUME SafePipeline PROVE SystemSpec => []NoLostBlocks
<1>1. ASSUME SysInv PROVE NoLostBlocks
  <2> SUFFICES ASSUME db.at[db.committed].saved, NEW n \in BlockNums,
                      StartBlock <= n, n <= db.committed
               PROVE  stored[n] = branch[n]
    BY DEF NoLostBlocks
  <2>1. FirstHead < n
    <3>1. n \in Nat /\ 1 <= n
      BY VersionFacts
    <3>2. StartBlock \in Nat
      BY ChainAssumption, ReceiverAssumption
    <3>3. FirstHead = IF StartBlock > 0 THEN StartBlock - 1 ELSE 0
      BY DEF FirstHead, ResumeHead, EmptyTables
    <3> QED
      BY <3>1, <3>2, <3>3
  <2> QED
    BY <1>1, <2>1 DEF SysInv, ConsumerInv
<1> QED
  BY <1>1, PipelineInvariance, PTL

-------------------------------------------------------------------------------
(* The pipeline implements BlockExport.                                       *)

\* The committed revision of a database with a state never goes down
\* (chainbase's commit, receive_result).
LEMMA CommittedGrows ==
    ASSUME SafePipeline, SysInv, SystemNext, db.at[db.committed].saved
    PROVE  db'.committed \in Nat /\ db.committed <= db'.committed
<1>1. /\ db.committed \in Nat /\ db.revision \in Nat /\ db.committed <= db.revision
      /\ IsDatabase(db, TableContents) /\ IInv
      /\ irreversible \in Nat /\ exporter_acked_block \in Nat
  BY InvariantFacts DEF SysInv
<1>2. CASE UNCHANGED db
  BY <1>1, <1>2
<1>3. CASE db' = UndoAll(db)
  BY <1>1, <1>3, UndoAllDatabase
<1>4. CASE PauseTimer /\ ~UNCHANGED db
  <2>1. db' = Commit(db, CommitRevision(irreversible, exporter_acked_block))
    BY <1>4 DEF PauseTimer
  <2>2. PICK n \in Nat : n = CommitRevision(irreversible, exporter_acked_block)
    BY <1>1, CommitRevisionFinal
  <2>3. db.committed <= Commit(db, n).committed /\ Commit(db, n).committed \in db.committed .. db.revision
    BY <1>1, CommitDatabase
  <2> QED
    BY <1>1, <2>1, <2>2, <2>3
<1>5. CASE RejectResult /\ ~UNCHANGED db
  <2>1. RevisionBehind /\ ~SetRevisionThrows(db)
    BY <1>5 DEF RejectResult, AlignedDb
  <2>2. SessionOpen
    BY <1>5 DEF RejectResult, CanRead, SessionOpen
  <2>3. ~Tables(db).saved
    BY <1>1, <2>1, <2>2, AlignedOk
  <2>4. db.committed = db.revision
    BY <1>1, <2>1 DEF SetRevisionThrows, HasUndoSession
  <2> QED
    BY <2>3, <2>4 DEF Tables
<1>6. PICK p : p = PreparedDb
  OBVIOUS
<1>7. CASE ReceiveBlock \/ ReceiveTracesFails
  <2>1. StoreBlock
    BY <1>7 DEF ReceiveBlock, ReceiveTracesFails
  <2>2. p.committed = db.committed
    BY <1>6, <2>1, PreparedFacts DEF StoreBlock
  <2> QED
    BY <1>6, <2>1, <2>2, StoreFacts
<1>8. CASE ReceiveBlockFails
  <2>1. p.committed = db.committed
    BY <1>6, <1>8, PreparedFacts DEF ReceiveBlockFails
  <2> QED
    BY <1>1, <1>6, <1>8, <2>1 DEF ReceiveBlockFails
<1>9. SystemChainStep \/ ProcessEnds \/ ConsumerStep => UNCHANGED db
  BY DEF SystemChainStep, ChainStep, receiverVars, ProcessEnds, Stop, ConsumerStep, Deliver,
         TakeEvent, SendAck, vars, ReceiveAck, ack_block
<1>10. CASE SystemReceiverStep
  BY <1>2, <1>3, <1>4, <1>5, <1>7, <1>8, <1>10
  DEF SystemReceiverStep, Start, StartRefused, RequestBlocks, Abort
<1> QED
  BY <1>2, <1>9, <1>10 DEF SystemNext

\* What has become durable, in BlockExport's terms.
Durable == IF db.at[db.committed].saved THEN db.committed ELSE 0

\* Only the delivery of an event changes what the consumer has stored.
LEMMA StoredUnmoved ==
    ASSUME SystemNext, ~Deliver PROVE UNCHANGED stored
BY DEF SystemNext, SystemChainStep, SystemReceiverStep, ProcessEnds, ConsumerStep, SendAck,
       ReceiveAck, consumerVars

\* A step without a delivery moves what is durable up to a block the consumer
\* has, or not at all (commit_db).
LEMMA DurableStep ==
    ASSUME SafePipeline, SysInv, SysInv', SystemNext, UNCHANGED stored, Durable' # Durable
    PROVE  \E n \in BlockNums : n >= Durable /\ stored[n] # NoBlock /\ Durable' = n
<1>1. /\ db.committed \in Nat /\ FirstHead \in Nat /\ MaxBlock \in Nat
  BY SystemFacts
<1>2. /\ db.at[db.committed].saved => FirstHead < db.committed
      /\ db'.at[db'.committed].saved =>
            /\ FirstHead < db'.committed
            /\ \A m \in BlockNums :
                  FirstHead < m /\ m <= db'.committed => stored'[m] = branch'[m]
  BY DEF SysInv, ConsumerInv
<1>3. ~db'.at[db'.committed].saved => db'.committed <= FirstHead
  BY DEF SysInv, IInv, DbOk
<1>4. /\ db'.committed \in Nat /\ db'.committed <= MaxBlock
      /\ \A m \in BlockNums : branch'[m] \in Versions
  <2>1. /\ db'.committed \in Nat /\ db'.revision \in Nat /\ db'.committed <= db'.revision
        /\ db'.revision <= MaxBlock
    BY DEF SysInv, IInv, TypeOK, DbOk, IsDatabase
  <2>2. branch' \in [BlockNums -> Versions]
    BY DEF SysInv, IInv, TypeOK, ChainTypeOK
  <2> QED
    BY <1>1, <2>1, <2>2
<1>5. PICK c \in Nat : c = db'.committed
  BY <1>4
<1>6. db.at[db.committed].saved => db.committed <= c
  BY <1>5, CommittedGrows
<1>7. db'.at[c].saved
  BY <1>1, <1>2, <1>3, <1>5, <1>6 DEF Durable
<1>8. c \in BlockNums
  BY <1>1, <1>2, <1>4, <1>5, <1>7 DEF BlockNums
<1>9. stored[c] = branch'[c]
  BY <1>1, <1>2, <1>5, <1>7, <1>8
<1>10. Durable' = c /\ c >= Durable
  BY <1>1, <1>5, <1>6, <1>7 DEF Durable
<1> QED
  BY <1>4, <1>8, <1>9, <1>10, VersionFacts

\* The consumer sees what BlockExport allows: blocks one above the other, cuts
\* where a FORK says, nothing removed that will not be sent again
\* (receive_result, ack_block, commit_db, load_state).
THEOREM ExportImplemented ==
    ASSUME SafePipeline PROVE SystemSpec => ExportSpec
<1>1. SystemInit => Export!Init
  <2> SUFFICES ASSUME SystemInit PROVE Export!Init
    OBVIOUS
  <2>1. ~db.at[db.committed].saved
    BY DEF SystemInit, Init, NewDatabase, EmptyTables
  <2> QED
    BY <2>1 DEF SystemInit, Export!Init
<1>2. ASSUME SysInv, SysInv', [SystemNext]_systemVars PROVE [Export!Next]_(Export!exportVars)
  <2>1. CASE UNCHANGED systemVars
    BY <2>1 DEF systemVars, vars, receiverVars, consumerVars, Export!exportVars
  <2>2. CASE SystemNext /\ ~Deliver
    <3>1. UNCHANGED stored
      BY <2>2, StoredUnmoved
    <3>2. CASE Durable' = Durable
      BY <3>1, <3>2 DEF Export!exportVars, Durable
    <3>3. CASE Durable' # Durable
      <4>1. PICK n \in BlockNums : n >= Durable /\ stored[n] # NoBlock /\ Durable' = n
        BY <1>2, <2>2, <3>1, <3>3, DurableStep
      <4>2. Export!MakeDurable(n)
        BY <3>1, <4>1 DEF Export!MakeDurable, Durable
      <4> QED
        BY <4>2 DEF Export!Next
    <3> QED
      BY <3>2, <3>3
  <2>3. CASE Deliver
    <3>1. /\ events # <<>> /\ UNCHANGED db /\ stored' = ApplyEvent(Head(events), stored)
      BY <2>3 DEF Deliver, TakeEvent
    <3>2. events \in Seq(Events) /\ FirstHead \in Nat /\ db.committed \in Nat
      BY <1>2, SystemFacts
    <3>3. PICK s : Stream(s, stored, events)
      BY <1>2 DEF SysInv, StreamInv
    <3>4. PICK e \in Events : e = Head(events) /\ e = events[1] /\ 1 \in 1 .. Len(events)
      BY <3>1, <3>2
    <3>5. stored \in Contents /\ Fits(stored, e)
      BY <3>1, <3>2, <3>3, <3>4, StreamTail
    <3>6. UNCHANGED Durable
      BY <3>1 DEF Durable
    <3>7. CASE e.type = "partial"
      <4>1. stored' = stored
        BY <3>1, <3>4, <3>5, <3>7, AppliedEvent
      <4> QED
        BY <3>6, <4>1 DEF Export!exportVars, Durable
    <3>8. CASE e.type = "block"
      <4>1. e.num \in BlockNums /\ e.id \in Versions
        BY <3>8, EventFacts
      <4>2. stored' = [stored EXCEPT ![e.num] = e.id]
        BY <3>1, <3>4, <3>8 DEF ApplyEvent
      <4>3. Exactly(stored, e.num - 1)
        BY <3>5, <3>8 DEF Fits
      <4>4. e.num \in Nat /\ \A m \in BlockNums : m \in Nat
        BY <4>1, VersionFacts
      <4>5. \A m \in BlockNums : m > e.num - 1 => stored[m] = NoBlock
        BY <4>3, <4>4 DEF Exactly
      <4>6. ASSUME e.num - 1 \in BlockNums, stored[e.num - 1] = NoBlock
            PROVE  \A m \in BlockNums : stored[m] = NoBlock
        <5>1. ~(FirstHead < e.num - 1)
          BY <4>3, <4>4, <4>6 DEF Exactly
        <5> QED
          BY <3>2, <4>3, <4>4, <5>1 DEF Exactly
      <4>7. Export!IsTop(e.num - 1) \/ \A m \in BlockNums : stored[m] = NoBlock
        BY <4>5, <4>6 DEF Export!IsTop
      <4>8. Export!AddBlock(e.num, e.id)
        BY <3>6, <4>2, <4>7 DEF Export!AddBlock, Durable
      <4> QED
        BY <4>1, <4>8 DEF Export!Next
    <3>9. CASE e.type = "fork"
      <4>1. stored' = [n \in BlockNums |-> IF n >= e.num THEN NoBlock ELSE stored[n]]
        BY <3>1, <3>4, <3>9 DEF ApplyEvent
      <4>2. e.num > db.committed /\ e.num > FirstHead
        BY <1>2, <3>4, <3>9 DEF SysInv, OrderInv, Announces
      <4>3. e.num \in Nat /\ \A m \in BlockNums : m \in Nat
        BY EventFacts, VersionFacts
      <4>4. CASE e.num \in BlockNums
        <5>1. e.num > Durable
          BY <3>2, <4>2, <4>3 DEF Durable
        <5>2. Export!RollBack(e.num)
          BY <3>6, <4>1, <5>1 DEF Export!RollBack, Durable
        <5> QED
          BY <4>4, <5>2 DEF Export!Next
      <4>5. CASE e.num \notin BlockNums
        <5>1. \A n \in BlockNums : ~(n >= e.num)
          BY <3>2, <4>2, <4>3, <4>5, VersionFacts DEF BlockNums
        <5>2. stored' = stored
          BY <3>5, <4>1, <5>1 DEF Contents
        <5> QED
          BY <3>6, <5>2 DEF Export!exportVars, Durable
      <4> QED
        BY <4>4, <4>5
    <3> QED
      BY <3>7, <3>8, <3>9, EventFacts
  <2> QED
    BY <1>2, <2>1, <2>2, <2>3
<1> QED
  BY <1>1, <1>2, PipelineInvariance, PTL DEF SystemSpec, ExportSpec, Export!Spec

-------------------------------------------------------------------------------

\* There is one way to apply the events on their way in their order.
LEMMA TraceIsSeen ==
    ASSUME events \in Seq(Events), NEW s, IsTrace(s, stored, events)
    PROVE  Seen = s[Len(events)]
<1> DEFINE Body(g) == [k \in 0 .. Len(events) |->
                          IF k = 0 THEN stored ELSE ApplyEvent(events[k], g[k - 1])]
           after == CHOOSE g : g = Body(g)
<1>1. PICK n \in Nat : n = Len(events)
  OBVIOUS
<1>2. /\ s \in [0 .. n -> Contents] /\ s[0] = stored
      /\ \A k \in 1 .. n : s[k] = ApplyEvent(events[k], s[k - 1])
  BY <1>1 DEF IsTrace
<1>3. s = Body(s)
  <2>1. ASSUME NEW k \in 0 .. n PROVE s[k] = Body(s)[k]
    <3>1. CASE k = 0
      BY <1>1, <1>2, <3>1
    <3>2. CASE k # 0
      <4>1. k \in 1 .. n
        BY <3>2
      <4> QED
        BY <1>1, <1>2, <3>2, <4>1
    <3> QED
      BY <3>1, <3>2
  <2> QED
    BY <1>1, <1>2, <2>1
<1>4. after = Body(after)
  BY <1>3
<1>5. Seen = after[Len(events)]
  BY DEF Seen
<1> HIDE DEF after
<1>6. /\ after[0] = stored
      /\ \A k \in 1 .. n : after[k] = ApplyEvent(events[k], after[k - 1])
  <2>1. after[0] = stored
    BY <1>1, <1>4
  <2>2. ASSUME NEW k \in 1 .. n PROVE after[k] = ApplyEvent(events[k], after[k - 1])
    <3>1. k \in 0 .. n /\ k # 0
      BY <1>1
    <3> QED
      BY <1>1, <1>4, <3>1
  <2> QED
    BY <2>1, <2>2
<1> DEFINE T == {k \in 0 .. n : after[k] # s[k]}
<1>7. T = {}
  <2>1. SUFFICES ASSUME T # {} PROVE FALSE
    OBVIOUS
  <2>2. T \in SUBSET Nat
    BY <1>1
  <2>3. PICK x \in T : \A y \in T : x <= y
    <3> HIDE DEF T
    <3> QED
      BY <2>1, <2>2, SmallestOf
  <2>4. x \in 0 .. n /\ after[x] # s[x]
    OBVIOUS
  <2>5. x \in 1 .. n /\ x - 1 \in 0 .. n
    BY <1>2, <1>6, <2>4
  <2>6. x - 1 \notin T
    BY <2>3, <2>5
  <2>7. after[x - 1] = s[x - 1]
    BY <2>5, <2>6
  <2> QED
    BY <1>2, <1>6, <2>4, <2>5, <2>7
<1>8. n \in 0 .. n
  BY <1>1
<1> QED
  BY <1>1, <1>5, <1>7, <1>8

\* The queue mirrors the database: the consumer's blocks with the events on
\* their way are the receiver's branch, whatever forks, restarts and failures
\* came before (receive_result, load_state).
THEOREM StreamMatches ==
    ASSUME SafePipeline PROVE SystemSpec => []StreamMatchesDb
<1>1. ASSUME SysInv PROVE StreamMatchesDb
  <2> SUFFICES ASSUME SessionOpen, Tables(db).saved, NEW n \in BlockNums
               PROVE  /\ n > head => Seen[n] = NoBlock
                      /\ n \in db.committed .. head /\ db.at[n].saved =>
                            Seen[n] = db.at[n].head_id
    BY DEF StreamMatchesDb
  <2>1. PICK s : Stream(s, stored, events) /\ MatchInv(s[Len(events)])
    BY <1>1 DEF SysInv, StreamInv
  <2>2. Seen = s[Len(events)]
    <3>1. IsTrace(s, stored, events)
      BY <2>1 DEF Stream
    <3> QED
      BY <1>1, <3>1, SystemFacts, TraceIsSeen
  <2>3. PICK z : z = s[Len(events)] /\ z = Seen
    BY <2>2
  <2>4. /\ \A m \in BlockNums : m > head => z[m] = NoBlock
        /\ \A m \in BlockNums : db.committed < m /\ m <= db.revision => z[m] = db.at[m].head_id
    BY <2>1, <2>3 DEF MatchInv, Live
  <2>5. db.committed \in Nat /\ head \in Nat /\ n \in Nat /\ FirstHead \in Nat
    BY <1>1, SystemFacts, VersionFacts
  <2>6. head = db.revision
    BY <1>1 DEF SysInv, IInv, MemoryInv
  <2>7. ASSUME n = db.committed, db.at[n].saved PROVE z[n] = db.at[n].head_id
    <3>1. FirstHead < n /\ stored[n] = branch[n]
      BY <1>1, <2>5, <2>7 DEF SysInv, ConsumerInv
    <3>2. branch[n] # NoBlock
      <4>1. branch[n] \in Versions
        BY <1>1 DEF SysInv, IInv, TypeOK, ChainTypeOK
      <4> QED
        BY <4>1, VersionFacts
    <3>3. ~Cut(events, 0, Len(events), n)
      BY <1>1, <2>5, <2>7, NothingCommittedCut
    <3>4. z[n] = stored[n]
      <4>1. stored[n] # NoBlock => z[n] = stored[n] \/ Cut(events, 0, Len(events), n)
        <5>1. events \in Seq(Events) /\ Stream(s, stored, events)
          BY <1>1, <2>1, SystemFacts
        <5>2. \A m \in BlockNums : stored[m] # NoBlock =>
                 s[Len(events)][m] = stored[m] \/ Cut(events, 0, Len(events), m)
          BY <5>1, EndFacts
        <5> QED
          BY <2>3, <5>2
      <4> QED
        BY <3>1, <3>2, <3>3, <4>1
    <3>5. db.at[n].head_id = branch[n]
      <4>1. OnChain(db.at[db.committed]) /\ db.at[db.committed].head = db.committed
        BY <1>1, <2>7, RevisionFacts DEF SysInv, IInv, DbOk
      <4> QED
        BY <2>7, <4>1 DEF OnChain
    <3> QED
      BY <3>1, <3>4, <3>5
  <2>8. n \in db.committed .. head /\ n # db.committed => db.committed < n /\ n <= db.revision
    BY <2>5, <2>6
  <2> QED
    BY <2>3, <2>4, <2>7, <2>8
<1> QED
  BY <1>1, PipelineInvariance, PTL
===============================================================================
