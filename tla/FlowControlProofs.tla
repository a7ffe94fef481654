--------------------------- MODULE FlowControlProofs ---------------------------
(***************************************************************************)
(* The window of unacknowledged blocks, for every size of the window, of   *)
(* the queues and of the chain.                                            *)
(*                                                                         *)
(* WindowHolds is not inductive.  That the exporter holds no more blocks   *)
(* than the window allows needs that the receiver reads only while the     *)
(* window is open, and that what has been acknowledged has left the queue: *)
(* a block is in the queue, being written, or stored by the consumer, in   *)
(* ascending order, and acknowledgements never pass what is stored.        *)
(***************************************************************************)
EXTENDS FlowControl, FiniteSetTheorems, TLAPS

\* The window: one more block may come while the receiver reads.
ReadInv ==
    /\ head - exporter_acked_block <= exporter_max_unconfirmed
    /\ reading => head - exporter_acked_block < exporter_max_unconfirmed
    /\ ~reading => head > 0

\* The exporter's blocks ascend, from the consumer's last one to the head.
QueueInv ==
    /\ last_block <= head
    /\ async_msg > 0 => last_block < async_msg /\ async_msg <= head
    /\ \A i \in DOMAIN async_queue : async_queue[i] > 0 =>
          /\ last_block < async_queue[i] /\ async_msg < async_queue[i]
          /\ async_queue[i] <= head
    /\ \A i, j \in DOMAIN async_queue :
          i < j /\ async_queue[i] > 0 /\ async_queue[j] > 0 => async_queue[i] < async_queue[j]

\* A block comes before the first pause, so there is one to acknowledge.
PauseInv ==
    /\ head > 0 => \/ last_block > 0 \/ async_msg > 0
                   \/ \E j \in DOMAIN async_queue : async_queue[j] > 0
    /\ async_msg = PauseMessage => last_block > 0
    /\ \A i \in DOMAIN async_queue : async_queue[i] = PauseMessage =>
          \/ last_block > 0 \/ async_msg > 0
          \/ \E j \in 1 .. i - 1 : async_queue[j] > 0

\* Acknowledgements ascend, and never pass what the consumer has stored.
AckInv ==
    /\ exporter_acked_block = 0 \/ exporter_acked_block + ack_lag <= last_block
    /\ \A i \in DOMAIN acks : exporter_acked_block <= acks[i] /\ acks[i] + ack_lag <= last_block
    /\ \A i, j \in DOMAIN acks : i < j => acks[i] <= acks[j]

FlowInv == FlowTypeOK /\ ReadInv /\ QueueInv /\ PauseInv /\ AckInv

LEMMA WindowIsPositive ==
    ASSUME FlowTypeOK
    PROVE  exporter_max_unconfirmed \in Nat \ {0}
  BY FlowAssumption DEF FlowTypeOK

-------------------------------------------------------------------------------
(* Sequences.                                                                *)

LEMMA TailElements ==
    ASSUME NEW S, NEW s \in Seq(S), s # <<>>
    PROVE  /\ Head(s) = s[1] /\ Head(s) \in S /\ Tail(s) \in Seq(S)
           /\ Len(s) > 0 /\ DOMAIN s = 1 .. Len(s)
           /\ DOMAIN Tail(s) = 1 .. Len(s) - 1
           /\ \A i \in DOMAIN Tail(s) : i + 1 \in DOMAIN s /\ Tail(s)[i] = s[i + 1]
  OBVIOUS

LEMMA MessagesAreIntegers ==
    ASSUME NEW s \in Seq(Messages)
    PROVE  \A i \in DOMAIN s : s[i] \in Int
  BY DEF Messages, OtherMessage, PauseMessage

LEMMA ConcatElements ==
    ASSUME NEW S, NEW s \in Seq(S), NEW t \in Seq(S)
    PROVE  /\ s \o t \in Seq(S) /\ Len(s \o t) = Len(s) + Len(t)
           /\ DOMAIN s = 1 .. Len(s) /\ DOMAIN t = 1 .. Len(t)
           /\ DOMAIN (s \o t) = 1 .. Len(s) + Len(t)
           /\ \A i \in DOMAIN s : (s \o t)[i] = s[i]
           /\ \A i \in DOMAIN t : (s \o t)[Len(s) + i] = t[i]
           /\ \A i \in DOMAIN (s \o t) : i \in DOMAIN s \/ i - Len(s) \in DOMAIN t
  OBVIOUS

-------------------------------------------------------------------------------
(* The two ways in which the queue changes.                                  *)

\* The exporter takes a message when the one before has reached the consumer.
LEMMA TakeMessage ==
    ASSUME FlowInv, SendEvents, head' = head,
           last_block' = IF async_msg > 0 THEN async_msg ELSE last_block
    PROVE  /\ async_queue' \in Seq(Messages) /\ async_msg' \in Messages \cup {NoMessage}
           /\ slowdown_requested' \in BOOLEAN /\ taken' \in 0 .. 2
           /\ QueueInv' /\ PauseInv'
<1>0. /\ QueueInv /\ PauseInv
      /\ head \in Nat /\ last_block \in Nat /\ async_msg \in Int
      /\ async_queue \in Seq(Messages)
  BY FlowAssumption DEF FlowInv, FlowTypeOK, Messages, NoMessage, OtherMessage, PauseMessage
<1> USE <1>0 DEF NoMessage, PauseMessage
<1>1. CASE async_queue = <<>>
  <2>1. async_msg' = 0 /\ UNCHANGED <<async_queue, taken, slowdown_requested>>
    BY <1>1 DEF SendEvents
  <2>3. slowdown_requested' \in BOOLEAN /\ taken' \in 0 .. 2
    BY <2>1 DEF FlowInv, FlowTypeOK
  <2>2. DOMAIN async_queue = {}
    BY <1>1
  <2> QED
    BY <1>1, <2>1, <2>2, <2>3 DEF QueueInv, PauseInv
<1>2. CASE async_queue # <<>>
  <2>1. async_msg' = Head(async_queue) /\ async_queue' = Tail(async_queue)
    BY <1>2 DEF SendEvents
  <2>2. /\ async_msg' = async_queue[1] /\ async_msg' \in Messages
        /\ async_queue' \in Seq(Messages)
        /\ 1 \in DOMAIN async_queue /\ DOMAIN async_queue = 1 .. Len(async_queue)
        /\ DOMAIN async_queue' = 1 .. Len(async_queue) - 1
        /\ \A i \in DOMAIN async_queue' :
              i + 1 \in DOMAIN async_queue /\ async_queue'[i] = async_queue[i + 1]
    BY <1>2, <2>1, TailElements
  <2>3. slowdown_requested' \in BOOLEAN /\ taken' \in 0 .. 2
    BY <1>2 DEF SendEvents, FlowInv, FlowTypeOK
  <2>4. last_block' \in Int /\ last_block' >= last_block /\ last_block' >= async_msg
    BY DEF QueueInv
  <2>5. QueueInv'
    <3>1. last_block' <= head'
      BY DEF QueueInv
    <3>2. async_msg' > 0 => last_block' < async_msg' /\ async_msg' <= head'
      BY <2>2 DEF QueueInv
    <3>3. ASSUME NEW i \in DOMAIN async_queue', async_queue'[i] > 0
          PROVE  /\ last_block' < async_queue'[i] /\ async_msg' < async_queue'[i]
                 /\ async_queue'[i] <= head'
      <4>1. i + 1 \in DOMAIN async_queue /\ async_queue'[i] = async_queue[i + 1] /\ 1 < i + 1
        BY <2>2
      <4>2. async_queue[1] \in Int /\ async_queue[i + 1] \in Int
        BY <2>2, <4>1, MessagesAreIntegers
      <4>3. async_queue[1] > 0 => async_queue[1] < async_queue[i + 1]
        BY <2>2, <3>3, <4>1 DEF QueueInv
      <4>4. async_queue[i + 1] <= head /\ last_block < async_queue[i + 1]
            /\ async_msg < async_queue[i + 1]
        BY <3>3, <4>1 DEF QueueInv
      <4> QED
        BY <2>2, <3>3, <4>1, <4>2, <4>3, <4>4
    <3>4. ASSUME NEW i \in DOMAIN async_queue', NEW j \in DOMAIN async_queue', i < j,
                 async_queue'[i] > 0, async_queue'[j] > 0
          PROVE  async_queue'[i] < async_queue'[j]
      <4>1. /\ i + 1 \in DOMAIN async_queue /\ async_queue'[i] = async_queue[i + 1]
            /\ j + 1 \in DOMAIN async_queue /\ async_queue'[j] = async_queue[j + 1]
        BY <2>2
      <4>2. i + 1 < j + 1
        BY <2>2, <3>4
      <4> QED
        BY <3>4, <4>1, <4>2 DEF QueueInv
    <3> QED
      BY <3>1, <3>2, <3>3, <3>4 DEF QueueInv
  <2>6. PauseInv'
    <3>1. head' > 0 => \/ last_block' > 0 \/ async_msg' > 0
                       \/ \E j \in DOMAIN async_queue' : async_queue'[j] > 0
      <4>1. SUFFICES ASSUME head > 0, NEW j \in DOMAIN async_queue, async_queue[j] > 0
                     PROVE  \/ last_block' > 0 \/ async_msg' > 0
                            \/ \E k \in DOMAIN async_queue' : async_queue'[k] > 0
        BY <2>4 DEF PauseInv
      <4>2. CASE j = 1
        BY <2>2, <4>1, <4>2
      <4>3. CASE j # 1
        <5>1. j - 1 \in DOMAIN async_queue'
          BY <2>2, <4>3
        <5>2. async_queue'[j - 1] = async_queue[(j - 1) + 1] /\ (j - 1) + 1 = j
          BY <2>2, <5>1
        <5> QED
          BY <4>1, <5>1, <5>2
      <4> QED
        BY <4>2, <4>3
    <3>2. ASSUME async_msg' = PauseMessage
          PROVE  last_block' > 0
      <4>1. 1 \in DOMAIN async_queue /\ async_queue[1] = PauseMessage
        BY <2>2, <3>2
      <4>2. ~ \E j \in 1 .. 1 - 1 : async_queue[j] > 0
        OBVIOUS
      <4>3. last_block > 0 \/ async_msg > 0
        BY <4>1, <4>2 DEF PauseInv
      <4> QED
        BY <2>4, <4>3
    <3>3. ASSUME NEW i \in DOMAIN async_queue', async_queue'[i] = PauseMessage
          PROVE  \/ last_block' > 0 \/ async_msg' > 0
                 \/ \E j \in 1 .. i - 1 : async_queue'[j] > 0
      <4>1. /\ i + 1 \in DOMAIN async_queue /\ async_queue[i + 1] = PauseMessage
            /\ i \in Nat /\ i <= Len(async_queue) - 1 /\ (i + 1) - 1 = i
        BY <2>2, <3>3
      <4>2. CASE last_block > 0 \/ async_msg > 0
        BY <2>4, <4>2
      <4>3. CASE \E j \in 1 .. i : async_queue[j] > 0
        <5>1. PICK j \in 1 .. i : async_queue[j] > 0
          BY <4>3
        <5>2. CASE j = 1
          BY <2>2, <5>1, <5>2
        <5>3. CASE j # 1
          <6>1. j - 1 \in 1 .. i - 1 /\ j - 1 \in 1 .. Len(async_queue) - 1 /\ (j - 1) + 1 = j
            BY <4>1, <5>3
          <6>2. async_queue'[j - 1] = async_queue[j]
            BY <2>2, <6>1
          <6> QED
            BY <5>1, <6>1, <6>2
        <5> QED
          BY <5>2, <5>3
      <4> QED
        BY <4>1, <4>2, <4>3 DEF PauseInv
    <3> QED
      BY <3>1, <3>2, <3>3 DEF PauseInv
  <2> QED
    BY <2>2, <2>3, <2>5, <2>6
<1> QED
  BY <1>1, <1>2

\* What continue_read adds to the queue at block h.
BlockMessages(h, k, pauses) ==
    ([i \in 1 .. k |-> OtherMessage] \o <<h>>) \o (IF pauses THEN <<PauseMessage>> ELSE <<>>)

LEMMA BlockMessagesElements ==
    ASSUME NEW h \in 1 .. MaxBlock, NEW k \in Nat, NEW pauses
    PROVE  LET added == BlockMessages(h, k, pauses)
           IN  /\ added \in Seq(Messages) /\ DOMAIN added \in {1 .. k + 1, 1 .. k + 2}
               /\ \A i \in DOMAIN added : i <= k => added[i] = OtherMessage
               /\ added[k + 1] = h
               /\ \A i \in DOMAIN added : i > k + 1 => added[i] = PauseMessage
<1> DEFINE others   == [i \in 1 .. k |-> OtherMessage]
           block    == <<h>>
           messages == others \o block
           pause    == IF pauses THEN <<PauseMessage>> ELSE <<>>
<1>1. others \in Seq(Messages) /\ Len(others) = k /\ \A i \in 1 .. k : others[i] = OtherMessage
  BY DEF Messages
<1>2. block \in Seq(Messages) /\ Len(block) = 1 /\ block[1] = h
  BY DEF Messages
<1>3. /\ pause \in Seq(Messages) /\ Len(pause) \in {0, 1} /\ DOMAIN pause = 1 .. Len(pause)
      /\ \A i \in DOMAIN pause : pause[i] = PauseMessage
  <2>1. CASE pauses
    <3>1. pause = <<PauseMessage>>
      BY <2>1
    <3> HIDE DEF pause
    <3> QED
      BY <3>1 DEF Messages
  <2>2. CASE ~pauses
    <3>1. pause = <<>>
      BY <2>2
    <3> HIDE DEF pause
    <3> QED
      BY <3>1
  <2> QED
    BY <2>1, <2>2
<1>6. BlockMessages(h, k, pauses) = messages \o pause
  BY DEF BlockMessages
<1> HIDE DEF others, block, pause
<1>7. /\ messages \in Seq(Messages) /\ Len(messages) = k + 1
      /\ \A i \in 1 .. k : messages[i] = OtherMessage
      /\ messages[k + 1] = h
  <2>1. others \in Seq(Messages) /\ block \in Seq(Messages)
    BY <1>1, <1>2
  <2>2. /\ messages \in Seq(Messages) /\ Len(messages) = Len(others) + Len(block)
        /\ DOMAIN others = 1 .. Len(others) /\ DOMAIN block = 1 .. Len(block)
        /\ \A i \in DOMAIN others : messages[i] = others[i]
        /\ \A i \in DOMAIN block : messages[Len(others) + i] = block[i]
    BY <2>1, ConcatElements
  <2> HIDE DEF messages
  <2>3. Len(messages) = k + 1 /\ DOMAIN others = 1 .. k /\ 1 \in DOMAIN block
    BY <1>1, <1>2, <2>2
  <2>4. messages[k + 1] = h
    BY <1>1, <1>2, <2>2, <2>3
  <2> QED
    BY <1>1, <2>2, <2>3, <2>4
<1> HIDE DEF messages
<1>8. /\ messages \o pause \in Seq(Messages)
      /\ DOMAIN (messages \o pause) = 1 .. k + 1 + Len(pause)
      /\ \A i \in 1 .. k + 1 : (messages \o pause)[i] = messages[i]
      /\ \A i \in DOMAIN pause : (messages \o pause)[k + 1 + i] = pause[i]
  BY <1>3, <1>7, ConcatElements
<1> DEFINE added == messages \o pause
<1> HIDE DEF added
<1>9. /\ added \in Seq(Messages) /\ DOMAIN added = 1 .. k + 1 + Len(pause)
      /\ \A i \in 1 .. k + 1 : added[i] = messages[i]
      /\ \A i \in DOMAIN pause : added[k + 1 + i] = pause[i]
      /\ BlockMessages(h, k, pauses) = added
  BY <1>6, <1>8 DEF added
<1>10. \A i \in DOMAIN added : i <= k => added[i] = OtherMessage
  BY <1>3, <1>7, <1>9
<1>11. ASSUME NEW i \in DOMAIN added, i > k + 1
       PROVE  added[i] = PauseMessage
  <2>1. i - (k + 1) \in DOMAIN pause /\ k + 1 + (i - (k + 1)) = i
    BY <1>3, <1>9, <1>11
  <2> QED
    BY <1>3, <1>9, <2>1
<1>12. added[k + 1] = h
  BY <1>7, <1>9
<1>13. DOMAIN added \in {1 .. k + 1, 1 .. k + 2}
  <2>1. CASE Len(pause) = 0
    <3>1. k + 1 + Len(pause) = k + 1
      BY <2>1
    <3> QED
      BY <1>9, <3>1
  <2>2. CASE Len(pause) = 1
    <3>1. k + 1 + Len(pause) = k + 2
      BY <2>2
    <3> QED
      BY <1>9, <3>1
  <2> QED
    BY <1>3, <2>1, <2>2
<1> QED
  BY <1>9, <1>10, <1>11, <1>12, <1>13

\* Events enter the queue behind those that are there: at most one block, which is
\* the new head, and no pause before there was a block.
LEMMA PublishEvents ==
    ASSUME FlowInv, NEW added \in Seq(Messages),
           async_queue' = async_queue \o added, UNCHANGED <<async_msg, last_block>>,
           head' \in Nat, head <= head',
           \A i \in DOMAIN added : added[i] > 0 => added[i] = head' /\ head < head',
           \A i, j \in DOMAIN added : added[i] > 0 /\ added[j] > 0 => i = j,
           \A i \in DOMAIN added : added[i] = PauseMessage =>
              head > 0 \/ \E j \in 1 .. i - 1 : added[j] > 0,
           head' > head => \E j \in DOMAIN added : added[j] > 0
    PROVE  async_queue' \in Seq(Messages) /\ QueueInv' /\ PauseInv'
<1>0. /\ QueueInv /\ PauseInv
      /\ head \in Nat /\ last_block \in Nat /\ async_msg \in Int
      /\ async_queue \in Seq(Messages)
  BY FlowAssumption DEF FlowInv, FlowTypeOK, Messages, NoMessage, OtherMessage, PauseMessage
<1> USE <1>0 DEF NoMessage, PauseMessage
<1> DEFINE queue == async_queue'
           n     == Len(async_queue)
<1>1. /\ queue \in Seq(Messages) /\ n \in Nat /\ DOMAIN async_queue = 1 .. n
      /\ DOMAIN added = 1 .. Len(added) /\ DOMAIN queue = 1 .. n + Len(added)
      /\ \A i \in 1 .. n : queue[i] = async_queue[i]
      /\ \A i \in DOMAIN added : queue[n + i] = added[i]
  BY ConcatElements
<1> HIDE DEF queue, n
<1>2. \A i \in DOMAIN queue : i \in 1 .. n \/ (i - n \in DOMAIN added /\ queue[i] = added[i - n])
  <2> SUFFICES ASSUME NEW i \in DOMAIN queue, i > n
               PROVE  i - n \in DOMAIN added /\ queue[i] = added[i - n]
    BY <1>1
  <2>1. i - n \in DOMAIN added /\ n + (i - n) = i
    BY <1>1
  <2> QED
    BY <1>1, <2>1
<1>3. last_block \in Nat /\ last_block <= head /\ async_msg \in Int /\ async_msg <= head /\ head \in Nat
  BY DEF QueueInv
<1>4. \A i \in DOMAIN queue : queue[i] > 0 =>
         /\ last_block < queue[i] /\ async_msg < queue[i] /\ queue[i] <= head'
         /\ i \in 1 .. n => queue[i] <= head
         /\ i \notin 1 .. n => queue[i] = head' /\ head < head'
  <2> SUFFICES ASSUME NEW i \in DOMAIN queue, queue[i] > 0
               PROVE  /\ last_block < queue[i] /\ async_msg < queue[i] /\ queue[i] <= head'
                      /\ i \in 1 .. n => queue[i] <= head
                      /\ i \notin 1 .. n => queue[i] = head' /\ head < head'
    OBVIOUS
  <2>1. CASE i \in 1 .. n
    <3>1. i \in DOMAIN async_queue /\ queue[i] = async_queue[i]
      BY <1>1, <2>1
    <3>2. last_block < queue[i] /\ async_msg < queue[i] /\ queue[i] <= head /\ queue[i] \in Int
      BY <3>1, MessagesAreIntegers DEF QueueInv
    <3> QED
      BY <1>3, <2>1, <3>2
  <2>2. CASE i \notin 1 .. n
    <3>1. queue[i] = head' /\ head < head'
      BY <1>2, <2>2
    <3> QED
      BY <1>3, <2>2, <3>1
  <2> QED
    BY <2>1, <2>2
<1>5. ASSUME NEW i \in DOMAIN queue, NEW j \in DOMAIN queue, i < j, queue[i] > 0, queue[j] > 0
      PROVE  queue[i] < queue[j]
  <2>1. CASE j \in 1 .. n
    <3>1. i \in 1 .. n
      BY <1>1, <1>5, <2>1
    <3> QED
      BY <1>1, <1>5, <2>1, <3>1 DEF QueueInv
  <2>2. CASE j \notin 1 .. n /\ i \in 1 .. n
    <3>1. queue[j] = head' /\ head < head' /\ queue[i] <= head
      BY <1>4, <1>5, <2>2
    <3>2. queue \in Seq(Messages)
      BY <1>1
    <3>3. queue[i] \in Int
      BY <3>2, MessagesAreIntegers
    <3> QED
      BY <1>3, <3>1, <3>3
  <2>3. CASE j \notin 1 .. n /\ i \notin 1 .. n
    <3>1. i - n \in DOMAIN added /\ j - n \in DOMAIN added /\ added[i - n] > 0 /\ added[j - n] > 0
      BY <1>2, <1>5, <2>3
    <3>2. i - n = j - n
      BY <3>1
    <3> QED
      BY <1>1, <1>5, <3>2
  <2> QED
    BY <2>1, <2>2, <2>3
<1>6. QueueInv'
  <2>1. last_block <= head' /\ (async_msg > 0 => last_block < async_msg /\ async_msg <= head')
    BY <1>3 DEF QueueInv
  <2> QED
    BY <1>4, <1>5, <2>1 DEF QueueInv, queue
<1>7. \A i \in 1 .. n : async_queue[i] > 0 <=> queue[i] > 0
  BY <1>1
<1>8. PauseInv'
  <2>1. ASSUME head > 0
        PROVE  last_block > 0 \/ async_msg > 0 \/ \E j \in 1 .. n : queue[j] > 0
    BY <1>1, <1>7, <2>1 DEF PauseInv
  <2>2. ASSUME head' > 0
        PROVE  last_block > 0 \/ async_msg > 0 \/ \E j \in DOMAIN queue : queue[j] > 0
    <3>1. CASE head' > head
      <4>1. PICK j \in DOMAIN added : added[j] > 0
        BY <3>1
      <4>2. n + j \in DOMAIN queue /\ queue[n + j] = added[j]
        BY <1>1
      <4> QED
        BY <4>1, <4>2
    <3>2. CASE head' = head
      <4>1. 1 .. n \subseteq DOMAIN queue
        BY <1>1
      <4> QED
        BY <2>1, <2>2, <3>2, <4>1
    <3> QED
      BY <1>3, <3>1, <3>2
  <2>3. async_msg = PauseMessage => last_block > 0
    BY DEF PauseInv
  <2>4. ASSUME NEW i \in DOMAIN queue, queue[i] = PauseMessage
        PROVE  last_block > 0 \/ async_msg > 0 \/ \E j \in 1 .. i - 1 : queue[j] > 0
    <3>1. CASE i \in 1 .. n
      <4>1. last_block > 0 \/ async_msg > 0 \/ \E j \in 1 .. i - 1 : async_queue[j] > 0
        BY <1>1, <2>4, <3>1 DEF PauseInv
      <4>2. \A j \in 1 .. i - 1 : j \in 1 .. n
        BY <1>1, <3>1
      <4> QED
        BY <1>7, <4>1, <4>2
    <3>2. CASE i \notin 1 .. n /\ head > 0
      <4>1. \A j \in 1 .. n : j \in 1 .. i - 1
        BY <1>1, <3>2
      <4> QED
        BY <2>1, <3>2, <4>1
    <3>3. CASE i \notin 1 .. n /\ \E j \in 1 .. (i - n) - 1 : added[j] > 0
      <4>1. PICK j \in 1 .. (i - n) - 1 : added[j] > 0
        BY <3>3
      <4>2. j \in DOMAIN added /\ n + j \in 1 .. i - 1
        BY <1>1, <4>1
      <4>3. queue[n + j] > 0
        BY <1>1, <4>1, <4>2
      <4> QED
        BY <4>2, <4>3
    <3>4. i \notin 1 .. n => i - n \in DOMAIN added /\ added[i - n] = PauseMessage
      BY <1>2, <2>4
    <3> QED
      BY <3>1, <3>2, <3>3, <3>4
  <2> QED
    BY <2>2, <2>3, <2>4 DEF PauseInv, queue
<1> QED
  BY <1>1, <1>6, <1>8 DEF queue

-------------------------------------------------------------------------------
(* The actions.                                                              *)

LEMMA ReceiveBlockInv ==
    ASSUME FlowInv, ReceiveBlock
    PROVE  FlowInv'
<1> USE FlowAssumption DEF FlowInv
<1>1. PICK k \in 0 .. ExtraMessages :
         ContinueRead(head + 1, irreversible', [i \in 1 .. k |-> OtherMessage] \o <<head + 1>>)
  BY DEF ReceiveBlock
<1> DEFINE messages == [i \in 1 .. k |-> OtherMessage] \o <<head + 1>>
           pauses   == CheckPause(head + 1, Len(messages))
           ends     == pauses /\ EndReached(head + 1, irreversible')
           added    == BlockMessages(head + 1, k, pauses /\ ~ends)
<1>2. /\ reading' = ~pauses /\ stopped' = (IF ends THEN "end" ELSE "no")
      /\ async_queue' = async_queue \o added
  BY <1>1 DEF ContinueRead, BlockMessages
<1>3. ~pauses => (head + 1) - exporter_acked_block < exporter_max_unconfirmed
  BY DEF CheckPause, FlowTypeOK
<1> HIDE DEF messages, pauses, ends, added
<1>4. /\ head' = head + 1 /\ head \in Nat /\ head < MaxBlock /\ head + 1 \in 1 .. MaxBlock /\ reading
      /\ UNCHANGED <<parameters, stale_check_last_head, silent, exporter_acked_block,
                     slowdown_requested, async_msg, taken, consumerVars>>
      /\ exporter_max_unconfirmed \in Nat /\ UNCHANGED exporter_max_unconfirmed
  BY WindowIsPositive DEF ReceiveBlock, FlowTypeOK, parameters
<1>5. /\ added \in Seq(Messages) /\ DOMAIN added \in {1 .. k + 1, 1 .. k + 2}
      /\ \A i \in DOMAIN added : i <= k => added[i] = OtherMessage
      /\ added[k + 1] = head + 1
      /\ \A i \in DOMAIN added : i > k + 1 => added[i] = PauseMessage
  BY <1>4, BlockMessagesElements DEF added
<1>6. /\ \A i \in DOMAIN added : added[i] > 0 => i = k + 1
      /\ \A i \in DOMAIN added : added[i] = PauseMessage => i > k + 1
      /\ k + 1 \in DOMAIN added
  BY <1>4, <1>5 DEF OtherMessage, PauseMessage
<1>7. \A i \in DOMAIN added : added[i] = PauseMessage => \E j \in 1 .. i - 1 : added[j] > 0
  <2> SUFFICES ASSUME NEW i \in DOMAIN added, added[i] = PauseMessage
               PROVE  k + 1 \in 1 .. i - 1 /\ added[k + 1] > 0
    OBVIOUS
  <2>1. i \in Nat /\ i > k + 1
    BY <1>5, <1>6
  <2> QED
    BY <1>4, <1>5, <2>1
<1>8. /\ \A i \in DOMAIN added : added[i] > 0 => added[i] = head' /\ head < head'
      /\ \A i, j \in DOMAIN added : added[i] > 0 /\ added[j] > 0 => i = j
      /\ head' > head => \E j \in DOMAIN added : added[j] > 0
  BY <1>4, <1>5, <1>6
<1>9. head' \in Nat /\ head <= head'
  BY <1>4
<1>10. async_queue' \in Seq(Messages) /\ QueueInv' /\ PauseInv'
  BY <1>2, <1>4, <1>5, <1>7, <1>8, <1>9, PublishEvents DEF consumerVars
<1>11. FlowTypeOK'
  <2>1. irreversible' \in 0 .. MaxBlock
    BY DEF ReceiveBlock, FlowTypeOK
  <2>2. head' \in 0 .. MaxBlock
    BY <1>4
  <2>3. stopped' \in {"no", "end", "stale", "ack"} /\ reading' \in BOOLEAN
    BY <1>2
  <2> QED
    BY <1>4, <1>10, <2>1, <2>2, <2>3 DEF FlowTypeOK, parameters, consumerVars
<1>12. ReadInv'
  <2>1. head - exporter_acked_block < exporter_max_unconfirmed
    BY <1>4 DEF ReadInv
  <2>2. exporter_acked_block \in Nat /\ exporter_acked_block' = exporter_acked_block
    BY <1>4 DEF FlowTypeOK
  <2>3. head' - exporter_acked_block' <= exporter_max_unconfirmed /\ head' > 0
    BY <1>4, <2>1, <2>2
  <2>4. reading' => head' - exporter_acked_block' < exporter_max_unconfirmed
    BY <1>2, <1>3, <1>4, <2>2
  <2> QED
    BY <1>4, <2>3, <2>4 DEF ReadInv
<1>13. AckInv'
  BY <1>4 DEF AckInv, parameters, consumerVars
<1> QED
  BY <1>10, <1>11, <1>12, <1>13

LEMMA PauseTimerInv ==
    ASSUME FlowInv, PauseTimer
    PROVE  FlowInv'
<1> USE FlowAssumption DEF FlowInv
<1> DEFINE pauses == CheckPause(head, Len(<<>>))
           ends   == pauses /\ EndReached(head, irreversible)
           added  == <<>> \o (IF pauses /\ ~ends THEN <<PauseMessage>> ELSE <<>>)
<1>1. /\ reading' = ~pauses /\ stopped' = (IF ends THEN "end" ELSE "no")
      /\ async_queue' = async_queue \o added
  BY DEF PauseTimer, ContinueRead
<1>2. ~pauses => head - exporter_acked_block < exporter_max_unconfirmed
  BY DEF CheckPause, FlowTypeOK
<1>3. added \in Seq(Messages) /\ \A i \in DOMAIN added : added[i] = PauseMessage
  <2>1. CASE pauses /\ ~ends
    <3>1. added = <<PauseMessage>>
      BY <2>1
    <3> HIDE DEF added
    <3> QED
      BY <3>1 DEF Messages
  <2>2. CASE ~(pauses /\ ~ends)
    <3>1. added = <<>>
      BY <2>2
    <3> HIDE DEF added
    <3> QED
      BY <3>1
  <2> QED
    BY <2>1, <2>2
<1> HIDE DEF pauses, ends, added
<1>4. /\ ~reading /\ head > 0 /\ head \in Nat
      /\ UNCHANGED <<head, irreversible, parameters, stale_check_last_head, silent,
                     exporter_acked_block, slowdown_requested, async_msg, consumerVars>>
      /\ exporter_max_unconfirmed \in Nat /\ UNCHANGED exporter_max_unconfirmed
      /\ taken' = 0
  BY WindowIsPositive DEF PauseTimer, ReadInv, FlowTypeOK, parameters
<1>5. \A i \in DOMAIN added : ~(added[i] > 0)
  BY <1>3 DEF PauseMessage
<1>6. async_queue' \in Seq(Messages) /\ QueueInv' /\ PauseInv'
  BY <1>1, <1>3, <1>4, <1>5, PublishEvents DEF consumerVars
<1>7. FlowTypeOK'
  BY <1>1, <1>4, <1>6 DEF FlowTypeOK, parameters, consumerVars
<1>8. ReadInv'
  BY <1>1, <1>2, <1>4 DEF ReadInv, FlowTypeOK
<1>9. AckInv'
  BY <1>4 DEF AckInv, parameters, consumerVars
<1> QED
  BY <1>6, <1>7, <1>8, <1>9

LEMMA AckArrivesInv ==
    ASSUME FlowInv, AckArrives
    PROVE  FlowInv'
<1> USE FlowAssumption DEF FlowInv
<1>1. /\ acks \in Seq(0 .. MaxBlock) /\ acks # <<>> /\ acks' = Tail(acks)
      /\ UNCHANGED <<readVars, parameters, stale_check_last_head, silent,
                     slowdown_requested, exporterVars, last_block, last_ack>>
  BY DEF AckArrives, FlowTypeOK
<1>2. /\ Head(acks) = acks[1] /\ Head(acks) \in 0 .. MaxBlock /\ acks' \in Seq(0 .. MaxBlock)
      /\ 1 \in DOMAIN acks /\ DOMAIN acks = 1 .. Len(acks) /\ Len(acks) \in Nat
      /\ DOMAIN acks' = 1 .. Len(acks) - 1
      /\ \A i \in DOMAIN acks' : i + 1 \in DOMAIN acks /\ acks'[i] = acks[i + 1]
  BY <1>1, TailElements
<1>3. exporter_acked_block' = acks[1] /\ UNCHANGED stopped
  <2>1. exporter_acked_block \in Nat /\ acks[1] \in Nat /\ exporter_acked_block <= acks[1]
    BY <1>2 DEF AckInv, FlowTypeOK
  <2>2. Head(acks) = acks[1] /\ ~(acks[1] < exporter_acked_block)
    BY <1>2, <2>1
  <2> QED
    BY <2>2 DEF AckArrives
<1>4. exporter_acked_block <= acks[1] /\ acks[1] + ack_lag <= last_block
  BY <1>2 DEF AckInv
<1>5. FlowTypeOK'
  BY <1>1, <1>2, <1>3 DEF FlowTypeOK, readVars, parameters, exporterVars
<1>6. ReadInv'
  <2>1. /\ acks[1] \in Nat /\ exporter_acked_block \in Nat /\ head \in Nat /\ ReadInv
        /\ exporter_max_unconfirmed \in Nat
    BY <1>2, WindowIsPositive DEF FlowTypeOK
  <2>2. /\ exporter_acked_block' = acks[1] /\ head' = head /\ reading' = reading
        /\ UNCHANGED exporter_max_unconfirmed
    BY <1>1, <1>3 DEF readVars, parameters
  <2> QED
    BY <1>4, <2>1, <2>2 DEF ReadInv
<1>7. QueueInv' /\ PauseInv'
  BY <1>1 DEF QueueInv, PauseInv, readVars, exporterVars
<1>8. AckInv'
  <2>1. exporter_acked_block' + ack_lag' <= last_block'
    BY <1>1, <1>3, <1>4 DEF parameters
  <2>2. ASSUME NEW i \in DOMAIN acks'
        PROVE  exporter_acked_block' <= acks'[i] /\ acks'[i] + ack_lag' <= last_block'
    <3>1. i + 1 \in DOMAIN acks /\ acks'[i] = acks[i + 1] /\ 1 < i + 1
      BY <1>2
    <3>2. acks[1] <= acks[i + 1] /\ acks[i + 1] + ack_lag <= last_block
      BY <1>2, <3>1 DEF AckInv
    <3> QED
      BY <1>1, <1>3, <3>1, <3>2 DEF parameters
  <2>3. ASSUME NEW i \in DOMAIN acks', NEW j \in DOMAIN acks', i < j
        PROVE  acks'[i] <= acks'[j]
    <3>1. /\ i + 1 \in DOMAIN acks /\ acks'[i] = acks[i + 1]
          /\ j + 1 \in DOMAIN acks /\ acks'[j] = acks[j + 1] /\ i + 1 < j + 1
      BY <1>2, <2>3
    <3> QED
      BY <3>1 DEF AckInv
  <2> QED
    BY <2>1, <2>2, <2>3 DEF AckInv
<1> QED
  BY <1>5, <1>6, <1>7, <1>8

LEMMA SendTimerInv ==
    ASSUME FlowInv, SendTimer
    PROVE  FlowInv'
<1> USE FlowAssumption DEF FlowInv
<1>1. /\ SendEvents /\ async_msg = 0
      /\ UNCHANGED <<readVars, parameters, stale_check_last_head, stopped, silent,
                     exporter_acked_block, consumerVars>>
  BY DEF SendTimer, NoMessage
<1>2. head' = head /\ last_block' = IF async_msg > 0 THEN async_msg ELSE last_block
  BY <1>1 DEF readVars, consumerVars
<1>3. /\ async_queue' \in Seq(Messages) /\ async_msg' \in Messages \cup {NoMessage}
      /\ slowdown_requested' \in BOOLEAN /\ taken' \in 0 .. 2 /\ QueueInv' /\ PauseInv'
  BY <1>1, <1>2, TakeMessage
<1>4. FlowTypeOK' /\ ReadInv' /\ AckInv'
  BY <1>1, <1>3 DEF FlowTypeOK, ReadInv, AckInv, readVars, parameters, consumerVars
<1> QED
  BY <1>3, <1>4

LEMMA AcknowledgedBlock ==
    ASSUME NEW b \in 1 .. MaxBlock, NEW lag \in {0, 1}
    PROVE  b - lag \in 0 .. MaxBlock /\ \A a \in Nat : a + lag <= b => a <= b - lag
  BY FlowAssumption

LEMMA WriteDoneInv ==
    ASSUME FlowInv, WriteDone
    PROVE  FlowInv'
<1> USE FlowAssumption DEF FlowInv
<1>1. /\ SendEvents /\ Consume(async_msg) /\ async_msg # 0
      /\ UNCHANGED <<readVars, parameters, stale_check_last_head, stopped, silent,
                     exporter_acked_block>>
  BY DEF WriteDone, NoMessage
<1>2. head' = head /\ last_block' = IF async_msg > 0 THEN async_msg ELSE last_block
  BY <1>1 DEF readVars, Consume
<1>3. /\ async_queue' \in Seq(Messages) /\ async_msg' \in Messages \cup {NoMessage}
      /\ slowdown_requested' \in BOOLEAN /\ taken' \in 0 .. 2 /\ QueueInv' /\ PauseInv'
  BY <1>1, <1>2, TakeMessage
<1>4. last_block' \in 0 .. MaxBlock /\ last_block' >= last_block
  BY <1>2 DEF FlowTypeOK, Messages, QueueInv, NoMessage
<1>5. Answers(async_msg) => last_block' > 0
  BY <1>2 DEF Answers, PauseInv, FlowTypeOK
<1>6. CASE ~Answers(async_msg)
  <2>1. acks' = acks /\ last_ack' = last_ack
    BY <1>1, <1>6 DEF Consume
  <2>2. FlowTypeOK' /\ ReadInv'
    BY <1>1, <1>3, <1>4, <2>1 DEF FlowTypeOK, ReadInv, readVars, parameters
  <2>3. AckInv'
    <3>1. exporter_acked_block = 0 \/ exporter_acked_block + ack_lag <= last_block'
      BY <1>4 DEF AckInv, FlowTypeOK
    <3>2. \A i \in DOMAIN acks : acks[i] + ack_lag <= last_block'
      BY <1>4 DEF AckInv, FlowTypeOK
    <3> QED
      BY <1>1, <2>1, <3>1, <3>2 DEF AckInv, parameters
  <2> QED
    BY <1>3, <2>2, <2>3
<1>7. CASE Answers(async_msg)
  <2> DEFINE ack == last_block' - ack_lag
  <2>1. acks' = Append(acks, ack) /\ last_ack' = last_block'
    BY <1>1, <1>7 DEF Consume
  <2>2. ack_lag \in {0, 1} /\ last_block' \in 1 .. MaxBlock
    BY <1>4, <1>5, <1>7 DEF FlowTypeOK
  <2>3. ack \in 0 .. MaxBlock /\ \A a \in Nat : a + ack_lag <= last_block' => a <= ack
    BY <2>2, AcknowledgedBlock
  <2> HIDE DEF ack
  <2>4. exporter_acked_block <= ack /\ \A i \in DOMAIN acks : acks[i] <= ack
    <3>1. exporter_acked_block \in Nat /\ \A i \in DOMAIN acks : acks[i] \in Nat
      BY DEF FlowTypeOK
    <3>2. ASSUME NEW a \in Nat, a + ack_lag <= last_block
          PROVE  a <= ack
      <4>1. last_block \in Nat /\ last_block' \in Nat /\ ack_lag \in Nat
        BY <1>4, <2>2 DEF FlowTypeOK
      <4>2. a + ack_lag <= last_block'
        BY <1>4, <3>2, <4>1
      <4> QED
        BY <2>3, <4>2
    <3>3. exporter_acked_block <= ack
      BY <2>3, <3>1, <3>2 DEF AckInv
    <3>4. \A i \in DOMAIN acks : acks[i] <= ack
      BY <3>1, <3>2 DEF AckInv
    <3> QED
      BY <3>3, <3>4
  <2>5. /\ acks' \in Seq(0 .. MaxBlock) /\ DOMAIN acks = 1 .. Len(acks) /\ Len(acks) \in Nat
        /\ DOMAIN acks' = 1 .. Len(acks) + 1
        /\ \A i \in DOMAIN acks : acks'[i] = acks[i]
        /\ acks'[Len(acks) + 1] = ack
    BY <2>1, <2>3 DEF FlowTypeOK
  <2>6. FlowTypeOK' /\ ReadInv'
    BY <1>1, <1>3, <1>4, <2>1, <2>5 DEF FlowTypeOK, ReadInv, readVars, parameters
  <2>7. AckInv'
    <3>1. exporter_acked_block = 0 \/ exporter_acked_block + ack_lag <= last_block'
      BY <1>4 DEF AckInv, FlowTypeOK
    <3>2. ASSUME NEW i \in DOMAIN acks'
          PROVE  exporter_acked_block <= acks'[i] /\ acks'[i] + ack_lag <= last_block'
      <4>1. CASE i \in DOMAIN acks
        <5>1. /\ acks'[i] = acks[i] /\ acks[i] \in Nat /\ ack_lag \in Nat
              /\ last_block \in Nat /\ last_block' \in Nat
          BY <1>4, <2>2, <2>5, <4>1 DEF FlowTypeOK
        <5>2. exporter_acked_block <= acks[i] /\ acks[i] + ack_lag <= last_block
          BY <4>1 DEF AckInv
        <5> QED
          BY <1>4, <5>1, <5>2
      <4>2. CASE i = Len(acks) + 1
        BY <1>4, <2>2, <2>3, <2>4, <2>5, <4>2 DEF ack
      <4> QED
        BY <2>5, <4>1, <4>2
    <3>3. ASSUME NEW i \in DOMAIN acks', NEW j \in DOMAIN acks', i < j
          PROVE  acks'[i] <= acks'[j]
      <4>1. i \in DOMAIN acks
        BY <2>5, <3>3
      <4>2. CASE j \in DOMAIN acks
        BY <2>5, <3>3, <4>1, <4>2 DEF AckInv
      <4>3. CASE j = Len(acks) + 1
        BY <2>4, <2>5, <4>1, <4>3
      <4> QED
        BY <2>5, <4>2, <4>3
    <3> QED
      BY <1>1, <3>1, <3>2, <3>3 DEF AckInv, parameters
  <2> QED
    BY <1>3, <2>6, <2>7
<1> QED
  BY <1>6, <1>7

-------------------------------------------------------------------------------
(* Theorems.                                                                 *)

\* The inductive invariant: the receiver reads only while the window is open, and
\* blocks, pauses and acknowledgements keep their order on their way.
THEOREM FlowInvariance == Spec => []FlowInv
<1>1. Init => FlowInv
  <2> SUFFICES ASSUME Init
               PROVE  FlowInv
    OBVIOUS
  <2>1. FlowTypeOK
    <3>1. async_queue \in Seq(Messages) /\ acks \in Seq(0 .. MaxBlock)
      BY DEF Init
    <3>2. 0 \in 0 .. MaxBlock /\ 0 \in 0 .. 2
      BY FlowAssumption
    <3> QED
      BY <3>1, <3>2 DEF Init, FlowTypeOK
  <2>2. ReadInv /\ QueueInv /\ PauseInv /\ AckInv
    BY FlowAssumption DEF Init, ReadInv, QueueInv, PauseInv, AckInv, NoMessage, PauseMessage
  <2> QED
    BY <2>1, <2>2 DEF FlowInv
<1>2. FlowInv /\ [Next]_vars => FlowInv'
  <2> SUFFICES ASSUME FlowInv, [Next]_vars
               PROVE  FlowInv'
    OBVIOUS
  <2>1. CASE StaleTimer
    <3>1. /\ stopped' \in {"no", "stale"} /\ stale_check_last_head' = head
          /\ UNCHANGED <<readVars, parameters, silent, exporter_acked_block,
                         slowdown_requested, exporterVars, consumerVars>>
      BY <2>1 DEF StaleTimer
    <3>2. FlowTypeOK'
      BY <3>1 DEF FlowInv, FlowTypeOK, readVars, parameters, exporterVars, consumerVars
    <3>3. ReadInv' /\ QueueInv' /\ PauseInv' /\ AckInv'
      BY <3>1 DEF FlowInv, ReadInv, QueueInv, PauseInv, AckInv, readVars, parameters,
                  exporterVars, consumerVars
    <3> QED
      BY <3>2, <3>3 DEF FlowInv
  <2>2. CASE FallSilent \/ UNCHANGED vars
    <3>1. /\ silent' \in BOOLEAN
          /\ UNCHANGED <<readVars, parameters, stale_check_last_head, stopped,
                         exporter_acked_block, slowdown_requested, exporterVars, consumerVars>>
      BY <2>2 DEF FallSilent, vars, FlowInv, FlowTypeOK
    <3>2. FlowTypeOK'
      BY <3>1 DEF FlowInv, FlowTypeOK, readVars, parameters, exporterVars, consumerVars
    <3>3. ReadInv' /\ QueueInv' /\ PauseInv' /\ AckInv'
      BY <3>1 DEF FlowInv, ReadInv, QueueInv, PauseInv, AckInv, readVars, parameters,
                  exporterVars, consumerVars
    <3> QED
      BY <3>2, <3>3 DEF FlowInv
  <2> QED
    BY <2>1, <2>2, ReceiveBlockInv, PauseTimerInv, AckArrivesInv, SendTimerInv, WriteDoneInv DEF Next
<1> QED
  BY <1>1, <1>2, PTL DEF Spec

\* Every variable has its type in every reachable state; in particular the consumer
\* never acknowledges -1, which the exporter would read as the largest number.
THEOREM FlowTypeCorrect == Spec => []FlowTypeOK
  BY FlowInvariance, PTL DEF FlowInv

LEMMA BlocksInWindow ==
    ASSUME FlowInv
    PROVE  Cardinality(Blocks(async_queue)) <= exporter_max_unconfirmed
<1> USE FlowAssumption DEF FlowInv
<1> DEFINE B == Blocks(async_queue)
           W == (exporter_acked_block + 1) .. head
           f == [i \in B |-> async_queue[i]]
<1>1. exporter_acked_block \in Nat /\ head \in Nat /\ exporter_acked_block <= last_block
  BY DEF AckInv, FlowTypeOK
<1>2. ASSUME NEW i \in B
      PROVE  async_queue[i] \in W
  <2>1. /\ i \in DOMAIN async_queue /\ async_queue[i] > 0
        /\ last_block < async_queue[i] /\ async_queue[i] <= head
    BY DEF Blocks, QueueInv
  <2>2. async_queue[i] \in Int /\ last_block \in Nat
    BY <2>1 DEF FlowTypeOK, Messages, OtherMessage, PauseMessage
  <2> QED
    BY <1>1, <2>1, <2>2
<1>3. ASSUME NEW i \in B, NEW j \in B, async_queue[i] = async_queue[j]
      PROVE  i = j
  <2>1. /\ i \in DOMAIN async_queue /\ async_queue[i] > 0 /\ i \in Nat
        /\ j \in DOMAIN async_queue /\ async_queue[j] > 0 /\ j \in Nat
    BY DEF Blocks, FlowTypeOK
  <2>2. async_queue[i] \in Int
    BY <1>2
  <2>3. ~(i < j) /\ ~(j < i)
    BY <1>3, <2>1, <2>2 DEF QueueInv
  <2> QED
    BY <2>1, <2>3
<1>4. IsFiniteSet(W) /\ Cardinality(W) = IF exporter_acked_block + 1 > head THEN 0
                                         ELSE head - (exporter_acked_block + 1) + 1
  BY <1>1, FS_Interval
<1>5. f \in Injection(B, W)
  BY <1>2, <1>3 DEF Injection, IsInjective
<1>6. Cardinality(B) <= Cardinality(W)
  BY <1>4, <1>5, FS_Injection
<1>7. Cardinality(W) <= exporter_max_unconfirmed
  BY <1>1, <1>4, WindowIsPositive DEF ReadInv
<1>8. Cardinality(B) \in Nat
  BY <1>4, <1>5, FS_Injection, FS_CardinalityType
<1> QED
  <2>1. Cardinality(W) \in Nat /\ exporter_max_unconfirmed \in Nat
    BY <1>4, WindowIsPositive, FS_CardinalityType
  <2> QED
    BY <1>6, <1>7, <1>8, <2>1

\* For every size of the window, of the queues and of the chain, however slow the
\* consumer and whatever stops: the exporter never holds more blocks than
\* exporter_max_unconfirmed, and no acknowledgement is beyond the head or out of
\* order (check_pause, ack_block, async_send_events).
THEOREM WindowAlwaysHolds == Spec => []WindowHolds
<1>1. FlowInv => WindowHolds
  <2> SUFFICES ASSUME FlowInv
               PROVE  WindowHolds
    OBVIOUS
  <2>1. ASSUME NEW i \in DOMAIN acks
        PROVE  acks[i] <= head /\ acks[i] >= exporter_acked_block
    <3>1. /\ acks[i] \in Nat /\ last_block \in Nat /\ head \in Nat /\ ack_lag \in Nat
          /\ exporter_acked_block \in Nat
      BY FlowAssumption DEF FlowInv, FlowTypeOK
    <3>2. acks[i] + ack_lag <= last_block /\ exporter_acked_block <= acks[i] /\ last_block <= head
      BY DEF FlowInv, AckInv, QueueInv
    <3> QED
      BY <3>1, <3>2
  <2> QED
    BY <2>1, BlocksInWindow DEF WindowHolds
<1> QED
  BY <1>1, FlowInvariance, PTL
===============================================================================
