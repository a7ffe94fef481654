----------------------------- MODULE RelicProofs -----------------------------
(***************************************************************************)
(* What holds of the pipeline of RelicExporter for every content of the    *)
(* blocks, every chain, every pattern of forks, failed statements, aborts  *)
(* and restarts, provided that a session sends a fork's first block before *)
(* the LIB passes it (PromptShip), and that no failure takes the only copy *)
(* of a fork (~LosesForks).                                                *)
(***************************************************************************)
EXTENDS RelicExporter, ReceiverProofs, SequenceTheorems, WellFoundedInduction

-------------------------------------------------------------------------------
(* Concatenations of sequences of sequences, member by member.               *)

\* A set of numbers has a smallest one.
LEMMA SmallestOf ==
    ASSUME NEW T \in SUBSET Nat, T # {}
    PROVE  \E x \in T : \A y \in T : x <= y
<1> DEFINE R == OpToRel(<, Nat)
<1>1. IsWellFoundedOn(R, Nat)
  BY NatLessThanWellFounded
<1>2. \A x \in Nat, y \in Nat : y < x => <<y, x>> \in R
  BY DEF OpToRel
<1> HIDE DEF R
<1>3. PICK x \in T : \A y \in T : ~(<<y, x>> \in R)
  BY <1>1, WFMin
<1>4. ASSUME NEW y \in T PROVE x <= y
  <2>1. ~(y < x)
    BY <1>2, <1>3
  <2> QED
    BY <2>1
<1> QED
  BY <1>4

\* f is the concatenation of the first 1, 2, .. n members of s.
Flattens(f, s, n, Q) ==
    /\ f \in [1 .. n -> Q]
    /\ f[1] = s[1]
    /\ \A i \in 2 .. n : f[i] = f[i - 1] \o s[i]
    /\ FlattenSeq(s) = f[n]

\* The concatenation of a sequence of sequences is done from the first one on
\* (the statements of a message, in the order of its parts).
LEMMA FlattenFunction ==
    ASSUME NEW Q, \A x, y \in Q : x \o y \in Q,
           NEW s \in Seq(Q), NEW n \in Nat, n = Len(s), n # 0
    PROVE  \E f : Flattens(f, s, n, Q)
<1> DEFINE Upto(g, k) == g = [i \in 1 .. k |-> IF i = 1 THEN s[i] ELSE g[i - 1] \o s[i]]
           Found(k) == \E g : Upto(g, k)
           T == {k \in 1 .. n : ~Found(k)}
<1>1. \A i \in 1 .. n : s[i] \in Q
  BY ElementOfSeq
<1>2. T = {}
  <2>1. SUFFICES ASSUME T # {} PROVE FALSE
    OBVIOUS
  <2>2. PICK k \in T : \A j \in T : k <= j
    <3> HIDE DEF Found
    <3>1. T \in SUBSET Nat
      OBVIOUS
    <3> HIDE DEF T
    <3> QED
      BY <2>1, <3>1, SmallestOf
  <2>3. k \in 1 .. n /\ ~Found(k)
    <3> HIDE DEF Found
    <3> QED
      OBVIOUS
  <2>4. k # 1
    <3> DEFINE g == [i \in 1 .. 1 |-> s[1]]
    <3>1. Upto(g, 1)
      OBVIOUS
    <3> QED
      BY <2>3, <3>1
  <2>5. k - 1 \in 1 .. n /\ k - 1 \notin T
    <3>1. k - 1 \in 1 .. n /\ ~(k <= k - 1)
      BY <2>3, <2>4
    <3> HIDE DEF T
    <3> QED
      BY <2>2, <3>1
  <2>6. PICK g : Upto(g, k - 1)
    BY <2>5
  <2> DEFINE f == [i \in 1 .. k |-> IF i = k THEN g[k - 1] \o s[k] ELSE g[i]]
  <2>7. ASSUME NEW i \in 1 .. k
        PROVE  f[i] = IF i = 1 THEN s[i] ELSE f[i - 1] \o s[i]
    <3>1. CASE i = k
      <4>1. k - 1 \in 1 .. k /\ k - 1 # k
        BY <2>3, <2>5
      <4> QED
        BY <2>4, <3>1, <4>1
    <3>2. CASE i # k
      <4>1. i \in 1 .. k - 1 /\ f[i] = g[i] /\ (i # 1 => i - 1 \in 1 .. k /\ i - 1 # k)
        BY <2>3, <3>2
      <4>2. g[i] = IF i = 1 THEN s[i] ELSE g[i - 1] \o s[i]
        BY <2>6, <4>1
      <4> QED
        BY <4>1, <4>2
    <3> QED
      BY <3>1, <3>2
  <2>8. Upto(f, k)
    <3>1. f = [i \in 1 .. k |-> f[i]]
      OBVIOUS
    <3> HIDE DEF f
    <3> QED
      BY <2>7, <3>1
  <2> HIDE DEF f, Upto
  <2> QED
    BY <2>3, <2>8
<1>3. \E g : Upto(g, n)
  <2>1. n \in 1 .. n
    OBVIOUS
  <2>2. Found(n)
    <3> HIDE DEF Found
    <3> QED
      BY <1>2, <2>1
  <2> HIDE DEF Upto
  <2> QED
    BY <2>2
<1>4. PICK f : f = CHOOSE h : Upto(h, n)
  OBVIOUS
<1>5. FlattenSeq(s) = f[n]
  BY <1>4 DEF FlattenSeq
<1>6. Upto(f, n)
  <2> HIDE DEF Upto
  <2> QED
    BY <1>3, <1>4
<1>7. /\ f = [i \in 1 .. n |-> f[i]]
      /\ f[1] = s[1]
      /\ \A i \in 2 .. n : f[i] = f[i - 1] \o s[i]
  <2>1. f = [i \in 1 .. n |-> IF i = 1 THEN s[i] ELSE f[i - 1] \o s[i]]
    BY <1>6
  <2>2. \A i \in 1 .. n : f[i] = IF i = 1 THEN s[i] ELSE f[i - 1] \o s[i]
    BY <2>1
  <2>3. f = [i \in 1 .. n |-> f[i]]
    BY <2>1
  <2>4. 1 \in 1 .. n /\ \A i \in 2 .. n : i \in 1 .. n /\ i # 1
    OBVIOUS
  <2> QED
    BY <2>2, <2>3, <2>4
<1> HIDE DEF Upto, T
<1> DEFINE U == {i \in 1 .. n : f[i] \notin Q}
<1>8. U = {}
  <2>1. SUFFICES ASSUME U # {} PROVE FALSE
    OBVIOUS
  <2>2. PICK k \in U : \A j \in U : k <= j
    <3>1. U \in SUBSET Nat
      OBVIOUS
    <3> HIDE DEF U
    <3> QED
      BY <2>1, <3>1, SmallestOf
  <2>3. k \in 1 .. n /\ f[k] \notin Q
    OBVIOUS
  <2>4. k # 1
    BY <1>1, <1>7, <2>3
  <2>5. k - 1 \in 1 .. n /\ k - 1 \notin U /\ k \in 2 .. n
    <3>1. k - 1 \in 1 .. n /\ ~(k <= k - 1) /\ k \in 2 .. n
      BY <2>3, <2>4
    <3> HIDE DEF U
    <3> QED
      BY <2>2, <3>1
  <2>6. f[k - 1] \in Q /\ s[k] \in Q
    BY <1>1, <2>5
  <2>7. f[k - 1] \o s[k] \in Q
    BY <2>6
  <2> QED
    BY <1>7, <2>3, <2>5, <2>7
<1>9. f \in [1 .. n -> Q]
  BY <1>7, <1>8
<1> QED
  BY <1>5, <1>7, <1>9 DEF Flattens

\* What FlattenSeq returns, and how it grows with its argument (FlattenSeq is
\* how the model strings together what a handler executes).
LEMMA FlattenStep ==
    ASSUME NEW Q, <<>> \in Q, \A x \in Q : <<>> \o x = x, \A x, y \in Q : x \o y \in Q,
           NEW s \in Seq(Q), NEW t \in Q
    PROVE  /\ FlattenSeq(<<>>) = <<>>
           /\ FlattenSeq(s) \in Q
           /\ FlattenSeq(Append(s, t)) = FlattenSeq(s) \o t
<1>1. FlattenSeq(<<>>) = <<>>
  BY DEF FlattenSeq
<1>2. PICK n \in Nat : n = Len(s)
  OBVIOUS
<1> DEFINE u == Append(s, t)
<1>3. /\ u \in Seq(Q) /\ Len(u) = n + 1 /\ u[n + 1] = t
      /\ \A i \in 1 .. n : u[i] = s[i]
  BY <1>2
<1> HIDE DEF u
<1>4. PICK g : Flattens(g, u, n + 1, Q)
  <2>1. n + 1 \in Nat /\ n + 1 = Len(u) /\ n + 1 # 0 /\ u \in Seq(Q)
    BY <1>3
  <2> QED
    BY <2>1, FlattenFunction
<1>5. CASE n = 0
  <2>1. s = <<>>
    BY <1>2, <1>5, EmptySeq
  <2>2. FlattenSeq(u) = t
    <3>1. n + 1 = 1
      BY <1>5
    <3> QED
      BY <1>3, <1>4, <3>1 DEF Flattens
  <2>3. <<>> \in Q /\ <<>> \o t = t
    OBVIOUS
  <2> QED
    BY <1>1, <2>1, <2>2, <2>3 DEF u
<1>6. CASE n # 0
  <2>1. PICK f : Flattens(f, s, n, Q)
    <3>1. n \in Nat /\ n = Len(s) /\ n # 0 /\ s \in Seq(Q)
      BY <1>2, <1>6
    <3> QED
      BY <3>1, FlattenFunction
  <2> DEFINE T == {i \in 1 .. n : f[i] # g[i]}
  <2>2. T = {}
    <3>1. SUFFICES ASSUME T # {} PROVE FALSE
      OBVIOUS
    <3>2. PICK k \in T : \A j \in T : k <= j
      <4>1. T \in SUBSET Nat
        OBVIOUS
      <4> HIDE DEF T
      <4> QED
        BY <3>1, <4>1, SmallestOf
    <3>3. k \in 1 .. n /\ f[k] # g[k]
      OBVIOUS
    <3>4. k # 1
      BY <1>3, <1>4, <2>1, <3>3 DEF Flattens
    <3>5. k - 1 \in 1 .. n /\ k - 1 \notin T /\ k \in 2 .. n /\ k \in 2 .. n + 1
      <4>1. k - 1 \in 1 .. n /\ ~(k <= k - 1) /\ k \in 2 .. n /\ k \in 2 .. n + 1
        BY <3>3, <3>4
      <4> HIDE DEF T
      <4> QED
        BY <3>2, <4>1
    <3>6. f[k - 1] = g[k - 1] /\ u[k] = s[k]
      BY <1>3, <3>3, <3>5
    <3> QED
      BY <1>4, <2>1, <3>3, <3>5, <3>6 DEF Flattens
  <2>3. n \in 1 .. n /\ n + 1 \in 2 .. n + 1 /\ (n + 1) - 1 = n
    BY <1>6
  <2>4. f[n] = g[n] /\ f[n] \in Q
    BY <2>1, <2>2, <2>3 DEF Flattens
  <2>5. g[n + 1] = g[n] \o t
    BY <1>3, <1>4, <2>3 DEF Flattens
  <2> QED
    BY <1>1, <1>4, <2>1, <2>4, <2>5 DEF u, Flattens
<1> QED
  BY <1>5, <1>6

\* FlattenStep for sequences of sequences.
LEMMA FlattenProperties ==
    ASSUME NEW S, NEW s \in Seq(Seq(S)), NEW t \in Seq(S)
    PROVE  /\ FlattenSeq(<<>>) = <<>>
           /\ FlattenSeq(s) \in Seq(S)
           /\ FlattenSeq(Append(s, t)) = FlattenSeq(s) \o t
<1>1. PICK Q : Q = Seq(S)
  OBVIOUS
<1>2. <<>> \in Seq(S) /\ \A x \in Seq(S) : <<>> \o x = x
  BY EmptySeq, ConcatEmptySeq
<1>3. \A x, y \in Seq(S) : x \o y \in Seq(S)
  OBVIOUS
<1>4. s \in Seq(Q) /\ t \in Q /\ <<>> \in Q
  BY <1>1, <1>2
<1>5. (\A x \in Q : <<>> \o x = x) /\ \A x, y \in Q : x \o y \in Q
  BY <1>1, <1>2, <1>3
<1>6. /\ FlattenSeq(<<>>) = <<>>
      /\ FlattenSeq(s) \in Q
      /\ FlattenSeq(Append(s, t)) = FlattenSeq(s) \o t
  BY <1>4, <1>5, FlattenStep DEF Flattens
<1> QED
  BY <1>1, <1>6

-------------------------------------------------------------------------------
(* The statements of a transaction.                                          *)

\* The functions of FIO.Relic that change rows (exp_relic_plugin's statements).
SqlNames ==
    {"insblocks", "instransactions", "instraces",
     "insupdaccounts", "insaccountactivities", "insaccountactivitieshandle",
     "insdomains", "insdomainactivities", "upddomainexp", "upddomainowner",
     "upddomainispublic", "upddomainburnt",
     "insupdhandles", "inshandleactivities", "inshandleactivitiesfiorequest",
     "updhandlessetencryptkey", "updhandlesencryptkey", "updhandleburnt", "updhandlesxferowner",
     "insupdpubaddresses", "delpubaddress", "delpubaddresses", "clearpubaddresses",
     "insupdnftsignatures", "delnftsignature", "delnftsignatures",
     "insfiorequests", "insfiodatas", "updfiorequestsstatus",
     "instokentransfers", "instokenstakings"}

\* A concatenation of sequences over S is one.
LEMMA FlattenType ==
    ASSUME NEW S, NEW n \in Nat, NEW g \in [1 .. n -> Seq(S)]
    PROVE  FlattenSeq(g) \in Seq(S)
<1>1. g \in Seq(Seq(S))
  <2>1. PICK Q : Q = Seq(S)
    OBVIOUS
  <2>2. g \in [1 .. n -> Q]
    BY <2>1
  <2>3. g \in Seq(Q)
    BY <2>2
  <2> QED
    BY <2>1, <2>3
<1>2. <<>> \in Seq(S)
  BY EmptySeq
<1> QED
  BY <1>1, <1>2, FlattenProperties

\* The tables of actions without lists give names of statements (TX_TRACE).
LEMMA SimpleTables ==
    ASSUME NEW a
    PROVE  /\ \A name \in DOMAIN Registrations(a) : Registrations(a)[name] \in Seq(SqlNames)
           /\ \A name \in DOMAIN DomainUpdates(a) : DomainUpdates(a)[name] \in Seq(SqlNames)
           /\ \A name \in DOMAIN DomainWrapping : DomainWrapping[name] \in Seq(SqlNames)
           /\ \A name \in DOMAIN HandleUpdates : HandleUpdates[name] \in Seq(SqlNames)
           /\ \A name \in DOMAIN Requests : Requests[name] \in Seq(SqlNames)
           /\ \A name \in DOMAIN HandleRegistration(a) :
                 HandleRegistration(a)[name] \in Seq(SqlNames)
           /\ \A name \in DOMAIN HandleTransfer(a) : HandleTransfer(a)[name] \in Seq(SqlNames)
           /\ \A name \in DOMAIN Tokens : Tokens[name] \in Seq(SqlNames)
<1>1. PICK S : S = SqlNames
  OBVIOUS
<1>2. Account(a) \in Seq(S) /\ When(a.key = "other", "insaccountactivities") \in Seq(S)
  <2>1. "insupdaccounts" \in S /\ "insaccountactivities" \in S
    BY <1>1 DEF SqlNames
  <2> QED
    BY <2>1 DEF When, Account
<1>3. \A name \in DOMAIN Registrations(a) : Registrations(a)[name] \in Seq(S)
  <2>1. Registrations(a).regdomain \in Seq(S) /\ Registrations(a).regdomadd \in Seq(S)
    BY <1>1, <1>2 DEF Registrations, SqlNames
  <2> QED
    BY <2>1 DEF Registrations
<1>4. \A name \in DOMAIN DomainUpdates(a) : DomainUpdates(a)[name] \in Seq(S)
  <2>1. /\ DomainUpdates(a).renewdomain \in Seq(S) /\ DomainUpdates(a).xferdomain \in Seq(S)
        /\ DomainUpdates(a).setdomainpub \in Seq(S)
    BY <1>1, <1>2 DEF DomainUpdates, SqlNames
  <2> QED
    BY <2>1 DEF DomainUpdates
<1>5. \A name \in DOMAIN DomainWrapping : DomainWrapping[name] \in Seq(S)
  <2>1. DomainWrapping.wrapdomain \in Seq(S) /\ DomainWrapping.xferescrow \in Seq(S)
    BY <1>1 DEF DomainWrapping, SqlNames
  <2> QED
    BY <2>1 DEF DomainWrapping
<1>6. \A name \in DOMAIN HandleUpdates : HandleUpdates[name] \in Seq(S)
  <2>1. HandleUpdates.updcryptkey \in Seq(S) /\ HandleUpdates.burnaddress \in Seq(S)
    BY <1>1 DEF HandleUpdates, SqlNames
  <2> QED
    BY <2>1 DEF HandleUpdates
<1>7. \A name \in DOMAIN Requests : Requests[name] \in Seq(S)
  <2>1. /\ Requests.newfundsreq \in Seq(S) /\ Requests.recordobt \in Seq(S)
        /\ Requests.cancelfndreq \in Seq(S) /\ Requests.rejectfndreq \in Seq(S)
    BY <1>1 DEF Requests, SqlNames
  <2> QED
    BY <2>1 DEF Requests
<1>8. \A name \in DOMAIN HandleRegistration(a) : HandleRegistration(a)[name] \in Seq(S)
  <2>1. HandleRegistration(a).regaddress \in Seq(S)
    BY <1>1, <1>2 DEF HandleRegistration, SqlNames
  <2> QED
    BY <2>1 DEF HandleRegistration
<1>9. \A name \in DOMAIN HandleTransfer(a) : HandleTransfer(a)[name] \in Seq(S)
  <2>1. HandleTransfer(a).xferaddress \in Seq(S)
    BY <1>1, <1>2 DEF HandleTransfer, SqlNames
  <2> QED
    BY <2>1 DEF HandleTransfer
<1>10. \A name \in DOMAIN Tokens : Tokens[name] \in Seq(S)
  <2>1. /\ Tokens.trnsfiopubky \in Seq(S) /\ Tokens.trnsloctoks \in Seq(S)
        /\ Tokens.stakefio \in Seq(S) /\ Tokens.unstakefio \in Seq(S)
        /\ Tokens.retire \in Seq(S)
    BY <1>1 DEF Tokens, SqlNames
  <2> QED
    BY <2>1 DEF Tokens
<1> QED
  BY <1>1, <1>3, <1>4, <1>5, <1>6, <1>7, <1>8, <1>9, <1>10

\* So do the tables of actions with a list, whatever the list (TX_TRACE).
LEMMA ListTables ==
    ASSUME NEW a \in Actions
    PROVE  /\ \A name \in DOMAIN Nfts(a) : Nfts(a)[name] \in Seq(SqlNames)
           /\ \A name \in DOMAIN Addresses(a) : Addresses(a)[name] \in Seq(SqlNames)
           /\ \A name \in DOMAIN Fip48 : Fip48[name] \in Seq(SqlNames)
<1>1. PICK S : S = SqlNames
  OBVIOUS
<1>2. PICK n \in Nat : DOMAIN a.items = 1 .. n
  <2>1. a.items \in Seq({"FIO", "other"})
    BY DEF Actions
  <2> QED
    BY <2>1, ElementOfSeq
<1>3. \A name \in DOMAIN Nfts(a) : Nfts(a)[name] \in Seq(S)
  <2> DEFINE added   == [i \in 1 .. n |-> <<"insupdnftsignatures">>]
             removed == [i \in 1 .. n |-> <<"delnftsignature">>]
  <2>1. added \in [1 .. n -> Seq(S)] /\ removed \in [1 .. n -> Seq(S)]
    BY <1>1 DEF SqlNames
  <2>2. FlattenSeq(added) \in Seq(S) /\ FlattenSeq(removed) \in Seq(S)
    <3> HIDE DEF added, removed
    <3> QED
      BY <2>1, FlattenType
  <2>3. /\ ForEach(a.items, LAMBDA nft : <<"insupdnftsignatures">>) = FlattenSeq(added)
        /\ ForEach(a.items, LAMBDA nft : <<"delnftsignature">>) = FlattenSeq(removed)
    BY <1>2 DEF ForEach
  <2> HIDE DEF added, removed
  <2>4. "inshandleactivities" \in S /\ "delnftsignatures" \in S
    BY <1>1 DEF SqlNames
  <2>5. /\ Nfts(a).addnft = <<"inshandleactivities">> \o FlattenSeq(added)
        /\ Nfts(a).remnft = <<"inshandleactivities">> \o FlattenSeq(removed)
    BY <2>3 DEF Nfts
  <2>6. Nfts(a).addnft \in Seq(S) /\ Nfts(a).remnft \in Seq(S)
    BY <2>2, <2>4, <2>5
  <2>7. /\ Nfts(a).renewaddress = <<"inshandleactivities">>
        /\ Nfts(a).addbundles = <<"inshandleactivities">>
        /\ Nfts(a).remallnfts = <<"inshandleactivities", "delnftsignatures">>
    BY DEF Nfts
  <2>8. /\ Nfts(a).renewaddress \in Seq(S) /\ Nfts(a).addbundles \in Seq(S)
        /\ Nfts(a).remallnfts \in Seq(S)
    BY <2>4, <2>7
  <2> QED
    BY <2>6, <2>8 DEF Nfts
<1>4. \A name \in DOMAIN Addresses(a) : Addresses(a)[name] \in Seq(S)
  <2> DEFINE Added(chain) == <<"inshandleactivities", "insupdpubaddresses">>
                             \o When(chain = "FIO", "updhandlesencryptkey")
             added   == [i \in 1 .. n |-> Added(a.items[i])]
             removed == [i \in 1 .. n |-> <<"inshandleactivities", "delpubaddress">>]
  <2>1. removed \in [1 .. n -> Seq(S)]
    BY <1>1 DEF SqlNames
  <2>2. added \in [1 .. n -> Seq(S)]
    <3>1. ASSUME NEW chain PROVE Added(chain) \in Seq(S)
      <4>1. /\ "inshandleactivities" \in S /\ "insupdpubaddresses" \in S
            /\ "updhandlesencryptkey" \in S
        BY <1>1 DEF SqlNames
      <4> QED
        BY <4>1 DEF When
    <3> HIDE DEF Added
    <3> QED
      BY <3>1
  <2>3. FlattenSeq(added) \in Seq(S) /\ FlattenSeq(removed) \in Seq(S)
    <3> HIDE DEF added, removed
    <3> QED
      BY <2>1, <2>2, FlattenType
  <2>4. /\ Addresses(a).addaddress = FlattenSeq(added)
        /\ Addresses(a).remaddress = FlattenSeq(removed)
    BY <1>2 DEF Addresses, ForEach
  <2> HIDE DEF added, removed
  <2>5. Addresses(a).remalladdr \in Seq(S)
    <3>1. "inshandleactivities" \in S /\ "clearpubaddresses" \in S
      BY <1>1 DEF SqlNames
    <3>2. Addresses(a).remalladdr = <<"inshandleactivities", "clearpubaddresses">>
      BY DEF Addresses
    <3> QED
      BY <3>1, <3>2
  <2> QED
    BY <2>3, <2>4, <2>5 DEF Addresses
<1>5. \A name \in DOMAIN Fip48 : Fip48[name] \in Seq(S)
  <2> DEFINE transfers == [i \in 1 .. Fip48Transfers |->
                  <<"instokentransfers", "insaccountactivities", "insaccountactivities">>]
  <2>1. transfers \in [1 .. 13 -> Seq(S)]
    BY <1>1 DEF SqlNames, Fip48Transfers
  <2>2. FlattenSeq(transfers) \in Seq(S)
    <3> HIDE DEF transfers
    <3> QED
      BY <2>1, FlattenType
  <2>3. Fip48.fipxlviii = FlattenSeq(transfers)
    BY DEF Fip48
  <2> HIDE DEF transfers
  <2> QED
    BY <2>2, <2>3 DEF Fip48
<1> QED
  BY <1>1, <1>3, <1>4, <1>5

StatementRecords == [sql : SqlNames, of : STRING \cup {""}]

\* What a transaction's own action does is a list of statements (TX_TRACE).
LEMMA RelicActionsType ==
    ASSUME NEW a \in Actions PROVE RelicActions(a) \in Seq(SqlNames)
<1> DEFINE Rows(table) == IF a.name \in DOMAIN table THEN table[a.name] ELSE <<>>
           tables == <<Registrations(a), DomainUpdates(a), DomainWrapping, HandleUpdates,
                       Requests, HandleRegistration(a), Nfts(a), HandleTransfer(a),
                       Addresses(a), Tokens, Fip48>>
           rowsOf == [i \in 1 .. 11 |-> Rows(tables[i])]
<1>1. PICK S : S = SqlNames
  OBVIOUS
<1>2. ASSUME NEW table, \A name \in DOMAIN table : table[name] \in Seq(S)
      PROVE  Rows(table) \in Seq(S)
  BY <1>2
<1> HIDE DEF Rows
<1>3. /\ Rows(Registrations(a)) \in Seq(S) /\ Rows(DomainUpdates(a)) \in Seq(S)
      /\ Rows(DomainWrapping) \in Seq(S) /\ Rows(HandleUpdates) \in Seq(S)
      /\ Rows(Requests) \in Seq(S) /\ Rows(HandleRegistration(a)) \in Seq(S)
      /\ Rows(HandleTransfer(a)) \in Seq(S) /\ Rows(Tokens) \in Seq(S)
  BY <1>1, <1>2, SimpleTables
<1>4. /\ Rows(Nfts(a)) \in Seq(S) /\ Rows(Addresses(a)) \in Seq(S) /\ Rows(Fip48) \in Seq(S)
  BY <1>1, <1>2, ListTables
<1>5. ASSUME NEW i \in 1 .. 11 PROVE Rows(tables[i]) \in Seq(S)
  <2>1. /\ tables[1] = Registrations(a) /\ tables[2] = DomainUpdates(a)
        /\ tables[3] = DomainWrapping /\ tables[4] = HandleUpdates
        /\ tables[5] = Requests /\ tables[6] = HandleRegistration(a)
        /\ tables[7] = Nfts(a) /\ tables[8] = HandleTransfer(a)
        /\ tables[9] = Addresses(a) /\ tables[10] = Tokens /\ tables[11] = Fip48
    OBVIOUS
  <2> HIDE DEF tables
  <2>2. i \in {1, 2, 3, 4, 5, 6, 7, 8, 9, 10, 11}
    OBVIOUS
  <2> QED
    BY <1>3, <1>4, <2>1, <2>2
<1>6. DOMAIN tables = 1 .. 11
  OBVIOUS
<1> HIDE DEF tables
<1>7. rowsOf \in [1 .. 11 -> Seq(S)]
  BY <1>5
<1> HIDE DEF rowsOf
<1>8. FlattenSeq(rowsOf) \in Seq(S)
  BY <1>7, FlattenType
<1>9. RelicActions(a) = FlattenSeq(rowsOf)
  BY <1>6 DEF RelicActions, ForEach, rowsOf, tables, Rows
<1> QED
  BY <1>1, <1>8, <1>9

\* A transaction's statements, by action and as a whole (TX_TRACE).
LEMMA ActionStatementsType ==
    ASSUME NEW actions \in Seq(Actions), NEW i \in DOMAIN actions
    PROVE  ActionStatements(actions, i) \in Seq(StatementRecords)
<1> DEFINE a == actions[i]
<1>1. PICK S : S = SqlNames
  OBVIOUS
<1>2. a \in Actions
  BY ElementOfSeq
<1>3. RelicActions(a) \in Seq(S)
  BY <1>1, <1>2, RelicActionsType
<1>4. /\ "instransactions" \in S /\ "instraces" \in S /\ "instokentransfers" \in S
      /\ "insupdaccounts" \in S /\ "insaccountactivities" \in S
  BY <1>1 DEF SqlNames
<1>5. TokenActions(a) \in Seq(S)
  BY <1>4 DEF TokenActions
<1> DEFINE earlier == \E j \in 1 .. i - 1 : Recorded(actions[j])
           sql == (IF Recorded(a) THEN <<"instransactions">> \o RelicActions(a)
                   ELSE When(earlier, "instraces")) \o TokenActions(a)
<1>6. When(earlier, "instraces") \in Seq(S)
  <2> HIDE DEF earlier
  <2> QED
    BY <1>4 DEF When
<1>7. <<"instransactions">> \o RelicActions(a) \in Seq(S)
  BY <1>3, <1>4
<1>8. sql \in Seq(S)
  <2> HIDE DEF earlier, a
  <2> QED
    BY <1>5, <1>6, <1>7
<1>9. ActionStatements(actions, i) = [k \in DOMAIN sql |-> Statement(sql[k], a.of)]
  BY DEF ActionStatements
<1> HIDE DEF sql
<1>10. PICK n \in Nat : sql \in [1 .. n -> S]
  BY <1>8
<1>11. a.of \in STRING
  <2> HIDE DEF a
  <2> QED
    BY <1>2 DEF Actions
<1>12. \A k \in 1 .. n : Statement(sql[k], a.of) \in StatementRecords
  BY <1>1, <1>10, <1>11 DEF Statement, StatementRecords
<1>13. [k \in 1 .. n |-> Statement(sql[k], a.of)] \in Seq(StatementRecords)
  BY <1>12
<1> QED
  BY <1>9, <1>10, <1>13

-------------------------------------------------------------------------------
(* What the blocks need, message by message.                                 *)

\* The first j members.
FirstOf(g, j) == [i \in 1 .. j |-> g[i]]

\* A concatenation grows by what is concatenated last.
LEMMA FlattenGrows ==
    ASSUME NEW S, NEW n \in Nat, NEW g \in [1 .. n -> Seq(S)], NEW j \in 0 .. n
    PROVE  /\ FlattenSeq(FirstOf(g, j)) \in Seq(S)
           /\ j = 0 => FlattenSeq(FirstOf(g, j)) = <<>>
           /\ j < n => FlattenSeq(FirstOf(g, j + 1)) = FlattenSeq(FirstOf(g, j)) \o g[j + 1]
<1> DEFINE before == [i \in 1 .. j |-> g[i]]
           after  == [i \in 1 .. j + 1 |-> g[i]]
<1>1. before \in [1 .. j -> Seq(S)]
  <2>1. PICK Q : Q = Seq(S)
    OBVIOUS
  <2>2. \A i \in 1 .. j : i \in 1 .. n
    OBVIOUS
  <2> QED
    BY <2>1, <2>2
<1>2. FlattenSeq(before) \in Seq(S)
  <2> HIDE DEF before
  <2> QED
    BY <1>1, FlattenType
<1>3. ASSUME j = 0 PROVE FlattenSeq(before) = <<>>
  <2>1. before = <<>>
    BY <1>3
  <2>2. PICK t : t \in Seq(S)
    BY EmptySeq
  <2>3. <<>> \in Seq(Seq(S))
    BY EmptySeq
  <2>4. FlattenSeq(<<>>) = <<>>
    BY <2>2, <2>3, FlattenProperties
  <2> QED
    BY <2>1, <2>4
<1>4. ASSUME j < n PROVE FlattenSeq(after) = FlattenSeq(before) \o g[j + 1]
  <2>1. PICK Q : Q = Seq(S)
    OBVIOUS
  <2>2. before \in Seq(Q) /\ g[j + 1] \in Q
    BY <1>1, <1>4, <2>1
  <2>3. after = Append(before, g[j + 1])
    <3>1. Len(before) = j
      OBVIOUS
    <3>2. DOMAIN Append(before, g[j + 1]) = 1 .. j + 1
      OBVIOUS
    <3>3. ASSUME NEW i \in 1 .. j + 1 PROVE after[i] = Append(before, g[j + 1])[i]
      OBVIOUS
    <3> QED
      BY <2>2, <3>1, <3>2, <3>3
  <2> HIDE DEF before, after
  <2> QED
    BY <2>1, <2>2, <2>3, FlattenProperties
<1>5. before = FirstOf(g, j) /\ after = FirstOf(g, j + 1)
  BY DEF FirstOf
<1> HIDE DEF before, after
<1> QED
  BY <1>2, <1>3, <1>4, <1>5

\* The statements of one message of a block, and of the first j of them.
OfMessage(m) == IF m.type = "TX_TRACE" THEN TransactionStatements[m] ELSE <<>>
DoneContent(n, j) == FlattenSeq([i \in 1 .. j |-> OfMessage(Content[n][i])])

\* The messages of a block are rows and transactions (receiver_plugin's export).
LEMMA ContentType ==
    ASSUME NEW n \in BlockNums
    PROVE  /\ Content[n] \in Seq(Messages)
           /\ Len(Content[n]) \in Nat
           /\ \A i \in 1 .. Len(Content[n]) :
                 /\ Content[n][i] \in Messages
                 /\ Content[n][i].type \in {"TBL_ROW", "TX_TRACE"}
                 /\ Content[n][i].type = "TX_TRACE" => Content[n][i].actions \in Seq(Actions)
                 /\ Content[n][i].type = "TBL_ROW" => Content[n][i].of \in STRING
<1>1. Content[n] \in Seq(Messages)
  BY RelicAssumption
<1>2. Len(Content[n]) \in Nat /\ \A i \in 1 .. Len(Content[n]) : Content[n][i] \in Messages
  BY <1>1, ElementOfSeq
<1>3. ASSUME NEW m \in Messages
      PROVE  /\ m.type \in {"TBL_ROW", "TX_TRACE"}
             /\ m.type = "TX_TRACE" => m.actions \in Seq(Actions)
             /\ m.type = "TBL_ROW" => m.of \in STRING
  <2>1. PICK A : A = Seq(Actions)
    OBVIOUS
  <2> QED
    BY <2>1 DEF Messages
<1> QED
  BY <1>1, <1>2, <1>3

\* The statements of a message are statements.
LEMMA OfMessageType ==
    ASSUME NEW n \in BlockNums, NEW j \in 1 .. Len(Content[n])
    PROVE  OfMessage(Content[n][j]) \in Seq(StatementRecords)
<1> DEFINE m == Content[n][j]
<1>1. CASE m.type = "TX_TRACE"
  <2>1. m \in ToSet(Content[n]) /\ m.actions \in Seq(Actions)
    BY <1>1, ContentType DEF ToSet
  <2> DEFINE of == [i \in DOMAIN m.actions |-> ActionStatements(m.actions, i)]
  <2>2. TransactionStatements[m] = FlattenSeq(of)
    BY <1>1, <2>1 DEF TransactionStatements
  <2>3. PICK k \in Nat : DOMAIN m.actions = 1 .. k
    BY <2>1, ElementOfSeq
  <2>4. of \in [1 .. k -> Seq(StatementRecords)]
    <3> HIDE DEF m
    <3> QED
      BY <2>1, <2>3, ActionStatementsType
  <2> HIDE DEF of, m
  <2> QED
    BY <1>1, <2>2, <2>4, FlattenType DEF OfMessage, m
<1>2. CASE m.type # "TX_TRACE"
  BY <1>2, EmptySeq DEF OfMessage
<1> QED
  BY <1>1, <1>2

\* The content's statements grow message by message (async_send_events).
LEMMA DoneContentGrows ==
    ASSUME NEW n \in BlockNums, NEW j \in 0 .. Len(Content[n])
    PROVE  /\ DoneContent(n, j) \in Seq(StatementRecords)
           /\ j = 0 => DoneContent(n, j) = <<>>
           /\ j < Len(Content[n]) => DoneContent(n, j + 1)
                                     = DoneContent(n, j) \o OfMessage(Content[n][j + 1])
<1>1. PICK k \in Nat : k = Len(Content[n])
  BY ContentType
<1> DEFINE g == [i \in 1 .. k |-> OfMessage(Content[n][i])]
<1>2. g \in [1 .. k -> Seq(StatementRecords)]
  BY <1>1, OfMessageType
<1>3. /\ \A i \in 1 .. k : g[i] = OfMessage(Content[n][i])
      /\ j \in 0 .. k
  BY <1>1
<1> HIDE DEF g
<1>4. /\ FlattenSeq(FirstOf(g, j)) \in Seq(StatementRecords)
      /\ j = 0 => FlattenSeq(FirstOf(g, j)) = <<>>
      /\ j < k => FlattenSeq(FirstOf(g, j + 1)) = FlattenSeq(FirstOf(g, j)) \o g[j + 1]
  BY <1>2, <1>3, FlattenGrows
<1>5. FirstOf(g, j) = [i \in 1 .. j |-> OfMessage(Content[n][i])]
  BY <1>3 DEF FirstOf
<1>6. j < k => /\ FirstOf(g, j + 1) = [i \in 1 .. j + 1 |-> OfMessage(Content[n][i])]
               /\ g[j + 1] = OfMessage(Content[n][j + 1])
  BY <1>3 DEF FirstOf
<1> QED
  BY <1>1, <1>4, <1>5, <1>6 DEF DoneContent

-------------------------------------------------------------------------------
(* The domains and handles burnt at the end of a block.                      *)

\* A record of a removed row, as domainjsons and handlejsons have it.
RemovedRows == [of : STRING, num : Nat]

\* What the collected rows of block n make the end of the block burn.
DomainBurn(row, n) == IF row.num = n THEN Burnt("domains", row.of) ELSE <<>>
HandleBurn(row, n, B) == IF row.num = n /\ row.of \notin B THEN Burnt("fiohandles", row.of) ELSE <<>>
DomainBurns(list, n) == FlattenSeq([i \in DOMAIN list |-> DomainBurn(list[i], n)])
HandleBurns(list, n, B) == FlattenSeq([i \in DOMAIN list |-> HandleBurn(list[i], n, B)])

\* What the first j messages of block n contribute to it.
DomainOf(m) == IF RowOf(m, "domains") THEN Burnt("domains", m.of) ELSE <<>>
HandleOf(m, B) == IF RowOf(m, "fiohandles") /\ m.of \notin B THEN Burnt("fiohandles", m.of) ELSE <<>>
DomainsUpTo(n, j) == FlattenSeq([i \in 1 .. j |-> DomainOf(Content[n][i])])
HandlesUpTo(n, j) ==
    FlattenSeq([i \in 1 .. j |-> HandleOf(Content[n][i], BurntBy(n, "burnaddress"))])

\* The lists after the first j messages of block n.
ListsAt(n, j) ==
    /\ burnexpiredthisblock = (\E i \in 1 .. j : Objects(Content[n][i], "burnexpired") # {})
    /\ burnaddresses = UNION {Objects(Content[n][i], "burnaddress") : i \in 1 .. j}
    /\ domainjsons \in Seq(RemovedRows) /\ handlejsons \in Seq(RemovedRows)
    /\ DomainBurns(domainjsons, n) = DomainsUpTo(n, j)
    /\ HandleBurns(handlejsons, n, BurntBy(n, "burnaddress")) = HandlesUpTo(n, j)

ListsEmpty ==
    /\ domainjsons = <<>> /\ handlejsons = <<>> /\ burnaddresses = {}
    /\ burnexpiredthisblock = FALSE

\* The statements of a burnt domain or handle (exp_relic_plugin's burnexpired).
LEMMA BurntType ==
    ASSUME NEW table, NEW name \in STRING
    PROVE  Burnt(table, name) \in Seq(StatementRecords)
<1>1. PICK S : S = StatementRecords
  OBVIOUS
<1>2. /\ Statement("upddomainburnt", name) \in S /\ Statement("insdomainactivities", name) \in S
      /\ Statement("updhandleburnt", name) \in S /\ Statement("inshandleactivities", name) \in S
  <2>1. /\ "upddomainburnt" \in SqlNames /\ "insdomainactivities" \in SqlNames
        /\ "updhandleburnt" \in SqlNames /\ "inshandleactivities" \in SqlNames
    BY DEF SqlNames
  <2> QED
    BY <1>1, <2>1 DEF Statement, StatementRecords
<1>3. \A x \in S : \A b \in BOOLEAN : <<x>> \in Seq(S) /\ When(b, x) \in Seq(S)
  BY DEF When
<1>4. \A t, u \in Seq(S) : t \o u \in Seq(S)
  OBVIOUS
<1>5. \A x, y \in S : \A b \in BOOLEAN : <<x>> \o When(b, y) \in Seq(S)
  BY <1>3, <1>4
<1>6. (name \in KnownNames) \in BOOLEAN
  OBVIOUS
<1> QED
  BY <1>1, <1>2, <1>5, <1>6 DEF Burnt

\* What a message contributes to the burns is statements (BLOCK_COMPLETED).
LEMMA BurnsOfType ==
    ASSUME NEW n \in BlockNums, NEW j \in 1 .. Len(Content[n]), NEW B
    PROVE  /\ DomainOf(Content[n][j]) \in Seq(StatementRecords)
           /\ HandleOf(Content[n][j], B) \in Seq(StatementRecords)
<1> DEFINE m == Content[n][j]
<1>1. m.type = "TBL_ROW" => m.of \in STRING
  BY ContentType
<1>2. <<>> \in Seq(StatementRecords)
  BY EmptySeq
<1> HIDE DEF m
<1>3. DomainOf(m) \in Seq(StatementRecords)
  BY <1>1, <1>2, BurntType DEF DomainOf, RowOf
<1>4. HandleOf(m, B) \in Seq(StatementRecords)
  BY <1>1, <1>2, BurntType DEF HandleOf, RowOf
<1> QED
  BY <1>3, <1>4 DEF m

\* The expected burns grow message by message (BLOCK_COMPLETED).
LEMMA BurnsGrow ==
    ASSUME NEW n \in BlockNums, NEW j \in 0 .. Len(Content[n])
    PROVE  /\ DomainsUpTo(n, j) \in Seq(StatementRecords)
           /\ HandlesUpTo(n, j) \in Seq(StatementRecords)
           /\ j = 0 => DomainsUpTo(n, j) = <<>> /\ HandlesUpTo(n, j) = <<>>
           /\ j < Len(Content[n]) =>
                 /\ DomainsUpTo(n, j + 1) = DomainsUpTo(n, j) \o DomainOf(Content[n][j + 1])
                 /\ HandlesUpTo(n, j + 1) = HandlesUpTo(n, j)
                       \o HandleOf(Content[n][j + 1], BurntBy(n, "burnaddress"))
<1>1. PICK k \in Nat : k = Len(Content[n])
  BY ContentType
<1>2. PICK B : B = BurntBy(n, "burnaddress")
  OBVIOUS
<1> DEFINE d == [i \in 1 .. k |-> DomainOf(Content[n][i])]
           h == [i \in 1 .. k |-> HandleOf(Content[n][i], B)]
<1>3. /\ d \in [1 .. k -> Seq(StatementRecords)]
      /\ h \in [1 .. k -> Seq(StatementRecords)]
  BY <1>1, BurnsOfType
<1>4. /\ \A i \in 1 .. k : d[i] = DomainOf(Content[n][i]) /\ h[i] = HandleOf(Content[n][i], B)
      /\ j \in 0 .. k
  BY <1>1
<1> HIDE DEF d, h
<1>5. /\ FlattenSeq(FirstOf(d, j)) \in Seq(StatementRecords)
      /\ j = 0 => FlattenSeq(FirstOf(d, j)) = <<>>
      /\ j < k => FlattenSeq(FirstOf(d, j + 1)) = FlattenSeq(FirstOf(d, j)) \o d[j + 1]
  BY <1>3, <1>4, FlattenGrows
<1>6. /\ FlattenSeq(FirstOf(h, j)) \in Seq(StatementRecords)
      /\ j = 0 => FlattenSeq(FirstOf(h, j)) = <<>>
      /\ j < k => FlattenSeq(FirstOf(h, j + 1)) = FlattenSeq(FirstOf(h, j)) \o h[j + 1]
  BY <1>3, <1>4, FlattenGrows
<1>7. /\ FirstOf(d, j) = [i \in 1 .. j |-> DomainOf(Content[n][i])]
      /\ FirstOf(h, j) = [i \in 1 .. j |-> HandleOf(Content[n][i], B)]
  BY <1>4 DEF FirstOf
<1>8. j < k => /\ FirstOf(d, j + 1) = [i \in 1 .. j + 1 |-> DomainOf(Content[n][i])]
               /\ FirstOf(h, j + 1) = [i \in 1 .. j + 1 |-> HandleOf(Content[n][i], B)]
               /\ d[j + 1] = DomainOf(Content[n][j + 1])
               /\ h[j + 1] = HandleOf(Content[n][j + 1], B)
  BY <1>4 DEF FirstOf
<1>9. /\ FlattenSeq(FirstOf(d, j)) = DomainsUpTo(n, j)
      /\ FlattenSeq(FirstOf(h, j)) = HandlesUpTo(n, j)
  BY <1>2, <1>7 DEF DomainsUpTo, HandlesUpTo
<1>10. j < k => /\ FlattenSeq(FirstOf(d, j + 1)) = DomainsUpTo(n, j + 1)
                /\ FlattenSeq(FirstOf(h, j + 1)) = HandlesUpTo(n, j + 1)
  BY <1>2, <1>8 DEF DomainsUpTo, HandlesUpTo
<1> QED
  BY <1>1, <1>2, <1>5, <1>6, <1>8, <1>9, <1>10

\* Empty lists burn nothing (BLOCK_COMPLETED).
LEMMA NoBurns ==
    ASSUME NEW n, NEW B
    PROVE  DomainBurns(<<>>, n) = <<>> /\ HandleBurns(<<>>, n, B) = <<>>
<1>1. FlattenSeq(<<>>) = <<>>
  BY DEF FlattenSeq
<1>2. /\ [i \in DOMAIN <<>> |-> DomainBurn(<<>>[i], n)] = <<>>
      /\ [i \in DOMAIN <<>> |-> HandleBurn(<<>>[i], n, B)] = <<>>
  OBVIOUS
<1> QED
  BY <1>1, <1>2 DEF DomainBurns, HandleBurns

\* The lists' burns grow with the rows they take (BLOCK_COMPLETED).
LEMMA ListBurns ==
    ASSUME NEW n, NEW B, NEW list \in Seq(RemovedRows), NEW row \in RemovedRows
    PROVE  /\ DomainBurns(list \o <<row>>, n) = DomainBurns(list, n) \o DomainBurn(row, n)
           /\ HandleBurns(list \o <<row>>, n, B) = HandleBurns(list, n, B) \o HandleBurn(row, n, B)
<1> DEFINE S == StatementRecords
           longer == Append(list, row)
<1>1. PICK k \in Nat : k = Len(list)
  OBVIOUS
<1>2. /\ longer = list \o <<row>> /\ DOMAIN longer = 1 .. k + 1 /\ DOMAIN list = 1 .. k
      /\ longer[k + 1] = row /\ \A i \in 1 .. k : longer[i] = list[i]
      /\ \A i \in 1 .. k + 1 : longer[i] \in RemovedRows
  BY <1>1, AppendIsConcat, AppendProperties
<1> HIDE DEF longer
<1>3. ASSUME NEW x \in RemovedRows
      PROVE  DomainBurn(x, n) \in Seq(S) /\ HandleBurn(x, n, B) \in Seq(S)
  <2>1. x.of \in STRING
    BY DEF RemovedRows
  <2> QED
    BY <2>1, BurntType, EmptySeq DEF DomainBurn, HandleBurn
<1> DEFINE d == [i \in 1 .. k + 1 |-> DomainBurn(longer[i], n)]
           h == [i \in 1 .. k + 1 |-> HandleBurn(longer[i], n, B)]
<1>4. d \in [1 .. k + 1 -> Seq(S)] /\ h \in [1 .. k + 1 -> Seq(S)]
  <2> HIDE DEF S
  <2> QED
    BY <1>2, <1>3
<1>5. /\ FirstOf(d, k) = [i \in DOMAIN list |-> DomainBurn(list[i], n)]
      /\ FirstOf(h, k) = [i \in DOMAIN list |-> HandleBurn(list[i], n, B)]
      /\ FirstOf(d, k + 1) = [i \in DOMAIN longer |-> DomainBurn(longer[i], n)]
      /\ FirstOf(h, k + 1) = [i \in DOMAIN longer |-> HandleBurn(longer[i], n, B)]
      /\ d[k + 1] = DomainBurn(row, n) /\ h[k + 1] = HandleBurn(row, n, B)
  BY <1>2 DEF FirstOf
<1> HIDE DEF d, h, S
<1>6. FlattenSeq(FirstOf(d, k + 1)) = FlattenSeq(FirstOf(d, k)) \o d[k + 1]
  <2>1. PICK l \in Nat : l = k + 1
    OBVIOUS
  <2>2. d \in [1 .. l -> Seq(S)] /\ k \in 0 .. l /\ k < l
    BY <1>4, <2>1
  <2> QED
    BY <2>2, FlattenGrows
<1>7. FlattenSeq(FirstOf(h, k + 1)) = FlattenSeq(FirstOf(h, k)) \o h[k + 1]
  <2>1. PICK l \in Nat : l = k + 1
    OBVIOUS
  <2>2. h \in [1 .. l -> Seq(S)] /\ k \in 0 .. l /\ k < l
    BY <1>4, <2>1
  <2> QED
    BY <2>2, FlattenGrows
<1>8. /\ DomainBurns(list, n) = FlattenSeq(FirstOf(d, k))
       /\ HandleBurns(list, n, B) = FlattenSeq(FirstOf(h, k))
       /\ DomainBurns(longer, n) = FlattenSeq(FirstOf(d, k + 1))
       /\ HandleBurns(longer, n, B) = FlattenSeq(FirstOf(h, k + 1))
  BY <1>5 DEF DomainBurns, HandleBurns
<1> QED
  BY <1>2, <1>5, <1>6, <1>7, <1>8

\* Empty lists are those of a block of which nothing is handled yet.
LEMMA ListsBegin ==
    ASSUME NEW n \in BlockNums, ListsEmpty PROVE ListsAt(n, 0)
<1>1. <<>> \in Seq(RemovedRows)
  BY EmptySeq
<1>2. /\ DomainBurns(<<>>, n) = <<>>
      /\ HandleBurns(<<>>, n, BurntBy(n, "burnaddress")) = <<>>
  BY NoBurns
<1>3. 0 \in 0 .. Len(Content[n])
  BY ContentType
<1>4. DomainsUpTo(n, 0) = <<>> /\ HandlesUpTo(n, 0) = <<>>
  BY <1>3, BurnsGrow
<1>5. \A i \in 1 .. 0 : FALSE
  OBVIOUS
<1>6. UNION {Objects(Content[n][i], "burnaddress") : i \in 1 .. 0} = {}
  BY <1>5
<1> QED
  BY <1>1, <1>2, <1>4, <1>5, <1>6 DEF ListsAt, ListsEmpty

\* Taking the next message of the content keeps the lists in step with it.
LEMMA ListsStep ==
    ASSUME NEW n \in BlockNums, NEW j \in 0 .. Len(Content[n]) - 1,
           ListsAt(n, j), Collect(Content[n][j + 1], n)
    PROVE  ListsAt(n, j + 1)'
<1> DEFINE m == Content[n][j + 1]
           S == StatementRecords
<1>1. PICK B : B = BurntBy(n, "burnaddress")
  OBVIOUS
<1>2. /\ j \in 0 .. Len(Content[n]) /\ j + 1 \in 1 .. Len(Content[n]) /\ j < Len(Content[n])
      /\ n \in Nat
      /\ \A i \in 1 .. j + 1 : i \in 1 .. j \/ i = j + 1
      /\ 1 .. j + 1 = 1 .. j \cup {j + 1}
  BY ContentType DEF BlockNums
<1>3. m.type = "TBL_ROW" => m.of \in STRING
  BY <1>2, ContentType
<1>4. /\ domainjsons' = domainjsons \o (IF RowOf(m, "domains") THEN <<[of |-> m.of, num |-> n]>> ELSE <<>>)
      /\ handlejsons' = handlejsons \o (IF RowOf(m, "fiohandles") THEN <<[of |-> m.of, num |-> n]>> ELSE <<>>)
      /\ burnaddresses' = burnaddresses \cup Objects(m, "burnaddress")
      /\ burnexpiredthisblock' = (burnexpiredthisblock \/ Objects(m, "burnexpired") # {})
  BY DEF Collect
<1>5. burnexpiredthisblock' = (\E i \in 1 .. j + 1 : Objects(Content[n][i], "burnexpired") # {})
  <2>1. burnexpiredthisblock = (\E i \in 1 .. j : Objects(Content[n][i], "burnexpired") # {})
    BY DEF ListsAt
  <2> QED
    BY <1>2, <1>4, <2>1
<1>6. burnaddresses' = UNION {Objects(Content[n][i], "burnaddress") : i \in 1 .. j + 1}
  <2>1. burnaddresses = UNION {Objects(Content[n][i], "burnaddress") : i \in 1 .. j}
    BY DEF ListsAt
  <2> QED
    BY <1>2, <1>4, <2>1
<1> DEFINE row == [of |-> m.of, num |-> n]
<1>7. m.type = "TBL_ROW" => row \in RemovedRows /\ row.of = m.of /\ row.num = n
  BY <1>2, <1>3 DEF RemovedRows
<1>8. /\ domainjsons \in Seq(RemovedRows) /\ handlejsons \in Seq(RemovedRows)
      /\ DomainBurns(domainjsons, n) = DomainsUpTo(n, j)
      /\ HandleBurns(handlejsons, n, B) = HandlesUpTo(n, j)
  BY <1>1 DEF ListsAt
<1>9. /\ DomainsUpTo(n, j) \in Seq(S) /\ HandlesUpTo(n, j) \in Seq(S)
      /\ DomainsUpTo(n, j + 1) = DomainsUpTo(n, j) \o DomainOf(m)
      /\ HandlesUpTo(n, j + 1) = HandlesUpTo(n, j) \o HandleOf(m, B)
  BY <1>1, <1>2, BurnsGrow
<1> HIDE DEF m, S, row
<1>10. domainjsons' \in Seq(RemovedRows) /\ DomainBurns(domainjsons', n) = DomainsUpTo(n, j + 1)
  <2>1. CASE RowOf(m, "domains")
    <3>1. row \in RemovedRows /\ domainjsons' = domainjsons \o <<row>>
      BY <1>4, <1>7, <2>1 DEF RowOf, row
    <3>2. domainjsons \o <<row>> \in Seq(RemovedRows)
      BY <1>8, <3>1
    <3>3. DomainBurns(domainjsons', n) = DomainBurns(domainjsons, n) \o DomainBurn(row, n)
      BY <1>8, <3>1, ListBurns
    <3>4. DomainBurn(row, n) = DomainOf(m)
      BY <1>7, <2>1 DEF DomainBurn, DomainOf, RowOf
    <3> QED
      BY <1>8, <1>9, <3>1, <3>2, <3>3, <3>4
  <2>2. CASE ~RowOf(m, "domains")
    <3>1. domainjsons' = domainjsons /\ DomainOf(m) = <<>>
      BY <1>4, <1>8, <2>2, ConcatEmptySeq DEF DomainOf
    <3> QED
      BY <1>8, <1>9, <3>1, ConcatEmptySeq
  <2> QED
    BY <2>1, <2>2
<1>11. handlejsons' \in Seq(RemovedRows) /\ HandleBurns(handlejsons', n, B) = HandlesUpTo(n, j + 1)
  <2>1. CASE RowOf(m, "fiohandles")
    <3>1. row \in RemovedRows /\ handlejsons' = handlejsons \o <<row>>
      BY <1>4, <1>7, <2>1 DEF RowOf, row
    <3>2. handlejsons \o <<row>> \in Seq(RemovedRows)
      BY <1>8, <3>1
    <3>3. HandleBurns(handlejsons', n, B) = HandleBurns(handlejsons, n, B) \o HandleBurn(row, n, B)
      BY <1>8, <3>1, ListBurns
    <3>4. HandleBurn(row, n, B) = HandleOf(m, B)
      BY <1>7, <2>1 DEF HandleBurn, HandleOf, RowOf
    <3> QED
      BY <1>8, <1>9, <3>1, <3>2, <3>3, <3>4
  <2>2. CASE ~RowOf(m, "fiohandles")
    <3>1. handlejsons' = handlejsons /\ HandleOf(m, B) = <<>>
      BY <1>4, <1>8, <2>2, ConcatEmptySeq DEF HandleOf
    <3> QED
      BY <1>8, <1>9, <3>1, ConcatEmptySeq
  <2> QED
    BY <2>1, <2>2
<1> QED
  BY <1>1, <1>5, <1>6, <1>10, <1>11 DEF ListsAt

\* At the end of a block the rows and addresses collected are the block's, so it
\* burns what it should (burnexpired).
LEMMA AutoBurnsExpected ==
    ASSUME NEW n \in BlockNums
    PROVE  /\ ExpectedBurns(n) \in Seq(StatementRecords)
           /\ ListsAt(n, Len(Content[n])) => AutoBurns(n) = ExpectedBurns(n)
<1>1. PICK k \in Nat : k = Len(Content[n]) /\ DOMAIN Content[n] = 1 .. k /\ k \in 0 .. k
  BY ContentType
<1>2. PICK B : B = BurntBy(n, "burnaddress")
  OBVIOUS
<1>3. ToSet(Content[n]) = {Content[n][i] : i \in 1 .. k}
  BY <1>1 DEF ToSet
<1>4. B = UNION {Objects(Content[n][i], "burnaddress") : i \in 1 .. k}
  BY <1>2, <1>3 DEF BurntBy
<1>5. (BurntBy(n, "burnexpired") = {}) <=> ~\E i \in 1 .. k : Objects(Content[n][i], "burnexpired") # {}
  BY <1>3 DEF BurntBy
<1>6. ExpectedBurns(n) = IF BurntBy(n, "burnexpired") = {} THEN <<>>
                         ELSE DomainsUpTo(n, k) \o HandlesUpTo(n, k)
  <2>1. [i \in DOMAIN Content[n] |->
           IF RowOf(Content[n][i], "domains") THEN Burnt("domains", Content[n][i].of) ELSE <<>>]
        = [i \in 1 .. k |-> DomainOf(Content[n][i])]
    BY <1>1 DEF DomainOf
  <2>2. [i \in DOMAIN Content[n] |->
           IF RowOf(Content[n][i], "fiohandles")
              /\ Content[n][i].of \notin BurntBy(n, "burnaddress")
           THEN Burnt("fiohandles", Content[n][i].of) ELSE <<>>]
        = [i \in 1 .. k |-> HandleOf(Content[n][i], BurntBy(n, "burnaddress"))]
    BY <1>1 DEF HandleOf
  <2> QED
    BY <2>1, <2>2 DEF ExpectedBurns, ForEach, DomainsUpTo, HandlesUpTo
<1>7. DomainsUpTo(n, k) \in Seq(StatementRecords) /\ HandlesUpTo(n, k) \in Seq(StatementRecords)
  BY <1>1, BurnsGrow
<1>8. ExpectedBurns(n) \in Seq(StatementRecords)
  BY <1>6, <1>7, EmptySeq, ConcatProperties
<1>9. ASSUME ListsAt(n, k) PROVE AutoBurns(n) = ExpectedBurns(n)
  <2>1. /\ burnexpiredthisblock = (\E i \in 1 .. k : Objects(Content[n][i], "burnexpired") # {})
        /\ burnaddresses = B
        /\ DomainBurns(domainjsons, n) = DomainsUpTo(n, k)
        /\ HandleBurns(handlejsons, n, burnaddresses) = HandlesUpTo(n, k)
    BY <1>2, <1>4, <1>9 DEF ListsAt
  <2>2. AutoBurns(n) = IF burnexpiredthisblock
                       THEN DomainBurns(domainjsons, n) \o HandleBurns(handlejsons, n, burnaddresses)
                       ELSE <<>>
    BY DEF AutoBurns, ForEach, DomainBurns, HandleBurns, DomainBurn, HandleBurn
  <2> QED
    BY <1>5, <1>6, <2>1, <2>2
<1> QED
  BY <1>1, <1>8, <1>9

-------------------------------------------------------------------------------
(* The parts of what the database should hold of a block.                    *)

\* The first k rows of a block of which everything is of version v.
Tagged(s, v, k) == [i \in 1 .. k |-> [statement |-> s[i], id |-> v]]
Beginning(n, v, k) == Tagged(ExpectedStatements[n], v, k)

\* How many statements of a block the first k messages are (BLOCK is the first).
Done(n, k) == IF k = 0 THEN 0 ELSE 1 + Len(DoneContent(n, k - 1))
Handled(k) == IF k = 0 THEN 0 ELSE k - 1

\* e has the statements of s behind those of p.
Continues(e, p, s, q, v, k) ==
    /\ Tagged(e, v, Len(p)) \o Tagged(s, v, k) = Tagged(e, v, Len(p) + k)
    /\ Len(e) = Len(p) + Len(s) + Len(q)

\* Statements that follow others in a sequence extend its beginning.
LEMMA TaggedConcat ==
    ASSUME NEW S, NEW p \in Seq(S), NEW s \in Seq(S), NEW q \in Seq(S),
           NEW v, NEW k \in 0 .. Len(s), NEW e, e = (p \o s) \o q
    PROVE  Continues(e, p, s, q, v, k)
<1> DEFINE R == [statement : S, id : {v}]
<1>1. PICK lp \in Nat, ls \in Nat, lq \in Nat : lp = Len(p) /\ ls = Len(s) /\ lq = Len(q)
  BY LenProperties
<1>2. PICK x : x = p \o s
  OBVIOUS
<1>3. /\ x \in Seq(S) /\ Len(x) = lp + ls
      /\ \A i \in 1 .. lp + ls : x[i] = IF i <= lp THEN p[i] ELSE s[i - lp]
  BY <1>1, <1>2, ConcatProperties
<1>4. /\ e \in Seq(S) /\ Len(e) = (lp + ls) + lq
      /\ \A i \in 1 .. (lp + ls) + lq :
            e[i] = IF i <= lp + ls THEN x[i] ELSE q[i - (lp + ls)]
  <2>1. PICK lx \in Nat : lx = lp + ls
    OBVIOUS
  <2>2. e = x \o q /\ Len(x) = lx
    BY <1>2, <1>3, <2>1
  <2>3. /\ x \o q \in Seq(S) /\ Len(x \o q) = Len(x) + Len(q)
        /\ \A i \in 1 .. Len(x) + Len(q) :
              (x \o q)[i] = IF i <= Len(x) THEN x[i] ELSE q[i - Len(x)]
    BY <1>3, ConcatProperties
  <2> QED
    BY <1>1, <2>1, <2>2, <2>3
<1>5. /\ k \in Nat /\ k <= ls
      /\ \A i \in 1 .. lp : e[i] = p[i]
      /\ \A i \in 1 .. k : i \in 1 .. ls /\ e[lp + i] = s[i] /\ e[lp + i] \in S
  <2>1. k \in Nat /\ k <= ls
    BY <1>1
  <2>2. \A i \in 1 .. lp : i \in 1 .. lp + ls /\ i \in 1 .. (lp + ls) + lq /\ i <= lp + ls
    OBVIOUS
  <2>3. \A i \in 1 .. lp : e[i] = p[i]
    BY <1>3, <1>4, <2>2
  <2>4. ASSUME NEW i \in 1 .. k
        PROVE  i \in 1 .. ls /\ e[lp + i] = s[i] /\ e[lp + i] \in S
    <3>1. /\ i \in 1 .. ls /\ lp + i \in 1 .. lp + ls /\ lp + i \in 1 .. (lp + ls) + lq
          /\ lp + i <= lp + ls /\ ~(lp + i <= lp) /\ (lp + i) - lp = i
      BY <2>1
    <3>2. e[lp + i] = s[i]
      BY <1>3, <1>4, <3>1
    <3>3. s[i] \in S
      BY <1>1, <3>1, ElementOfSeq
    <3> QED
      BY <3>1, <3>2, <3>3
  <2> QED
    BY <2>1, <2>3, <2>4
<1>6. PICK lc \in Nat : lc = lp + k
  BY <1>5
<1>7. \A i \in 1 .. lp : e[i] \in S /\ i \in 1 .. lc
  <2>1. \A i \in 1 .. lp : i \in 1 .. lc /\ p[i] \in S
    BY <1>1, <1>5, <1>6, ElementOfSeq
  <2> QED
    BY <1>5, <2>1
<1>8. \A i \in 1 .. lc : i \in 1 .. lp \/ (i - lp \in 1 .. k /\ lp + (i - lp) = i /\ ~(i <= lp))
  BY <1>5, <1>6
<1> DEFINE a == Tagged(e, v, lp)
           b == Tagged(s, v, k)
           c == Tagged(e, v, lc)
<1>9. /\ a \in [1 .. lp -> R] /\ b \in [1 .. k -> R] /\ c \in [1 .. lc -> R]
      /\ \A i \in 1 .. lp : a[i] = [statement |-> e[i], id |-> v]
      /\ \A i \in 1 .. k : b[i] = [statement |-> s[i], id |-> v]
      /\ \A i \in 1 .. lc : c[i] = [statement |-> e[i], id |-> v]
  <2>1. a \in [1 .. lp -> R]
    BY <1>7 DEF Tagged
  <2>2. b \in [1 .. k -> R]
    BY <1>5 DEF Tagged
  <2>3. \A i \in 1 .. lc : e[i] \in S
    <3>1. ASSUME NEW i \in 1 .. lc PROVE e[i] \in S
      <4>1. CASE i \in 1 .. lp
        BY <1>7, <4>1
      <4>2. CASE i - lp \in 1 .. k /\ lp + (i - lp) = i
        <5>1. e[lp + (i - lp)] \in S
          BY <1>5, <4>2
        <5> QED
          BY <4>2, <5>1
      <4> QED
        BY <1>8, <4>1, <4>2
    <3> QED
      BY <3>1
  <2>4. c \in [1 .. lc -> R]
    BY <2>3 DEF Tagged
  <2> QED
    BY <2>1, <2>2, <2>4 DEF Tagged
<1> HIDE DEF a, b, c, R
<1>10. a \in Seq(R) /\ b \in Seq(R) /\ c \in Seq(R) /\ Len(a) = lp /\ Len(b) = k /\ Len(c) = lc
  BY <1>5, <1>6, <1>9
<1>11. /\ a \o b \in Seq(R) /\ Len(a \o b) = Len(a) + Len(b)
       /\ \A i \in 1 .. Len(a) + Len(b) :
             (a \o b)[i] = IF i <= Len(a) THEN a[i] ELSE b[i - Len(a)]
  <2>1. a \in Seq(R) /\ b \in Seq(R)
    BY <1>10
  <2> QED
    BY <2>1, ConcatProperties
<1>12. PICK y : y = a \o b
  OBVIOUS
<1>13. /\ y \in Seq(R) /\ Len(y) = lc
       /\ \A i \in 1 .. lc : y[i] = IF i <= lp THEN a[i] ELSE b[i - lp]
  BY <1>6, <1>10, <1>11, <1>12
<1>14. ASSUME NEW i \in 1 .. lc PROVE y[i] = c[i]
  <2>1. CASE i \in 1 .. lp
    <3>1. i <= lp
      BY <2>1
    <3>2. y[i] = a[i] /\ a[i] = [statement |-> e[i], id |-> v]
      BY <1>9, <1>13, <2>1, <3>1
    <3>3. c[i] = [statement |-> e[i], id |-> v]
      BY <1>9
    <3> QED
      BY <3>2, <3>3
  <2>2. CASE i - lp \in 1 .. k /\ lp + (i - lp) = i /\ ~(i <= lp)
    <3>1. e[lp + (i - lp)] = s[i - lp]
      BY <1>5, <2>2
    <3>2. y[i] = [statement |-> s[i - lp], id |-> v]
      BY <1>9, <1>13, <2>2
    <3> QED
      BY <1>9, <2>2, <3>1, <3>2
  <2> QED
    BY <1>8, <2>1, <2>2
<1>15. y = c
  BY <1>10, <1>13, <1>14, SeqEqual
<1> QED
  BY <1>1, <1>4, <1>6, <1>12, <1>15 DEF a, b, c, Continues

\* Of the content's statements those of the first j messages come first.
LEMMA DoneContentFirst ==
    ASSUME NEW n \in BlockNums, NEW j \in 0 .. Len(Content[n])
    PROVE  \E q \in Seq(StatementRecords) :
              DoneContent(n, Len(Content[n])) = DoneContent(n, j) \o q
<1>1. PICK k \in Nat : k = Len(Content[n])
  BY ContentType
<1> DEFINE Rest(i) == \E q \in Seq(StatementRecords) : DoneContent(n, k) = DoneContent(n, i) \o q
           T == {d \in 0 .. k : ~Rest(k - d)}
<1>2. T = {}
  <2>1. SUFFICES ASSUME T # {} PROVE FALSE
    OBVIOUS
  <2>2. PICK d \in T : \A x \in T : d <= x
    <3> HIDE DEF Rest
    <3>1. T \in SUBSET Nat
      OBVIOUS
    <3> HIDE DEF T
    <3> QED
      BY <2>1, <3>1, SmallestOf
  <2>3. d \in 0 .. k /\ ~Rest(k - d)
    <3> HIDE DEF Rest
    <3> QED
      OBVIOUS
  <2>4. d # 0
    <3>1. DoneContent(n, k) \in Seq(StatementRecords) /\ <<>> \in Seq(StatementRecords)
      BY <1>1, DoneContentGrows, EmptySeq
    <3>2. DoneContent(n, k) = DoneContent(n, k) \o <<>>
      BY <3>1, ConcatEmptySeq
    <3>3. Rest(k)
      BY <3>1, <3>2
    <3>4. k - 0 = k
      OBVIOUS
    <3> HIDE DEF Rest
    <3> QED
      BY <2>3, <3>3, <3>4
  <2>5. Rest(k - (d - 1))
    <3>1. d - 1 \in 0 .. k /\ ~(d <= d - 1)
      BY <2>3, <2>4
    <3>2. d - 1 \notin T
      <4> HIDE DEF T
      <4> QED
        BY <2>2, <3>1
    <3> HIDE DEF Rest
    <3> QED
      BY <3>1, <3>2
  <2>6. PICK i : i = k - d /\ i \in 0 .. k - 1 /\ k - (d - 1) = i + 1
    BY <2>3, <2>4
  <2>7. PICK q \in Seq(StatementRecords) : DoneContent(n, k) = DoneContent(n, i + 1) \o q
    BY <2>5, <2>6
  <2>8. PICK o : o = OfMessage(Content[n][i + 1])
    OBVIOUS
  <2>9. /\ DoneContent(n, i) \in Seq(StatementRecords)
        /\ DoneContent(n, i + 1) = DoneContent(n, i) \o o
    <3>1. i \in 0 .. Len(Content[n]) /\ i < Len(Content[n])
      BY <1>1, <2>6
    <3> QED
      BY <2>8, <3>1, DoneContentGrows
  <2>10. o \in Seq(StatementRecords)
    <3>1. i + 1 \in 1 .. Len(Content[n])
      BY <1>1, <2>6
    <3> QED
      BY <2>8, <3>1, OfMessageType
  <2>11. o \o q \in Seq(StatementRecords)
    BY <2>10, ConcatProperties
  <2>12. DoneContent(n, k) = DoneContent(n, i) \o (o \o q)
    <3>1. PICK S : S = StatementRecords
      OBVIOUS
    <3>2. PICK x : x = DoneContent(n, i)
      OBVIOUS
    <3>3. x \in Seq(S) /\ o \in Seq(S) /\ q \in Seq(S)
      BY <2>9, <2>10, <3>1, <3>2
    <3>4. (x \o o) \o q = x \o (o \o q)
      BY <3>3, ConcatAssociative
    <3> QED
      BY <2>7, <2>9, <3>2, <3>4
  <2>13. Rest(i)
    BY <2>11, <2>12
  <2> HIDE DEF Rest
  <2> QED
    BY <2>3, <2>6, <2>13
<1>3. k - j \in 0 .. k /\ k - (k - j) = j
  BY <1>1
<1>4. Rest(j)
  <2> HIDE DEF Rest
  <2> QED
    BY <1>2, <1>3
<1> QED
  BY <1>1, <1>4

\* The parts of what the database should hold of a block.
LEMMA ExpectedParts ==
    ASSUME NEW n \in BlockNums
    PROVE  /\ ExpectedStatements[n] = (<<Statement("insblocks", "")>>
                  \o DoneContent(n, Len(Content[n]))) \o ExpectedBurns(n)
           /\ <<Statement("insblocks", "")>> \in Seq(StatementRecords)
           /\ Len(<<Statement("insblocks", "")>>) = 1
           /\ ExpectedStatements[n] \in Seq(StatementRecords)
           /\ Len(ExpectedStatements[n]) \in Nat
<1>1. PICK k \in Nat : k = Len(Content[n]) /\ DOMAIN Content[n] = 1 .. k
  BY ContentType
<1>2. ForEach(Content[n], LAMBDA m : IF m.type = "TX_TRACE" THEN TransactionStatements[m] ELSE <<>>)
      = DoneContent(n, k)
  BY <1>1 DEF ForEach, DoneContent, OfMessage
<1>3. Statement("insblocks", "") \in StatementRecords
  <2>1. "insblocks" \in SqlNames
    BY DEF SqlNames
  <2> QED
    BY <2>1 DEF Statement, StatementRecords
<1>4. PICK first : first = Statement("insblocks", "")
  OBVIOUS
<1>5. <<first>> \in Seq(StatementRecords) /\ Len(<<first>>) = 1
  <2>1. PICK S : S = StatementRecords
    OBVIOUS
  <2>2. first \in S
    BY <1>3, <1>4, <2>1
  <2>3. <<first>> \in Seq(S) /\ Len(<<first>>) = 1
    BY <2>2
  <2> QED
    BY <2>1, <2>3
<1>6. /\ DoneContent(n, k) \in Seq(StatementRecords)
      /\ ExpectedBurns(n) \in Seq(StatementRecords)
  BY <1>1, DoneContentGrows, AutoBurnsExpected
<1>7. ExpectedStatements[n] = (<<first>> \o DoneContent(n, k)) \o ExpectedBurns(n)
  <2>1. ExpectedStatements[n] = <<first>> \o ForEach(Content[n], LAMBDA m :
             IF m.type = "TX_TRACE" THEN TransactionStatements[m] ELSE <<>>) \o ExpectedBurns(n)
    BY <1>4 DEF ExpectedStatements
  <2> QED
    BY <1>2, <2>1
<1>8. <<first>> \o DoneContent(n, k) \in Seq(StatementRecords)
  BY <1>5, <1>6, ConcatProperties
<1>9. ExpectedStatements[n] \in Seq(StatementRecords)
  BY <1>6, <1>7, <1>8, ConcatProperties
<1>10. Len(ExpectedStatements[n]) \in Nat
  BY <1>9, LenProperties
<1> QED
  BY <1>1, <1>4, <1>5, <1>7, <1>9, <1>10

-------------------------------------------------------------------------------
(* A message stores what comes next.                                         *)

\* x holds the members of s and then those of t.
Joins(x, s, t, a, b) ==
    /\ Len(x) = a + b
    /\ \A i \in 1 .. a : x[i] = s[i]
    /\ \A i \in 1 .. b : x[a + i] = t[i]

\* A concatenation member by member, its lengths named.
LEMMA ConcatMembers ==
    ASSUME NEW S, NEW s \in Seq(S), NEW t \in Seq(S), NEW x, x = s \o t,
           NEW a, a = Len(s), NEW b, b = Len(t)
    PROVE  x \in Seq(S) /\ Joins(x, s, t, a, b)
<1>1. a \in Nat /\ b \in Nat
  BY LenProperties
<1>2. /\ s \o t \in Seq(S) /\ Len(s \o t) = Len(s) + Len(t)
      /\ \A i \in 1 .. Len(s) + Len(t) :
            (s \o t)[i] = IF i <= Len(s) THEN s[i] ELSE t[i - Len(s)]
  BY ConcatProperties
<1>3. /\ x \in Seq(S) /\ Len(x) = a + b
      /\ \A i \in 1 .. a + b : x[i] = IF i <= a THEN s[i] ELSE t[i - a]
  BY <1>2
<1>4. /\ \A i \in 1 .. a : i \in 1 .. a + b /\ i <= a
      /\ \A i \in 1 .. b : a + i \in 1 .. a + b /\ ~(a + i <= a) /\ (a + i) - a = i
  BY <1>1
<1> QED
  BY <1>3, <1>4 DEF Joins

\* The messages of a block's events, one by one (receive_result's export).
LEMMA MessagesOfEvent ==
    ASSUME NEW e
    PROVE  /\ e.type = "fork" => Len(MessagesOf(e)) = 1 /\ MessagesOf(e)[1] = Simple("FORK")
           /\ e.num \in BlockNums /\ e.type \in {"block", "partial"} =>
                 /\ Len(MessagesOf(e)) = Len(Content[e.num]) + (IF e.type = "block" THEN 2 ELSE 1)
                 /\ MessagesOf(e)[1] = Simple("BLOCK")
                 /\ \A i \in 1 .. Len(Content[e.num]) : MessagesOf(e)[i + 1] = Content[e.num][i]
                 /\ e.type = "block" =>
                       MessagesOf(e)[Len(Content[e.num]) + 2] = Simple("BLOCK_COMPLETED")
<1>1. CASE e.type = "fork"
  BY <1>1 DEF MessagesOf
<1>2. ASSUME e.num \in BlockNums, e.type \in {"block", "partial"}
      PROVE  /\ Len(MessagesOf(e)) = Len(Content[e.num]) + (IF e.type = "block" THEN 2 ELSE 1)
             /\ MessagesOf(e)[1] = Simple("BLOCK")
             /\ \A i \in 1 .. Len(Content[e.num]) : MessagesOf(e)[i + 1] = Content[e.num][i]
             /\ e.type = "block" =>
                   MessagesOf(e)[Len(Content[e.num]) + 2] = Simple("BLOCK_COMPLETED")
  <2>1. PICK c : c = Content[e.num]
    OBVIOUS
  <2>2. c \in Seq(Messages)
    BY <1>2, <2>1, ContentType
  <2>3. PICK k \in Nat : k = Len(c)
    BY <2>2, LenProperties
  <2>4. PICK first, last : first = Simple("BLOCK") /\ last = Simple("BLOCK_COMPLETED")
    OBVIOUS
  <2>5. PICK S : S = Messages \cup {first, last}
    OBVIOUS
  <2>6. c \in Seq(S)
    <3>1. \A i \in 1 .. k : c[i] \in S
      BY <2>2, <2>3, <2>5, ElementOfSeq
    <3>2. DOMAIN c = 1 .. k /\ c = [i \in 1 .. k |-> c[i]]
      BY <2>2, <2>3, LenProperties
    <3>3. c \in [1 .. k -> S]
      BY <3>1, <3>2
    <3> QED
      BY <3>3
  <2>7. first \in S /\ last \in S
    BY <2>5
  <2> DEFINE a == <<first>>
             b == <<last>>
  <2>8. /\ a \in Seq(S) /\ Len(a) = 1 /\ a[1] = first
        /\ b \in Seq(S) /\ Len(b) = 1 /\ b[1] = last
    BY <2>7
  <2> HIDE DEF a, b
  <2>9. PICK x : x = a \o c
    OBVIOUS
  <2>10. /\ x \in Seq(S) /\ Len(x) = 1 + k
         /\ \A i \in 1 .. 1 : x[i] = a[i]
         /\ \A i \in 1 .. k : x[1 + i] = c[i]
    <3>1. x \in Seq(S) /\ Joins(x, a, c, 1, k)
      BY <2>3, <2>6, <2>8, <2>9, ConcatMembers
    <3> QED
      BY <3>1 DEF Joins
  <2>11. x[1] = first /\ \A i \in 1 .. k : x[i + 1] = c[i]
    BY <2>8, <2>10
  <2>12. PICK y : y = x \o b
    OBVIOUS
  <2>13. PICK l \in Nat : l = 1 + k
    OBVIOUS
  <2>14. /\ Len(y) = l + 1
         /\ \A i \in 1 .. l : y[i] = x[i]
         /\ \A i \in 1 .. 1 : y[l + i] = b[i]
    <3>1. x \in Seq(S) /\ b \in Seq(S) /\ l = Len(x) /\ 1 = Len(b)
      BY <2>8, <2>10, <2>13
    <3>2. Joins(y, x, b, l, 1)
      BY <2>12, <3>1, ConcatMembers
    <3> QED
      BY <3>2 DEF Joins
  <2>15. y[1] = first /\ (\A i \in 1 .. k : y[i + 1] = c[i]) /\ y[k + 2] = last /\ Len(y) = k + 2
    <3>1. 1 \in 1 .. l /\ 1 \in 1 .. 1 /\ l + 1 = k + 2
      BY <2>13
    <3>2. \A i \in 1 .. k : i + 1 \in 1 .. l
      BY <2>13
    <3>3. y[1] = x[1] /\ y[l + 1] = b[1]
      BY <2>14, <3>1
    <3>4. \A i \in 1 .. k : y[i + 1] = x[i + 1]
      BY <2>14, <3>2
    <3> QED
      BY <2>8, <2>11, <2>14, <3>1, <3>3, <3>4
  <2>16. CASE e.type = "block"
    <3>1. MessagesOf(e) = y
      BY <2>1, <2>4, <2>9, <2>12, <2>16 DEF MessagesOf, a, b
    <3> QED
      BY <2>1, <2>3, <2>4, <2>15, <2>16, <3>1
  <2>17. CASE e.type = "partial"
    <3>1. MessagesOf(e) = x
      BY <2>1, <2>4, <2>9, <2>17 DEF MessagesOf, a
    <3> QED
      BY <2>1, <2>3, <2>4, <2>10, <2>11, <2>17, <3>1
  <2> QED
    BY <1>2, <2>16, <2>17
<1> QED
  BY <1>1, <1>2

\* Statements s are what comes after the first k messages of block n.
Follows(n, k, s) ==
    /\ s \in Seq(StatementRecords)
    /\ Done(n, k) \in Nat
    /\ Done(n, k) + Len(s) \in 0 .. Len(ExpectedStatements[n])
    /\ \A v : \A j \in 0 .. Len(s) :
          Beginning(n, v, Done(n, k)) \o Tagged(s, v, j) = Beginning(n, v, Done(n, k) + j)

\* Statements follow when the expected ones are split around them.
LEMMA SplitFollows ==
    ASSUME NEW n \in BlockNums, NEW k, NEW p \in Seq(StatementRecords),
           NEW s \in Seq(StatementRecords), NEW q \in Seq(StatementRecords),
           ExpectedStatements[n] = (p \o s) \o q, Done(n, k) = Len(p)
    PROVE  /\ Follows(n, k, s)
           /\ q = <<>> => Done(n, k) + Len(s) = Len(ExpectedStatements[n])
<1>1. PICK e : e = ExpectedStatements[n]
  OBVIOUS
<1>2. PICK S : S = StatementRecords
  OBVIOUS
<1>3. p \in Seq(S) /\ s \in Seq(S) /\ q \in Seq(S) /\ e = (p \o s) \o q
  BY <1>1, <1>2
<1>4. PICK lp \in Nat, ls \in Nat, lq \in Nat : lp = Len(p) /\ ls = Len(s) /\ lq = Len(q)
  BY <1>3, LenProperties
<1>5. ASSUME NEW v, NEW j \in 0 .. Len(s)
      PROVE  /\ Tagged(e, v, Len(p)) \o Tagged(s, v, j) = Tagged(e, v, Len(p) + j)
             /\ Len(e) = Len(p) + Len(s) + Len(q)
  <2>1. Continues(e, p, s, q, v, j)
    BY <1>3, TaggedConcat
  <2> QED
    BY <2>1 DEF Continues
<1>6. 0 \in 0 .. Len(s)
  BY <1>4
<1>7. Len(e) = lp + ls + lq
  BY <1>4, <1>5, <1>6
<1>8. Done(n, k) = lp /\ lp + ls \in 0 .. Len(e)
  BY <1>4, <1>7
<1>9. \A v : \A j \in 0 .. Len(s) :
         Beginning(n, v, Done(n, k)) \o Tagged(s, v, j) = Beginning(n, v, Done(n, k) + j)
  BY <1>1, <1>5 DEF Beginning
<1>10. q = <<>> => Len(e) = lp + ls
  <2>1. q = <<>> => lq = 0
    BY <1>4, EmptySeq
  <2> QED
    BY <1>7, <2>1
<1> QED
  BY <1>1, <1>4, <1>8, <1>9, <1>10 DEF Follows

\* Which message of a block's event is handled next.
MessageKind(e, k, m) ==
    LET size == Len(Content[e.num])
    IN  \/ k = 0 /\ m = Simple("BLOCK")
        \/ k \in 1 .. size /\ m = Content[e.num][k]
        \/ k = size + 1 /\ m = Simple("BLOCK_COMPLETED") /\ e.type = "block"

\* BLOCK comes first, then the content, and BLOCK_COMPLETED ends a whole block.
LEMMA MessageOfBlock ==
    ASSUME NEW e, e.num \in BlockNums, e.type \in {"block", "partial"},
           NEW k \in Nat, k < Len(MessagesOf(e)), NEW m, m = MessagesOf(e)[k + 1]
    PROVE  /\ MessageKind(e, k, m)
           /\ Len(MessagesOf(e)) = Len(Content[e.num]) + (IF e.type = "block" THEN 2 ELSE 1)
<1>1. PICK c : c = Content[e.num]
  OBVIOUS
<1>2. PICK size \in Nat : size = Len(c)
  BY <1>1, ContentType
<1>3. PICK s : s = MessagesOf(e)
  OBVIOUS
<1>4. /\ Len(s) = size + (IF e.type = "block" THEN 2 ELSE 1)
      /\ s[1] = Simple("BLOCK")
      /\ \A i \in 1 .. size : s[i + 1] = c[i]
      /\ e.type = "block" => s[size + 2] = Simple("BLOCK_COMPLETED")
  BY <1>1, <1>2, <1>3, MessagesOfEvent
<1>5. k \in Nat /\ k < Len(s) /\ m = s[k + 1]
  BY <1>3
<1>6. CASE k = 0
  <2>1. m = Simple("BLOCK")
    BY <1>4, <1>5, <1>6
  <2> QED
    BY <1>1, <1>2, <1>3, <1>4, <1>6, <2>1 DEF MessageKind
<1>7. CASE k \in 1 .. size
  <2>1. m = c[k]
    BY <1>4, <1>5, <1>7
  <2> QED
    BY <1>1, <1>2, <1>3, <1>4, <1>7, <2>1 DEF MessageKind
<1>8. CASE k > size
  <2>1. e.type = "block" /\ k = size + 1
    BY <1>2, <1>4, <1>5, <1>8
  <2>2. k + 1 = size + 2
    BY <1>2, <2>1
  <2>3. m = Simple("BLOCK_COMPLETED")
    BY <1>4, <1>5, <2>1, <2>2
  <2> QED
    BY <1>1, <1>2, <1>3, <1>4, <2>1, <2>3 DEF MessageKind
<1>9. k = 0 \/ k \in 1 .. size \/ k > size
  BY <1>2, <1>5
<1> QED
  BY <1>6, <1>7, <1>8, <1>9

\* BLOCK does what comes first (insblocks).
LEMMA BlockFollows ==
    ASSUME NEW n \in BlockNums
    PROVE  /\ Follows(n, 0, <<Statement("insblocks", "")>>)
           /\ Done(n, 0) = 0 /\ Done(n, 1) = 1
           /\ Len(<<Statement("insblocks", "")>>) = 1
<1>1. PICK first : first = <<Statement("insblocks", "")>>
  OBVIOUS
<1>2. PICK d : d = DoneContent(n, Len(Content[n]))
  OBVIOUS
<1>3. PICK b : b = ExpectedBurns(n)
  OBVIOUS
<1>4. PICK S : S = StatementRecords
  OBVIOUS
<1>5. /\ first \in Seq(S) /\ Len(first) = 1
      /\ ExpectedStatements[n] = (first \o d) \o b
  BY <1>1, <1>2, <1>3, <1>4, ExpectedParts
<1>6. d \in Seq(S) /\ b \in Seq(S)
  <2>1. Len(Content[n]) \in 0 .. Len(Content[n])
    BY ContentType
  <2> QED
    BY <1>2, <1>3, <1>4, <2>1, DoneContentGrows, AutoBurnsExpected
<1>7. d \o b \in Seq(S) /\ (first \o d) \o b = first \o (d \o b)
  BY <1>5, <1>6, ConcatAssociative, ConcatProperties
<1>8. <<>> \in Seq(S) /\ Len(<<>>) = 0 /\ <<>> \o first = first
  BY <1>5, EmptySeq, ConcatEmptySeq
<1>9. Done(n, 0) = 0
  BY DEF Done
<1>10. Done(n, 1) = 1
  <2>1. 0 \in 0 .. Len(Content[n])
    BY ContentType
  <2>2. DoneContent(n, 0) = <<>>
    BY <2>1, DoneContentGrows
  <2> QED
    BY <1>8, <2>2 DEF Done
<1>11. PICK q : q = d \o b
  OBVIOUS
<1>12. PICK p : p = <<>>
  OBVIOUS
<1>13. /\ p \in Seq(StatementRecords) /\ first \in Seq(StatementRecords)
       /\ q \in Seq(StatementRecords) /\ ExpectedStatements[n] = (p \o first) \o q
       /\ Done(n, 0) = Len(p)
  BY <1>4, <1>5, <1>7, <1>8, <1>9, <1>11, <1>12
<1>14. Follows(n, 0, first)
  BY <1>13, SplitFollows
<1> QED
  BY <1>1, <1>5, <1>9, <1>10, <1>14

\* A transaction does what comes next.
LEMMA ContentFollows ==
    ASSUME NEW n \in BlockNums, NEW k \in 1 .. Len(Content[n])
    PROVE  /\ Follows(n, k, OfMessage(Content[n][k]))
           /\ Done(n, k + 1) = Done(n, k) + Len(OfMessage(Content[n][k]))
<1>1. PICK first : first = <<Statement("insblocks", "")>>
  OBVIOUS
<1>2. PICK size \in Nat : size = Len(Content[n])
  BY ContentType
<1>3. PICK b : b = ExpectedBurns(n)
  OBVIOUS
<1>4. PICK S : S = StatementRecords
  OBVIOUS
<1>5. PICK j \in Nat : j = k - 1 /\ j + 1 = k /\ j \in 0 .. size /\ j < size /\ k \in 0 .. size
  BY <1>2
<1>6. PICK s : s = OfMessage(Content[n][k])
  OBVIOUS
<1>7. PICK d, dj, dk : d = DoneContent(n, size) /\ dj = DoneContent(n, j) /\ dk = DoneContent(n, k)
  OBVIOUS
<1>8. /\ first \in Seq(S) /\ Len(first) = 1
      /\ ExpectedStatements[n] = (first \o d) \o b
  BY <1>1, <1>2, <1>3, <1>4, <1>7, ExpectedParts
<1>9. b \in Seq(S) /\ dj \in Seq(S) /\ s \in Seq(S)
  BY <1>2, <1>3, <1>4, <1>5, <1>6, <1>7, DoneContentGrows, AutoBurnsExpected, OfMessageType
<1>10. dk = dj \o s
  <2>1. j \in 0 .. Len(Content[n]) /\ j < Len(Content[n])
    BY <1>2, <1>5
  <2>2. DoneContent(n, j + 1) = DoneContent(n, j) \o OfMessage(Content[n][j + 1])
    BY <2>1, DoneContentGrows
  <2> QED
    BY <1>5, <1>6, <1>7, <2>2
<1>11. PICK q \in Seq(S) : d = dk \o q
  BY <1>2, <1>4, <1>5, <1>7, DoneContentFirst
<1>12. PICK p : p = first \o dj
  OBVIOUS
<1>13. p \in Seq(S) /\ Len(p) = 1 + Len(dj) /\ Len(dk) = Len(dj) + Len(s)
  <2>1. first \in Seq(S) /\ dj \in Seq(S) /\ s \in Seq(S)
    BY <1>8, <1>9
  <2>2. first \o dj \in Seq(S) /\ Len(first \o dj) = Len(first) + Len(dj)
    BY <2>1, ConcatProperties
  <2>3. Len(dj \o s) = Len(dj) + Len(s)
    BY <2>1, ConcatProperties
  <2> QED
    BY <1>8, <1>10, <1>12, <2>2, <2>3
<1>14. PICK r : r = q \o b
  OBVIOUS
<1>15. ExpectedStatements[n] = (p \o s) \o r /\ r \in Seq(S)
  <2>1. p \o s \in Seq(S) /\ r \in Seq(S) /\ dk \in Seq(S)
    <3>1. /\ p \in Seq(S) /\ s \in Seq(S) /\ q \in Seq(S) /\ b \in Seq(S)
          /\ dj \in Seq(S)
      BY <1>9, <1>11, <1>13
    <3>2. p \o s \in Seq(S) /\ q \o b \in Seq(S) /\ dj \o s \in Seq(S)
      BY <3>1, ConcatProperties
    <3> QED
      BY <1>10, <1>14, <3>2
  <2>2. p \o s = first \o dk
    <3>1. first \in Seq(S) /\ dj \in Seq(S) /\ s \in Seq(S)
      BY <1>8, <1>9
    <3>2. (first \o dj) \o s = first \o (dj \o s)
      BY <3>1, ConcatAssociative, SMTT(30)
    <3> QED
      BY <1>10, <1>12, <3>2
  <2>3. first \o d = (p \o s) \o q
    <3>1. first \o (dk \o q) = (first \o dk) \o q
      <4>1. first \in Seq(S) /\ dk \in Seq(S) /\ q \in Seq(S)
        BY <1>8, <1>11, <2>1
      <4> QED
        BY <4>1, ConcatAssociative, SMTT(30)
    <3> QED
      BY <1>11, <2>2, <3>1
  <2>4. PICK ps : ps = p \o s
    OBVIOUS
  <2>5. (ps \o q) \o b = ps \o (q \o b)
    <3>1. ps \in Seq(S) /\ q \in Seq(S) /\ b \in Seq(S)
      BY <1>9, <1>11, <2>1, <2>4
    <3> QED
      BY <3>1, ConcatAssociative
  <2> QED
    BY <1>8, <1>14, <2>1, <2>3, <2>4, <2>5
<1>16. Done(n, k) = Len(p)
  <2>1. k # 0 /\ k - 1 = j
    BY <1>5
  <2> QED
    BY <1>7, <1>13, <2>1 DEF Done
<1>17. Done(n, k + 1) = Len(p) + Len(s)
  <2>1. k + 1 # 0 /\ (k + 1) - 1 = k
    OBVIOUS
  <2>2. Done(n, k + 1) = 1 + Len(dk)
    BY <1>7, <2>1 DEF Done
  <2>3. Len(dj) \in Nat /\ Len(s) \in Nat
    BY <1>9, LenProperties
  <2> QED
    BY <1>13, <2>2, <2>3
<1>18. /\ p \in Seq(StatementRecords) /\ s \in Seq(StatementRecords)
       /\ r \in Seq(StatementRecords)
  BY <1>4, <1>9, <1>13, <1>15
<1>19. Follows(n, k, s)
  BY <1>15, <1>16, <1>18, SplitFollows
<1> QED
  BY <1>6, <1>16, <1>17, <1>19

\* The end of the block does what is left (burnexpired).
LEMMA CompletedFollows ==
    ASSUME NEW n \in BlockNums, NEW k, k = Len(Content[n]) + 1
    PROVE  /\ Follows(n, k, ExpectedBurns(n))
           /\ Done(n, k) + Len(ExpectedBurns(n)) = Len(ExpectedStatements[n])
<1>1. PICK first : first = <<Statement("insblocks", "")>>
  OBVIOUS
<1>2. PICK size \in Nat : size = Len(Content[n])
  BY ContentType
<1>3. PICK b : b = ExpectedBurns(n)
  OBVIOUS
<1>4. PICK S : S = StatementRecords
  OBVIOUS
<1>5. PICK d : d = DoneContent(n, size)
  OBVIOUS
<1>6. /\ first \in Seq(S) /\ Len(first) = 1
      /\ ExpectedStatements[n] = (first \o d) \o b
  BY <1>1, <1>2, <1>3, <1>4, <1>5, ExpectedParts
<1>7. b \in Seq(S) /\ d \in Seq(S)
  <2>1. size \in 0 .. Len(Content[n])
    BY <1>2
  <2> QED
    BY <1>3, <1>4, <1>5, <2>1, DoneContentGrows, AutoBurnsExpected
<1>8. PICK p : p = first \o d
  OBVIOUS
<1>9. p \in Seq(S) /\ Len(p) = 1 + Len(d)
  <2>1. first \o d \in Seq(S) /\ Len(first \o d) = Len(first) + Len(d)
    BY <1>6, <1>7, ConcatProperties
  <2> QED
    BY <1>6, <1>8, <2>1
<1>10. PICK q : q = <<>>
  OBVIOUS
<1>11. q \in Seq(S) /\ (p \o b) \o q = p \o b
  <2>1. p \o b \in Seq(S)
    BY <1>7, <1>9, ConcatProperties
  <2> QED
    BY <1>10, <2>1, EmptySeq, ConcatEmptySeq
<1>12. ExpectedStatements[n] = (p \o b) \o q
  BY <1>6, <1>8, <1>11
<1>13. Done(n, k) = Len(p)
  <2>1. k # 0 /\ k - 1 = size
    BY <1>2
  <2> QED
    BY <1>5, <1>9, <2>1 DEF Done
<1>14. /\ p \in Seq(StatementRecords) /\ b \in Seq(StatementRecords)
       /\ q \in Seq(StatementRecords)
  BY <1>4, <1>7, <1>9, <1>11
<1>15. Follows(n, k, b) /\ Done(n, k) + Len(b) = Len(ExpectedStatements[n])
  BY <1>10, <1>12, <1>13, <1>14, SplitFollows
<1> QED
  BY <1>3, <1>15

RowRecords == [statement : StatementRecords, id : Versions]

\* The beginnings of what the database should hold of a block.
LEMMA BeginningProperties ==
    ASSUME NEW n \in BlockNums, NEW v, NEW k \in 0 .. Len(ExpectedStatements[n])
    PROVE  /\ Len(ExpectedStatements[n]) \in Nat
           /\ v \in Versions => Beginning(n, v, k) \in Seq(RowRecords)
           /\ \A i \in DOMAIN Beginning(n, v, k) : Beginning(n, v, k)[i].id = v
           /\ Beginning(n, v, 0) = <<>>
           /\ Beginning(n, v, Len(ExpectedStatements[n])) = Expected(n, v)
           /\ IsPrefix(Beginning(n, v, k), Expected(n, v))
<1>1. PICK s : s = ExpectedStatements[n]
  OBVIOUS
<1>2. PICK size \in Nat : size = Len(s)
  BY <1>1, ExpectedParts
<1>3. s \in [1 .. size -> StatementRecords] /\ DOMAIN s = 1 .. size /\ k \in 0 .. size
  BY <1>1, <1>2, ExpectedParts, LenProperties
<1>4. PICK b : b = Tagged(s, v, k)
  OBVIOUS
<1>5. PICK e : e = Tagged(s, v, size)
  OBVIOUS
<1>6. /\ DOMAIN b = 1 .. k /\ \A i \in 1 .. k : b[i] = [statement |-> s[i], id |-> v]
      /\ DOMAIN e = 1 .. size /\ \A i \in 1 .. size : e[i] = [statement |-> s[i], id |-> v]
  BY <1>4, <1>5 DEF Tagged
<1>7. Beginning(n, v, k) = b /\ Beginning(n, v, size) = e /\ Expected(n, v) = e
  BY <1>1, <1>3, <1>4, <1>5 DEF Beginning, Expected, Tagged
<1>8. Beginning(n, v, 0) = <<>>
  BY DEF Beginning, Tagged
<1>9. \A i \in 1 .. k : b[i].id = v
  BY <1>6
<1>10. ASSUME v \in Versions PROVE b \in Seq(RowRecords)
  <2>1. \A i \in 1 .. k : b[i] \in RowRecords
    BY <1>3, <1>6, <1>10 DEF RowRecords
  <2>2. b \in [1 .. k -> RowRecords]
    BY <1>4, <2>1, <1>6 DEF Tagged
  <2> QED
    BY <1>3, <2>2
<1>11. IsPrefix(b, e)
  <2> DEFINE R == [statement : StatementRecords, id : {v}]
  <2>1. b \in [1 .. k -> R] /\ e \in [1 .. size -> R]
    BY <1>3, <1>4, <1>5 DEF Tagged
  <2> HIDE DEF R
  <2>2. b \in Seq(R) /\ e \in Seq(R) /\ Len(b) = k /\ Len(e) = size
    BY <1>3, <2>1
  <2>3. \A i \in 1 .. k : b[i] = e[i]
    BY <1>3, <1>6
  <2>4. SubSeq(b, 1, k) = SubSeq(e, 1, k)
    BY <1>2, <1>3, <2>2, <2>3
  <2> QED
    BY <1>3, <2>2, <2>4 DEF IsPrefix
<1> QED
  BY <1>1, <1>2, <1>6, <1>7, <1>8, <1>9, <1>10, <1>11

\* Storing statements that follow what is stored of a block.
LEMMA StoredFollows ==
    ASSUME NEW n \in BlockNums, NEW k, NEW s, NEW v, Follows(n, k, s),
           rows \in [BlockNums -> Seq(RowRecords)],
           rows[n] = Beginning(n, v, Done(n, k)), NEW j \in 0 .. Len(s)
    PROVE  /\ Stored(s, j, n, v) = [rows EXCEPT ![n] = Beginning(n, v, Done(n, k) + j)]
           /\ Done(n, k) + j \in 0 .. Len(ExpectedStatements[n])
<1>1. Stored(s, j, n, v) = [rows EXCEPT ![n] = rows[n] \o Tagged(s, v, j)]
  BY DEF Stored, Tagged
<1>2. rows[n] \o Tagged(s, v, j) = Beginning(n, v, Done(n, k) + j)
  BY DEF Follows
<1>3. Len(s) \in Nat /\ Done(n, k) \in Nat
  <2>1. s \in Seq(StatementRecords)
    BY DEF Follows
  <2> QED
    BY <2>1, LenProperties DEF Follows
<1>4. Done(n, k) + Len(s) \in 0 .. Len(ExpectedStatements[n])
  BY DEF Follows
<1>5. Len(ExpectedStatements[n]) \in Nat
  BY ExpectedParts
<1>6. Done(n, k) + j \in 0 .. Len(ExpectedStatements[n])
  BY <1>3, <1>4, <1>5
<1> QED
  BY <1>1, <1>2, <1>6

-------------------------------------------------------------------------------
(* The inductive invariant.                                                  *)

\* The receiver is at work: connecting, or in a session.
Live == pc = "connecting" \/ SessionOpen

BelowPending(m) == \A i \in DOMAIN events : m < events[i].num

RelicTypes ==
    /\ rows \in [BlockNums -> Seq(RowRecords)]
    /\ position \in Nat
    /\ failed \in BOOLEAN /\ burnexpiredthisblock \in BOOLEAN
    /\ stops \in 0 .. MaxStops

\* Every block is stored from its beginning, in one version.
RowsBegin ==
    \A n \in BlockNums : \E v \in Versions : \E k \in 0 .. Len(ExpectedStatements[n]) :
        rows[n] = Beginning(n, v, k)

\* The last event is the receiver's last block, or the forks before the next one.
LastEvent(e) ==
    /\ e.type = "fork" => e.num = head + 1 /\ db.committed = db.revision
    /\ e.type = "block" => e.num = head /\ e.id = head_id
    /\ e.type = "partial" => e.num = head /\ pc = "closed"

\* Events wait for one block only, its forks before it.
OneBlock ==
    ~failed /\ events # <<>> =>
        /\ \A i \in DOMAIN events : events[i].num = events[1].num
        /\ \A i \in 1 .. Len(events) - 1 : events[i].type = "fork"
        /\ LastEvent(events[Len(events)])

DownClean == pc = "down" => events = <<>> /\ ~failed

\* What of the first event's block is stored and collected.
InWork(e) ==
    /\ e.type = "fork" => position = 0 /\ ListsEmpty
    /\ e.type # "fork" =>
          /\ rows[e.num] = Beginning(e.num, head_id, Done(e.num, position))
          /\ \A m \in BlockNums : m > e.num => rows[m] = <<>>
          /\ ListsAt(e.num, Handled(position))

WorkOk ==
    /\ events = <<>> => position = 0
    /\ events # <<>> => position < Len(MessagesOf(events[1]))
    /\ ~failed /\ events = <<>> /\ pc # "closed" => ListsEmpty
    /\ ~failed /\ events # <<>> => InWork(events[1])

\* With nothing to do nothing is stored above the head.
NothingAbove ==
    ~failed /\ pc # "down" /\ events = <<>> => \A m \in BlockNums : m > head => rows[m] = <<>>

\* What could still be undone is stored as the receiver has it.
UndoableRows ==
    Live => \A m \in db.committed + 1 .. db.revision :
                BelowPending(m) => rows[m] = Expected(m, db.at[m].head_id)

\* What is committed is stored as the chain has it.
CommittedRows ==
    db.at[db.committed].saved =>
        /\ db.committed > FirstHead
        /\ \A m \in BlockNums : FirstHead < m /\ m <= db.committed =>
               rows[m] = Expected(m, branch[m])

PendingAbove == BelowPending(db.committed) /\ BelowPending(FirstHead)

\* When the next start announces no fork none is needed, or all are still to do.
ForksOwed ==
    ~Announced(db) =>
        /\ \A i \in DOMAIN events : events[i].type = "fork" /\ events[i].num = db.committed + 1
        /\ events = <<>> => \A m \in BlockNums : m > db.committed => rows[m] = <<>>
        /\ ~failed

\* Only a handled block is acknowledged, and the head only when it is committed.
AcksBehind ==
    Live => /\ exporter_acked_block <= head
            /\ exporter_acked_block = head => db.committed = db.revision
            /\ BelowPending(exporter_acked_block)

RInv ==
    /\ IInv /\ RelicTypes /\ RowsBegin /\ OneBlock /\ DownClean /\ WorkOk /\ NothingAbove
    /\ UndoableRows /\ CommittedRows /\ PendingAbove /\ ForksOwed /\ AcksBehind

\* An event and its number (receiver_plugin's channels).
LEMMA EventFacts ==
    ASSUME NEW e \in Events
    PROVE  /\ e.num \in Nat /\ e.type \in {"fork", "block", "partial"}
           /\ e.type # "fork" => e.num \in BlockNums
<1>1. PICK B : B = BlockNums /\ B \subseteq Nat
  BY ChainAssumption DEF BlockNums
<1>2. BlockNums \subseteq Nat
  BY <1>1
<1> HIDE DEF BlockNums
<1> QED
  BY <1>2 DEF Events

\* The queue of events, its first one and the rest.
LEMMA QueueFacts ==
    ASSUME TypeOK, events # <<>>
    PROVE  /\ Len(events) \in Nat \ {0} /\ DOMAIN events = 1 .. Len(events)
           /\ \A i \in 1 .. Len(events) : events[i] \in Events
           /\ Head(events) = events[1]
           /\ Tail(events) \in Seq(Events) /\ Len(Tail(events)) = Len(events) - 1
           /\ DOMAIN Tail(events) = 1 .. Len(events) - 1
           /\ \A i \in 1 .. Len(events) - 1 : Tail(events)[i] = events[i + 1]
           /\ Tail(events) = <<>> <=> Len(events) = 1
<1>1. PICK E : E = Events
  OBVIOUS
<1>2. events \in Seq(E)
  BY <1>1 DEF TypeOK
<1>3. /\ Len(events) \in Nat \ {0} /\ DOMAIN events = 1 .. Len(events)
      /\ \A i \in 1 .. Len(events) : events[i] \in E
  BY <1>2, EmptySeq, LenProperties, ElementOfSeq
<1>4. /\ Tail(events) \in Seq(E) /\ Len(Tail(events)) = Len(events) - 1
      /\ \A i \in 1 .. Len(Tail(events)) : Tail(events)[i] = events[i + 1]
  BY <1>2, HeadTailProperties
<1>5. Head(events) = events[1]
  BY <1>2
<1>6. DOMAIN Tail(events) = 1 .. Len(Tail(events))
  BY <1>4, LenProperties
<1>7. Tail(events) = <<>> <=> Len(Tail(events)) = 0
  BY <1>4, EmptySeq
<1> QED
  BY <1>1, <1>3, <1>4, <1>5, <1>6, <1>7

\* Every message of a block stores what comes next and collects what the end of
\* the block needs (async_send_events).
LEMMA BlockMessage ==
    ASSUME RInv, ~failed, NEW e, events # <<>>, e = events[1], e.type # "fork",
           NEW n, n = e.num, NEW k, k = position, NEW m, m = MessagesOf(e)[k + 1],
           NEW s, s = Statements(m, n)
    PROVE  /\ n \in BlockNums /\ m.type \in {"BLOCK", "TBL_ROW", "TX_TRACE", "BLOCK_COMPLETED"}
           /\ Follows(n, k, s)
           /\ m.type # "BLOCK_COMPLETED" =>
                 /\ Done(n, k + 1) = Done(n, k) + Len(s)
                 /\ k + 1 = Len(MessagesOf(e)) => e.type = "partial"
                 /\ Collect(m, n) => ListsAt(n, Handled(k + 1))'
           /\ m.type = "BLOCK_COMPLETED" =>
                 /\ Done(n, k) + Len(s) = Len(ExpectedStatements[n])
                 /\ k + 1 = Len(MessagesOf(e)) /\ e.type = "block"
<1>1. e \in Events /\ e.type \in {"block", "partial"} /\ n \in BlockNums
  BY QueueFacts, EventFacts DEF RInv, IInv
<1>2. k \in Nat
  BY DEF RInv, RelicTypes
<1>3. k < Len(MessagesOf(e)) /\ ListsAt(n, Handled(k))
  BY <1>2 DEF RInv, WorkOk, InWork
<1>4. PICK size \in Nat : size = Len(Content[n])
  BY <1>1, ContentType
<1>5. MessageKind(e, k, m) /\ Len(MessagesOf(e)) = size + (IF e.type = "block" THEN 2 ELSE 1)
  BY <1>1, <1>2, <1>3, <1>4, MessageOfBlock
<1>9. e.type = "block" /\ k <= size => k + 1 # Len(MessagesOf(e))
  <2>1. PICK l : l = Len(MessagesOf(e))
    OBVIOUS
  <2>2. e.type = "block" => l = size + 2
    BY <1>5, <2>1
  <2> QED
    BY <1>2, <1>4, <2>1, <2>2
<1>6. CASE k = 0 /\ m = Simple("BLOCK")
  <2>1. m.type = "BLOCK" /\ s = <<Statement("insblocks", "")>>
    <3>1. m.type = "BLOCK"
      BY <1>6 DEF Simple
    <3> QED
      BY <3>1 DEF Statements
  <2>2. Follows(n, 0, s) /\ Done(n, 1) = Done(n, 0) + Len(s)
    <3>1. PICK first : first = <<Statement("insblocks", "")>>
      OBVIOUS
    <3>2. Follows(n, 0, first) /\ Done(n, 0) = 0 /\ Done(n, 1) = 1 /\ Len(first) = 1
      BY <1>1, <3>1, BlockFollows
    <3>3. s = first
      BY <2>1, <3>1
    <3>4. Follows(n, 0, s) /\ Len(s) = 1
      BY <3>2, <3>3, Zenon
    <3>5. Done(n, 1) = Done(n, 0) + Len(s)
      BY <3>2, <3>4
    <3> QED
      BY <3>4, <3>5
  <2>3. k + 1 = Len(MessagesOf(e)) => e.type = "partial"
    <3>1. k <= size
      BY <1>4, <1>6
    <3> QED
      BY <1>1, <1>9, <3>1
  <2>4. ASSUME Collect(m, n) PROVE ListsAt(n, 0)'
    <3>1. ListsAt(n, 0)
      BY <1>3, <1>6 DEF Handled
    <3>2. \A t : ~RowOf(m, t)
      BY <2>1 DEF RowOf
    <3>3. \A t : Objects(m, t) = {}
      BY <2>1 DEF Objects
    <3>4. domainjsons \in Seq(RemovedRows) /\ handlejsons \in Seq(RemovedRows)
      BY <3>1 DEF ListsAt
    <3>5. domainjsons \o <<>> = domainjsons /\ handlejsons \o <<>> = handlejsons
      BY <3>4, ConcatEmptySeq
    <3>6. domainjsons' = domainjsons /\ handlejsons' = handlejsons
      BY <2>4, <3>2, <3>5 DEF Collect
    <3>7. /\ burnaddresses' = burnaddresses
          /\ burnexpiredthisblock' = burnexpiredthisblock
      BY <2>4, <3>3 DEF Collect, RInv, RelicTypes
    <3> QED
      BY <3>1, <3>6, <3>7 DEF ListsAt
  <2>5. Handled(k + 1) = 0
    BY <1>6 DEF Handled
  <2>6. k = 0 /\ k + 1 = 1
    BY <1>6
  <2>7. Follows(n, k, s) /\ Done(n, k + 1) = Done(n, k) + Len(s)
    BY <2>2, <2>6
  <2>8. Collect(m, n) => ListsAt(n, Handled(k + 1))'
    BY <2>4, <2>5
  <2> QED
    BY <1>1, <2>1, <2>3, <2>7, <2>8
<1>7. CASE k \in 1 .. size /\ m = Content[n][k]
  <2>1. m.type \in {"TBL_ROW", "TX_TRACE"}
    BY <1>1, <1>4, <1>7, ContentType
  <2>2. s = OfMessage(Content[n][k])
    BY <1>7, <2>1 DEF OfMessage, Statements
  <2>3. Follows(n, k, s) /\ Done(n, k + 1) = Done(n, k) + Len(s)
    BY <1>1, <1>4, <1>7, <2>2, ContentFollows
  <2>4. k + 1 = Len(MessagesOf(e)) => e.type = "partial"
    <3>1. k <= size
      BY <1>4, <1>7
    <3> QED
      BY <1>1, <1>9, <3>1
  <2>5. ASSUME Collect(m, n) PROVE ListsAt(n, k)'
    <3>1. PICK j \in Nat : j = k - 1 /\ j + 1 = k /\ j \in 0 .. size - 1 /\ Handled(k) = j
      BY <1>4, <1>7 DEF Handled
    <3>2. /\ j \in 0 .. Len(Content[n]) - 1 /\ ListsAt(n, j) /\ Collect(Content[n][j + 1], n)
      BY <1>3, <1>4, <1>7, <2>5, <3>1
    <3>3. ListsAt(n, j + 1)'
      BY <1>1, <3>2, ListsStep
    <3> QED
      BY <3>1, <3>3
  <2>6. Handled(k + 1) = k
    BY <1>2 DEF Handled
  <2> QED
    BY <1>1, <1>2, <2>1, <2>3, <2>4, <2>5, <2>6
<1>8. CASE k = size + 1 /\ m = Simple("BLOCK_COMPLETED") /\ e.type = "block"
  <2>1. m.type = "BLOCK_COMPLETED" /\ s = AutoBurns(n)
    <3>1. m.type = "BLOCK_COMPLETED"
      BY <1>8 DEF Simple
    <3> QED
      BY <3>1 DEF Statements
  <2>2. Handled(k) = size
    BY <1>4, <1>8 DEF Handled
  <2>3. s = ExpectedBurns(n)
    BY <1>1, <1>3, <1>4, <2>1, <2>2, AutoBurnsExpected
  <2>4. Follows(n, k, s) /\ Done(n, k) + Len(s) = Len(ExpectedStatements[n])
    BY <1>1, <1>4, <1>8, <2>3, CompletedFollows
  <2>5. k + 1 = Len(MessagesOf(e))
    BY <1>4, <1>5, <1>8
  <2> QED
    BY <1>1, <1>2, <1>8, <2>1, <2>4, <2>5
<1> QED
  BY <1>1, <1>4, <1>5, <1>6, <1>7, <1>8 DEF MessageKind

-------------------------------------------------------------------------------
(* The steps of the chain and of the receiver.                               *)

\* The numbers the invariant speaks of.
LEMMA RelicFacts ==
    ASSUME RInv
    PROVE  /\ TypeOK /\ MaxBlock \in Nat \ {0} /\ MaxForks \in Nat /\ WillAck
           /\ head \in Nat /\ head_id \in Versions /\ exporter_acked_block \in Nat
           /\ forked_at_block \in Nat /\ next \in Nat
           /\ FirstHead \in Nat /\ db.committed \in Nat /\ db.revision \in Nat
           /\ db.committed <= db.revision /\ ~EmptyTables.saved
           /\ (Live => head = IF Tables(db).saved THEN db.revision ELSE FirstHead)
           /\ (Live => head_id = Tables(db).head_id)
           /\ \A n \in BlockNums : n \in Nat
<1>1. IInv /\ TypeOK
  BY DEF RInv, IInv
<1>2. /\ MaxBlock \in Nat \ {0} /\ MaxForks \in Nat
      /\ next \in 1 .. MaxBlock + 1
      /\ FirstHead \in 0 .. final /\ ~EmptyTables.saved
      /\ db.committed \in Nat /\ db.revision \in Nat /\ db.committed <= db.revision
      /\ head \in Nat /\ exporter_acked_block \in Nat /\ forked_at_block \in Nat
  BY <1>1, InvariantFacts
<1>3. final \in Nat
  BY <1>1, Numbers
<1>4. FirstHead \in Nat /\ next \in Nat
  BY <1>2, <1>3
<1>5. /\ (Live => head = IF Tables(db).saved THEN db.revision ELSE FirstHead)
      /\ (Live => head_id = Tables(db).head_id)
  BY <1>1 DEF IInv, MemoryInv, Live
<1>6. head_id \in Versions
  BY <1>1 DEF TypeOK
<1>7. \A n \in BlockNums : n \in Nat
  BY <1>2 DEF BlockNums
<1> QED
  BY <1>1, <1>2, <1>4, <1>5, <1>6, <1>7, RelicAssumption

\* A step that leaves all but the process' state and the session alone.
LEMMA QuietStep ==
    ASSUME RInv, IInv',
           UNCHANGED <<relicVars, stops, events, head, head_id, exporter_acked_block>>,
           db'.committed = db.committed, db'.revision = db.revision,
           \A r \in db.committed .. db.revision : db'.at[r] = db.at[r],
           \A n \in BlockNums : n <= db.committed => branch'[n] = branch[n],
           Live' => Live, pc' = "down" <=> pc = "down", pc = "closed" => pc' = "closed"
    PROVE  RInv'
<1>1. /\ rows' = rows /\ position' = position /\ failed' = failed /\ stops' = stops
      /\ domainjsons' = domainjsons /\ handlejsons' = handlejsons
      /\ burnaddresses' = burnaddresses /\ burnexpiredthisblock' = burnexpiredthisblock
      /\ events' = events /\ head' = head /\ head_id' = head_id
      /\ exporter_acked_block' = exporter_acked_block
  BY DEF relicVars, listVars
<1>2. /\ db.committed \in db.committed .. db.revision /\ db.revision \in db.committed .. db.revision
      /\ db.committed \in Nat /\ db.revision \in Nat
  BY RelicFacts
<1>3. \A m : BelowPending(m)' <=> BelowPending(m)
  BY <1>1 DEF BelowPending
<1>4. ListsEmpty' <=> ListsEmpty
  BY <1>1 DEF ListsEmpty
<1>5. \A n, j : ListsAt(n, j)' <=> ListsAt(n, j)
  BY <1>1 DEF ListsAt
<1>6. RelicTypes' /\ RowsBegin'
  BY <1>1 DEF RInv, RelicTypes, RowsBegin
<1>7. OneBlock'
  BY <1>1 DEF RInv, OneBlock, LastEvent
<1>8. DownClean'
  BY <1>1 DEF RInv, DownClean
<1>9. WorkOk'
  <2>1. WorkOk
    BY DEF RInv
  <2>2. \A e : InWork(e)' <=> InWork(e)
    BY <1>1, <1>4, <1>5 DEF InWork
  <2> QED
    BY <1>1, <1>4, <2>1, <2>2 DEF WorkOk
<1>10. NothingAbove'
  BY <1>1 DEF RInv, NothingAbove
<1>11. UndoableRows'
  <2>1. SUFFICES ASSUME Live', NEW m \in (db'.committed + 1) .. db'.revision, BelowPending(m)'
                 PROVE  rows'[m] = Expected(m, db'.at[m].head_id)
    BY DEF UndoableRows
  <2>2. m \in db.committed + 1 .. db.revision /\ m \in db.committed .. db.revision
    BY <1>2, <2>1
  <2> QED
    BY <1>1, <1>3, <2>1, <2>2 DEF RInv, UndoableRows
<1>12. CommittedRows'
  BY <1>1, <1>2 DEF RInv, CommittedRows
<1>13. PendingAbove'
  BY <1>1 DEF RInv, PendingAbove, BelowPending
<1>14. ForksOwed'
  <2>1. Announced(db)' <=> Announced(db)
    BY <1>2 DEF Announced, HasUndoSession, Tables
  <2> QED
    BY <1>1, <2>1 DEF RInv, ForksOwed
<1>15. AcksBehind'
  BY <1>1 DEF RInv, AcksBehind, BelowPending
<1> QED
  BY <1>6, <1>7, <1>8, <1>9, <1>10, <1>11, <1>12, <1>13, <1>14, <1>15 DEF RInv

\* A step of the chain leaves committed blocks alone.
LEMMA RelicChainInvariant ==
    ASSUME PromptShip, RInv, RelicChainStep PROVE RInv'
<1>1. IInv /\ ChainStep /\ UNCHANGED <<relicVars, stops>>
  BY DEF RInv, RelicChainStep
<1>2. IInv'
  BY <1>1, ChainStepInvariant
<1>3. UNCHANGED receiverVars
  BY <1>1 DEF ChainStep
<1>4. UNCHANGED <<db, pc, events, head, head_id, exporter_acked_block>>
  BY <1>3 DEF receiverVars, memory
<1>5. ASSUME NEW n \in BlockNums, n <= db.committed PROVE branch'[n] = branch[n]
  <2>1. ChainKeeps
    BY <1>1, ChainStepKeeps
  <2>2. db.committed <= final
    BY <1>1, InvariantFacts
  <2>3. n \in Nat /\ db.committed \in Nat /\ final \in Nat
    BY <1>1, RelicFacts, Numbers
  <2>4. n <= final
    BY <1>5, <2>2, <2>3
  <2> QED
    BY <2>1, <2>4 DEF ChainKeeps
<1>6. Live' => Live
  BY <1>4 DEF Live, SessionOpen
<1> QED
  BY <1>1, <1>2, <1>4, <1>5, <1>6, QuietStep

\* A refused start finds nothing to undo and changes nothing (load_state).
LEMMA RelicRefusedInvariant ==
    ASSUME RInv, NEW given, NEW end, StartRefused(given, end), ~HasUndoSession(db),
           UNCHANGED <<relicVars, stops>>
    PROVE  RInv'
<1>1. IInv /\ IInv'
  BY StartRefusedInvariant DEF RInv
<1>2. UNCHANGED <<shipVars, pc, memory, events>> /\ db' = UndoAll(db)
  BY DEF StartRefused
<1>3. db.committed \in Nat /\ db.revision \in Nat /\ db.committed = db.revision
  BY RelicFacts DEF HasUndoSession
<1>4. /\ db'.committed = db.committed /\ db'.revision = db.revision
      /\ \A r \in db.committed .. db.revision : db'.at[r] = db.at[r]
  BY <1>2, <1>3 DEF UndoAll, Window
<1>5. UNCHANGED <<branch, pc, events, head, head_id, exporter_acked_block>>
  BY <1>2 DEF shipVars, memory
<1>6. Live' => Live
  BY <1>5 DEF Live, SessionOpen
<1> QED
  BY <1>1, <1>4, <1>5, <1>6, QuietStep

\* The request for blocks, an abort and the pause timer publish nothing.
LEMMA RelicRequestInvariant ==
    ASSUME RInv, RequestBlocks, UNCHANGED <<relicVars, stops>> PROVE RInv'
<1>1. IInv /\ IInv'
  BY RequestInvariant DEF RInv
<1>2. /\ pc = "connecting" /\ pc' \in {"reading", "paused", "closed"}
      /\ UNCHANGED <<db, memory, events, branch>>
  BY ContinueReadStates DEF RequestBlocks, OpenSession
<1>3. UNCHANGED <<head, head_id, exporter_acked_block>>
  BY <1>2 DEF memory
<1>4. (Live' => Live) /\ pc # "down" /\ pc' # "down" /\ pc # "closed"
  BY <1>2 DEF Live, SessionOpen
<1> QED
  BY <1>1, <1>2, <1>3, <1>4, QuietStep

\* An abort keeps what is stored and what is queued (abort_receiver).
LEMMA RelicAbortInvariant ==
    ASSUME RInv, Abort, UNCHANGED <<relicVars, stops>> PROVE RInv'
<1>1. IInv /\ IInv'
  BY AbortInvariant DEF RInv
<1>2. /\ pc \in {"connecting", "reading", "paused"} /\ pc' \in {"quitting", "closed"}
      /\ UNCHANGED <<shipVars, db, memory, events>>
  BY DEF Abort, Aborted
<1>3. UNCHANGED <<head, head_id, exporter_acked_block, branch>>
  BY <1>2 DEF memory, shipVars
<1>4. (Live' => Live) /\ pc # "down" /\ pc' # "down" /\ pc # "closed"
  BY <1>2 DEF Live, SessionOpen
<1> QED
  BY <1>1, <1>2, <1>3, <1>4, QuietStep

\* At the end of the range everything is acknowledged, so committed already
\* (check_pause's commit_db finds nothing to do).
LEMMA RelicPauseInvariant ==
    ASSUME RInv, PauseTimer, UNCHANGED <<relicVars, stops>> PROVE RInv'
<1>1. IInv /\ IInv'
  BY PauseInvariant DEF RInv
<1>2. /\ pc = "paused" /\ pc' \in {"reading", "paused", "closed"}
      /\ UNCHANGED <<shipVars, memory, events>>
  BY ContinueReadStates DEF PauseTimer
<1>3. UNCHANGED <<head, head_id, exporter_acked_block, branch>>
  BY <1>2 DEF memory, shipVars
<1>4. (Live' => Live) /\ pc # "down" /\ pc' # "down" /\ pc # "closed" /\ Live
  BY <1>2 DEF Live, SessionOpen
<1>5. db' = db
  <2>1. CASE pc' # "closed"
    BY <2>1 DEF PauseTimer
  <2>2. CASE pc' = "closed"
    <3>1. EndReached(head, irreversible, exporter_acked_block)
      BY <2>2 DEF PauseTimer, ContinueRead
    <3>2. exporter_acked_block = head
      BY <3>1, RelicAssumption DEF EndReached
    <3>3. db.committed = db.revision
      BY <1>4, <3>2 DEF RInv, AcksBehind
    <3>4. PICK c : c = CommitRevision(irreversible, exporter_acked_block)
      OBVIOUS
    <3>5. c \in Nat /\ db.revision \in Nat
      BY <1>1, <3>4, InvariantFacts, CommitRevisionFinal
    <3>6. Commit(db, c) = db
      BY <3>3, <3>5 DEF Commit
    <3> QED
      BY <2>2, <3>4, <3>6 DEF PauseTimer
  <2> QED
    BY <2>1, <2>2
<1> QED
  BY <1>1, <1>2, <1>3, <1>4, <1>5, QuietStep

\* The process starts with an empty queue but for the forks it owes (load_state).
LEMMA StartFacts ==
    ASSUME RInv, NEW end \in EndBlocks, Start(end), NEW n, n = head' + 1
    PROVE  /\ pc = "down" /\ pc' = "connecting" /\ head' \in Nat /\ branch' = branch
           /\ exporter_acked_block' = head'
           /\ db'.committed = db.committed /\ db'.revision = db.committed
           /\ db'.at[db.committed] = db.at[db.committed]
           /\ db.at[db.committed].saved => head' = db.committed
           /\ ~db.at[db.committed].saved => head' = FirstHead
           /\ n \in Nat /\ db.committed < n /\ FirstHead < n
           /\ \A i \in DOMAIN events' : events'[i].type = "fork" /\ events'[i].num = n
           /\ DOMAIN events' = 1 .. Len(events') /\ Len(events') \in Nat
           /\ events' = <<>> <=> ~Announced(db)
           /\ events' = <<>> <=> Len(events') = 0
<1> DEFINE t == db.at[db.committed]
<1>1. IInv /\ IInv'
  BY StartInvariant DEF RInv
<1>2. /\ IsDatabase(db, TableContents) /\ db.committed \in Nat /\ db.revision \in Nat
      /\ db.committed <= db.revision /\ FirstHead \in Nat /\ WillAck
  BY <1>1, RelicFacts, InvariantFacts
<1>3. /\ UndoAll(db).committed = db.committed /\ UndoAll(db).revision = db.committed
      /\ UndoAll(db).at[db.committed] = t /\ Tables(UndoAll(db)) = t
  BY <1>2 DEF UndoAll, Window, Tables
<1>4. t.saved => t.head = db.committed
  BY <1>1, <1>2 DEF IInv, DbOk, RevisionHoldsBlock
<1>5. ~t.saved => db.committed <= FirstHead
  BY <1>1 DEF IInv, DbOk
<1>6. t.saved => db.committed > FirstHead
  BY DEF RInv, CommittedRows
<1>7. ResumeHead(t) = IF t.saved THEN db.committed ELSE FirstHead
  BY <1>4 DEF ResumeHead, FirstHead, EmptyTables
<1>8. /\ pc = "down" /\ pc' = "connecting" /\ branch' = branch /\ db' = UndoAll(db)
      /\ head' = ResumeHead(t) /\ exporter_acked_block' = ResumeHead(t)
      /\ events' = StartEvents(t, UndoDepth(db))
  BY <1>2, <1>3 DEF Start, shipVars
<1>9. head' \in Nat /\ n \in Nat /\ db.committed < n /\ FirstHead < n
  BY <1>2, <1>5, <1>6, <1>7, <1>8
<1> HIDE DEF t
<1>10. PICK f : f = ForkEvent(n, "resync")
  OBVIOUS
<1>11. PICK g : g = ForkEvent(n, "restart")
  OBVIOUS
<1>12. f.type = "fork" /\ f.num = n /\ g.type = "fork" /\ g.num = n
  BY <1>10, <1>11 DEF ForkEvent
<1>13. events' = (IF t.saved THEN <<>> ELSE <<f>>) \o (IF UndoDepth(db) > 0 THEN <<g>> ELSE <<>>)
  BY <1>8, <1>10, <1>11 DEF StartEvents
<1>14. UndoDepth(db) > 0 <=> HasUndoSession(db)
  BY <1>2 DEF UndoDepth, HasUndoSession
<1>15. PICK x, y : x = <<f>> /\ y = <<g>>
  OBVIOUS
<1>19. PICK S : S = {f, g}
  OBVIOUS
<1>20. /\ <<>> \in Seq(S) /\ x \in Seq(S) /\ y \in Seq(S)
       /\ 1 = Len(x) /\ x[1] = f /\ 1 = Len(y) /\ y[1] = g
  BY <1>15, <1>19, EmptySeq
<1>21. PICK z : z = x \o y
  OBVIOUS
<1>22. /\ z \in Seq(S) /\ Len(z) = 2 /\ z[1] = f /\ z[2] = g
  <2>1. z \in Seq(S) /\ Joins(z, x, y, 1, 1)
    BY <1>20, <1>21, ConcatMembers
  <2>2. z[1] = x[1] /\ z[1 + 1] = y[1] /\ Len(z) = 1 + 1
    BY <2>1 DEF Joins
  <2> QED
    BY <1>20, <2>1, <2>2
<1>23. /\ <<>> \o <<>> = <<>> /\ <<>> \o y = y /\ x \o <<>> = x
  BY <1>20, ConcatEmptySeq
<1>24. events' \in {<<>>, x, y, z}
  BY <1>13, <1>15, <1>21, <1>23
<1>16. events' = <<>> <=> (t.saved /\ ~HasUndoSession(db))
  <2>1. x # <<>> /\ y # <<>> /\ z # <<>>
    <3>1. PICK nil : nil = <<>>
      OBVIOUS
    <3>2. Len(nil) = 0
      BY <3>1, EmptySeq
    <3>4. Len(x) = 1 /\ Len(y) = 1 /\ Len(z) = 2
      BY <1>20, <1>22
    <3>3. x # nil /\ y # nil /\ z # nil
      BY <3>2, <3>4, SMT
    <3> QED
      BY <3>1, <3>3
  <2> QED
    BY <1>13, <1>14, <1>15, <1>21, <1>23, <2>1
<1>17. Announced(db) <=> HasUndoSession(db) \/ ~t.saved
  <2>1. CASE HasUndoSession(db)
    BY <2>1 DEF Announced
  <2>2. CASE ~HasUndoSession(db)
    <3>1. db.committed = db.revision
      BY <1>2, <2>2 DEF HasUndoSession
    <3> QED
      BY <2>2, <3>1 DEF Announced, Tables, t
  <2> QED
    BY <2>1, <2>2
<1>18. /\ \A i \in DOMAIN events' : events'[i].type = "fork" /\ events'[i].num = n
       /\ DOMAIN events' = 1 .. Len(events') /\ Len(events') \in Nat
       /\ events' = <<>> <=> Len(events') = 0
  <2>1. events' \in Seq(S)
    BY <1>20, <1>22, <1>24
  <2>2. DOMAIN events' = 1 .. Len(events') /\ Len(events') \in Nat
    BY <2>1, LenProperties
  <2>3. events' = <<>> <=> Len(events') = 0
    BY <2>1, EmptySeq
  <2>4. \A i \in DOMAIN events' : events'[i] \in S
    BY <2>1, <2>2, ElementOfSeq
  <2> QED
    BY <1>12, <1>19, <2>2, <2>3, <2>4
<1> QED
  BY <1>3, <1>7, <1>8, <1>9, <1>16, <1>17, <1>18 DEF t

\* The process starts: what it undoes in its own database it announces to the
\* exporter by a fork, unless there was nothing to undo (load_state).
LEMMA RelicStartInvariant ==
    ASSUME RInv, NEW end \in EndBlocks, Start(end), UNCHANGED <<relicVars, stops>>
    PROVE  RInv'
<1>1. IInv'
  BY StartInvariant DEF RInv
<1>2. PICK n : n = head' + 1
  OBVIOUS
<1>3. /\ pc = "down" /\ pc' = "connecting" /\ head' \in Nat /\ branch' = branch
      /\ exporter_acked_block' = head'
      /\ db'.committed = db.committed /\ db'.revision = db.committed
      /\ db'.at[db.committed] = db.at[db.committed]
      /\ db.at[db.committed].saved => head' = db.committed
      /\ ~db.at[db.committed].saved => head' = FirstHead
      /\ n \in Nat /\ db.committed < n /\ FirstHead < n
      /\ \A i \in DOMAIN events' : events'[i].type = "fork" /\ events'[i].num = n
      /\ DOMAIN events' = 1 .. Len(events') /\ Len(events') \in Nat
      /\ events' = <<>> <=> ~Announced(db)
      /\ events' = <<>> <=> Len(events') = 0
  BY <1>2, StartFacts
<1>4. /\ rows' = rows /\ position' = position /\ failed' = failed /\ stops' = stops
      /\ domainjsons' = domainjsons /\ handlejsons' = handlejsons
      /\ burnaddresses' = burnaddresses /\ burnexpiredthisblock' = burnexpiredthisblock
  BY DEF relicVars, listVars
<1>5. db.committed \in Nat /\ n \in Nat
  <2>1. db.committed \in Nat
    BY RelicFacts
  <2>2. n \in Nat
    BY <1>3
  <2> QED
    BY <2>1, <2>2
<1>6. events = <<>> /\ ~failed /\ position = 0 /\ ListsEmpty
  BY <1>3 DEF RInv, DownClean, WorkOk
<1>7. ListsEmpty'
  BY <1>4, <1>6 DEF ListsEmpty
<1>8. events' # <<>> => 1 \in DOMAIN events' /\ Len(events') \in DOMAIN events'
  BY <1>3
<1>9. ~Announced(db) => /\ db.at[db.committed].saved /\ n = db.committed + 1
                        /\ \A m \in BlockNums : m > db.committed => rows[m] = <<>>
  <2>1. ~Announced(db) => db.at[db.committed].saved
    BY RelicFacts DEF Announced, HasUndoSession, Tables
  <2> QED
    BY <1>2, <1>3, <1>6, <2>1 DEF RInv, ForksOwed
<1>10. RelicTypes' /\ RowsBegin'
  BY <1>4 DEF RInv, RelicTypes, RowsBegin
<1>11. OneBlock'
  <2>1. ASSUME events' # <<>>
        PROVE  /\ \A i \in DOMAIN events' : events'[i].num = events'[1].num
               /\ \A i \in 1 .. Len(events') - 1 : events'[i].type = "fork"
               /\ LastEvent(events[Len(events)])'
    <3>1. \A i \in 1 .. Len(events') - 1 : i \in DOMAIN events'
      BY <1>3
    <3>2. LastEvent(events[Len(events)])'
      BY <1>2, <1>3, <1>8, <2>1 DEF LastEvent
    <3> QED
      BY <1>3, <1>8, <2>1, <3>1, <3>2
  <2> QED
    BY <2>1 DEF OneBlock
<1>12. DownClean'
  BY <1>3 DEF DownClean
<1>13. WorkOk'
  <2>1. events' # <<>> => events'[1].type = "fork"
    BY <1>3, <1>8
  <2>2. events' # <<>> => Len(MessagesOf(events'[1])) = 1
    BY <2>1, MessagesOfEvent
  <2>3. events' # <<>> => InWork(events[1])'
    BY <1>4, <1>6, <1>7, <2>1 DEF InWork
  <2> QED
    BY <1>4, <1>6, <1>7, <2>2, <2>3 DEF WorkOk
<1>14. NothingAbove'
  BY <1>2, <1>3, <1>4, <1>5, <1>9 DEF NothingAbove
<1>15. UndoableRows'
  BY <1>3, <1>5 DEF UndoableRows
<1>16. CommittedRows'
  BY <1>3, <1>4 DEF RInv, CommittedRows
<1>17. PendingAbove'
  BY <1>3 DEF PendingAbove, BelowPending
<1>18. ForksOwed'
  <2>1. (~Announced(db))' => db.at[db.committed].saved
    BY <1>3 DEF Announced, HasUndoSession, Tables
  <2>2. db.at[db.committed].saved => n = db.committed + 1
    BY <1>2, <1>3
  <2> QED
    BY <1>3, <1>4, <1>6, <1>9, <2>1, <2>2 DEF ForksOwed
<1>19. AcksBehind'
  <2>1. \A i \in DOMAIN events' : head' < events'[i].num
    BY <1>2, <1>3
  <2> QED
    BY <1>3, <2>1 DEF AcksBehind, BelowPending
<1> QED
  BY <1>1, <1>10, <1>11, <1>12, <1>13, <1>14, <1>15, <1>16, <1>17, <1>18, <1>19 DEF RInv

-------------------------------------------------------------------------------
(* A block comes in: what is queued, undone and committed.                   *)

\* What accepting a block finds: nothing of it or above it is acknowledged, and
\* what is undone to it was the receiver's (receive_result).
LEMMA AcceptedBlock ==
    ASSUME RInv, AcceptResult, NEW d, d = PreparedDb
    PROVE  /\ Live /\ next \in BlockNums /\ next \in Nat
           /\ PreparedAck \in Nat /\ PreparedAck < next /\ PreparedAck <= exporter_acked_block
           /\ ForkDetected \/ next = head + 1
           /\ d.committed \in Nat /\ d.committed < next /\ d.revision = next - 1
           /\ FirstHead <= d.committed
           /\ BelowPending(d.committed)
           /\ d.at[d.committed].saved =>
                 d.committed = db.committed /\ db.at[db.committed].saved
           /\ \A m \in d.committed + 1 .. next - 1 :
                 /\ m \in db.committed + 1 .. db.revision /\ d.at[m] = db.at[m]
                 /\ d.at[m].head_id = branch[m]
<1>1. IInv /\ CanRead /\ ~Rejected
  BY DEF RInv, AcceptResult
<1>2. SessionOpen /\ Live
  BY <1>1 DEF CanRead, SessionOpen, Live
<1>3. /\ head \in Nat /\ exporter_acked_block \in Nat /\ next \in Nat /\ FirstHead \in Nat
      /\ db.committed \in Nat /\ db.revision \in Nat /\ db.committed <= db.revision /\ WillAck
      /\ head = IF Tables(db).saved THEN db.revision ELSE FirstHead
  BY <1>2, RelicFacts
<1>4. /\ next \in 1 .. tip /\ tip \in 1 .. MaxBlock /\ MaxBlock \in Nat
      /\ lib \in Nat /\ final \in Nat /\ lib <= final /\ PreparedAck \in Nat
  BY <1>1, AcceptNumbers
<1>5. next \in BlockNums
  BY <1>4 DEF BlockNums
<1>6. db.committed < next /\ next <= head + 1 /\ (next <= head => final < next)
  BY <1>1, <1>2 DEF IInv, SessionInv
<1>7. ForkDetected \/ next = head + 1
  BY <1>3, <1>4, <1>6 DEF ForkDetected
<1>8. exporter_acked_block <= head
  BY <1>2 DEF RInv, AcksBehind
<1>9. PreparedAck < next /\ PreparedAck <= exporter_acked_block
  BY <1>3, <1>7, <1>8 DEF PreparedAck
<1>10. /\ IsDatabase(d, TableContents) /\ DbOk(d) /\ d.revision = next - 1
       /\ (~d.at[d.committed].saved => d.committed = FirstHead)
       /\ \A r \in d.committed .. d.revision : d.at[r].saved => OnChain(d.at[r])
  BY <1>1, PreparedOk
<1>11. d.committed \in Nat /\ d.committed <= d.revision /\ d.committed < next
  BY <1>3, <1>10 DEF IsDatabase
<1>12. /\ BelowPending(d.committed)
       /\ d.at[d.committed].saved =>
             d.committed = db.committed /\ db.at[db.committed].saved
       /\ \A m \in d.committed + 1 .. next - 1 :
             m \in db.committed + 1 .. db.revision /\ d.at[m] = db.at[m]
  <2>1. CASE RevisionBehind
    <3>1. /\ next = head + 1 /\ ~Tables(db).saved
          /\ AlignedDb.committed = next - 1 /\ AlignedDb.revision = next - 1
          /\ AlignedDb.at[next - 1] = EmptyTables
      BY <1>1, <1>2, <2>1, AlignedOk DEF Rejected
    <3>2. ~ForkDetected
      BY <1>3, <3>1 DEF ForkDetected
    <3>3. d.committed = next - 1 /\ ~d.at[d.committed].saved
      BY <3>1, <3>2, RelicFacts DEF PreparedDb
    <3>4. d.committed = FirstHead
      BY <1>10, <3>3
    <3>5. BelowPending(d.committed)
      BY <3>4 DEF RInv, PendingAbove
    <3>6. \A m \in d.committed + 1 .. next - 1 : FALSE
      BY <1>3, <3>3
    <3> QED
      BY <3>3, <3>5, <3>6
  <2>2. CASE ~RevisionBehind
    <3>1. AlignedDb = db /\ db.revision >= next - 1
      BY <1>3, <2>2 DEF AlignedDb, RevisionBehind
    <3>2. CASE ForkDetected /\ db.revision >= next
      <4>1. d = Window(db, db.committed, next - 1)
        BY <3>1, <3>2 DEF PreparedDb, UndoFrom
      <4>2. /\ d.committed = db.committed
            /\ \A r \in db.committed .. next - 1 : d.at[r] = db.at[r]
        BY <4>1 DEF Window
      <4>3. db.committed \in db.committed .. next - 1
        BY <1>3, <1>6
      <4>4. \A m \in db.committed + 1 .. next - 1 :
               m \in db.committed .. next - 1 /\ m \in db.committed + 1 .. db.revision
        BY <1>3, <3>2
      <4> QED
        BY <4>2, <4>3, <4>4 DEF RInv, PendingAbove
    <3>3. CASE ~(ForkDetected /\ db.revision >= next)
      <4>1. d = db
        BY <3>1, <3>3 DEF PreparedDb, UndoFrom
      <4> QED
        BY <1>10, <4>1 DEF RInv, PendingAbove
    <3> QED
      BY <3>2, <3>3
  <2> QED
    BY <2>1, <2>2
<1>13. FirstHead <= d.committed
  <2>1. CASE d.at[d.committed].saved
    <3>1. db.committed > FirstHead
      BY <1>12, <2>1 DEF RInv, CommittedRows
    <3> QED
      BY <1>3, <1>12, <2>1, <3>1
  <2>2. CASE ~d.at[d.committed].saved
    BY <1>3, <1>10, <2>2
  <2> QED
    BY <2>1, <2>2
<1>14. ASSUME NEW m \in d.committed + 1 .. next - 1 PROVE d.at[m].head_id = branch[m]
  <2>1. m \in d.committed + 1 .. d.revision /\ m \in d.committed .. d.revision
    BY <1>10, <1>11
  <2>2. d.at[m].saved /\ RevisionHoldsBlock(d, m)
    BY <1>10, <2>1 DEF DbOk
  <2>3. d.at[m].head = m
    BY <2>2 DEF RevisionHoldsBlock
  <2>4. OnChain(d.at[m])
    BY <1>10, <2>1, <2>2
  <2> QED
    BY <2>3, <2>4 DEF OnChain
<1> QED
  BY <1>2, <1>3, <1>4, <1>5, <1>7, <1>9, <1>10, <1>11, <1>12, <1>13, <1>14

\* Storing a block commits only what the exporter has stored (commit_db).
LEMMA StoredBlock ==
    ASSUME RInv, StoreBlock, NEW d, d = db'
    PROVE  /\ d.revision = next /\ d.at[next].head_id = branch[next]
           /\ d.committed \in Nat /\ d.committed < next
           /\ BelowPending(d.committed)
           /\ d.at[d.committed].saved => d.committed > FirstHead
           /\ \A m \in BlockNums : FirstHead < m /\ m <= d.committed =>
                 rows[m] = Expected(m, branch[m])
           /\ \A m \in d.committed + 1 .. next - 1 :
                 m \in db.committed + 1 .. db.revision /\ d.at[m].head_id = db.at[m].head_id
<1> DEFINE c == CommitRevision(lib, PreparedAck)
<1>1. IInv /\ AcceptResult
  BY DEF RInv, StoreBlock
<1>2. PICK q : q = PreparedDb
  OBVIOUS
<1>3. /\ Live /\ next \in Nat
      /\ PreparedAck \in Nat /\ PreparedAck < next /\ PreparedAck <= exporter_acked_block
      /\ q.committed \in Nat /\ q.committed < next /\ q.revision = next - 1
      /\ FirstHead <= q.committed
      /\ BelowPending(q.committed)
      /\ q.at[q.committed].saved =>
            q.committed = db.committed /\ db.at[db.committed].saved
      /\ \A m \in q.committed + 1 .. next - 1 :
            /\ m \in db.committed + 1 .. db.revision /\ q.at[m] = db.at[m]
            /\ q.at[m].head_id = branch[m]
  BY <1>1, <1>2, AcceptedBlock
<1>4. FirstHead \in Nat /\ exporter_acked_block \in Nat /\ WillAck /\ lib \in Nat
  BY <1>1, RelicFacts, Numbers
<1>5. c \in Nat /\ c <= PreparedAck
  BY <1>3, <1>4 DEF CommitRevision
<1>6. PICK t : t = SavedTables
  OBVIOUS
<1>7. t.head_id = branch[next] /\ t.saved
  BY <1>1, <1>6, SavedTablesOk
<1>8. PICK p : p = PushRevision(q, t)
  OBVIOUS
<1>9. /\ p.committed = q.committed /\ p.revision = next
      /\ \A r \in q.committed .. next - 1 : p.at[r] = q.at[r]
      /\ p.at[next] = t
  <2>1. q.revision + 1 = next
    BY <1>3
  <2>2. /\ \A r \in q.committed .. next - 1 : r \in q.committed .. next /\ r # next
        /\ next \in q.committed .. next
    BY <1>3
  <2> QED
    BY <1>8, <2>1, <2>2 DEF PushRevision
<1>10. d = Commit(p, c)
  BY <1>2, <1>6, <1>8 DEF StoreBlock
<1> HIDE DEF c
<1>11. ASSUME NEW m \in q.committed + 1 .. c PROVE rows[m] = Expected(m, branch[m])
  <2>1. m \in q.committed + 1 .. next - 1 /\ m \in Nat /\ m <= exporter_acked_block
    BY <1>3, <1>4, <1>5
  <2>2. m \in db.committed + 1 .. db.revision /\ db.at[m].head_id = branch[m]
    BY <1>3, <2>1
  <2>3. BelowPending(m)
    <3>1. BelowPending(exporter_acked_block)
      BY <1>3 DEF RInv, AcksBehind
    <3>2. \A i \in DOMAIN events : events[i].num \in Nat
      <4>1. events \in Seq(Events)
        BY <1>1 DEF IInv, TypeOK
      <4>2. \A i \in DOMAIN events : events[i] \in Events
        BY <4>1, LenProperties, ElementOfSeq
      <4> QED
        BY <4>2, EventFacts
    <3> QED
      BY <1>4, <2>1, <3>1, <3>2 DEF BelowPending
  <2> QED
    BY <1>3, <2>2, <2>3 DEF RInv, UndoableRows
<1>12. ASSUME NEW m \in BlockNums, FirstHead < m, m <= q.committed
       PROVE  rows[m] = Expected(m, branch[m])
  <2>1. m \in Nat
    BY RelicFacts
  <2>2. q.at[q.committed].saved
    BY <1>1, <1>2, <1>3, <1>4, <1>12, <2>1, PreparedOk DEF AcceptResult
  <2> QED
    BY <1>3, <1>12, <2>2 DEF RInv, CommittedRows
<1>13. CASE c > q.committed
  <2>1. d = Window(p, c, next)
    BY <1>3, <1>5, <1>9, <1>10, <1>13 DEF Commit
  <2>2. d.committed = c /\ d.revision = next /\ \A r \in c .. next : d.at[r] = p.at[r]
    BY <2>1 DEF Window
  <2>3. /\ next \in c .. next /\ c < next
        /\ \A m \in c + 1 .. next - 1 : /\ m \in c .. next /\ m \in q.committed .. next - 1
                                        /\ m \in q.committed + 1 .. next - 1
    BY <1>3, <1>5, <1>13
  <2>4. \A m \in c + 1 .. next - 1 :
           m \in db.committed + 1 .. db.revision /\ d.at[m].head_id = db.at[m].head_id
    BY <1>3, <1>9, <2>2, <2>3
  <2>5. d.at[next].head_id = branch[next]
    BY <1>7, <1>9, <2>2, <2>3
  <2>6. c > FirstHead
    BY <1>3, <1>4, <1>5, <1>13
  <2>7. \A m \in BlockNums : FirstHead < m /\ m <= c => rows[m] = Expected(m, branch[m])
    <3>1. \A m \in BlockNums : m <= q.committed \/ ~(m <= c) \/ m \in q.committed + 1 .. c
      BY <1>3, <1>5, RelicFacts
    <3> QED
      BY <1>11, <1>12, <3>1
  <2>8. BelowPending(c)
    <3>1. BelowPending(exporter_acked_block) /\ c <= exporter_acked_block
      BY <1>3, <1>4, <1>5 DEF RInv, AcksBehind
    <3>2. \A i \in DOMAIN events : events[i].num \in Nat
      <4>1. events \in Seq(Events)
        BY <1>1 DEF IInv, TypeOK
      <4>2. \A i \in DOMAIN events : events[i] \in Events
        BY <4>1, LenProperties, ElementOfSeq
      <4> QED
        BY <4>2, EventFacts
    <3> QED
      BY <1>4, <1>5, <3>1, <3>2 DEF BelowPending
  <2> QED
    BY <1>5, <2>2, <2>3, <2>4, <2>5, <2>6, <2>7, <2>8
<1>14. CASE ~(c > q.committed)
  <2>1. d = p
    BY <1>3, <1>5, <1>9, <1>10, <1>14 DEF Commit
  <2>2. /\ q.committed \in q.committed .. next - 1
        /\ \A m \in q.committed + 1 .. next - 1 : m \in q.committed .. next - 1
    BY <1>3
  <2>3. d.at[d.committed].saved => d.committed > FirstHead
    BY <1>3, <1>9, <2>1, <2>2 DEF RInv, CommittedRows
  <2> QED
    BY <1>3, <1>7, <1>9, <1>12, <2>1, <2>2, <2>3
<1> QED
  BY <1>13, <1>14

\* What an accepted block adds to the queue (receive_result).
LEMMA NewEvents ==
    ASSUME IInv, AcceptResult, NEW x \in Events, x.num = next, x.type # "fork",
           events' = Append(PreparedEvents, x)
    PROVE  /\ events' # <<>> /\ Len(events') \in Nat \ {0} /\ DOMAIN events' = 1 .. Len(events')
           /\ events'[Len(events')] = x
           /\ \A i \in DOMAIN events' : events'[i].num = next
                                        \/ (i \in DOMAIN events /\ events'[i] = events[i])
           /\ \A i \in DOMAIN events : i \in DOMAIN events' /\ events'[i] = events[i]
           /\ events # <<>> => events'[1] = events[1]
           /\ events = <<>> =>
                 /\ \A i \in DOMAIN events' : events'[i].num = next
                 /\ \A i \in 1 .. Len(events') - 1 : events'[i].type = "fork"
                 /\ IF ForkDetected THEN events'[1].type = "fork" ELSE events'[1] = x
<1>1. PICK E : E = Events
  OBVIOUS
<1>2. PICK f : f = ForkEvent(next, "network")
  OBVIOUS
<1>3. PICK s : s = events
  OBVIOUS
<1>4. PICK l \in Nat : l = Len(s)
  <2>1. s \in Seq(E)
    BY <1>1, <1>3 DEF IInv, TypeOK
  <2> QED
    BY <2>1, LenProperties
<1>5. s \in Seq(E) /\ DOMAIN s = 1 .. l /\ (s = <<>> <=> l = 0)
  <2>1. s \in Seq(E)
    BY <1>1, <1>3 DEF IInv, TypeOK
  <2> QED
    BY <1>4, <2>1, LenProperties, EmptySeq
<1>6. PICK S : S = E \cup {f}
  OBVIOUS
<1>7. s \in Seq(S) /\ f \in S /\ x \in S
  <2>1. \A i \in 1 .. l : s[i] \in S
    BY <1>4, <1>5, <1>6, ElementOfSeq
  <2>2. s \in [1 .. l -> S]
    BY <1>4, <1>5, <2>1, LenProperties
  <2> QED
    BY <1>1, <1>4, <1>6, <2>2
<1>8. f.type = "fork" /\ f.num = next
  BY <1>2 DEF ForkEvent
<1>9. CASE ForkDetected
  <2>1. PICK t : t = Append(s, f)
    OBVIOUS
  <2>2. /\ t \in Seq(S) /\ Len(t) = l + 1 /\ t[l + 1] = f
        /\ \A i \in 1 .. l : t[i] = s[i]
    BY <1>4, <1>7, <2>1, AppendProperties
  <2>3. PICK u : u = Append(t, x)
    OBVIOUS
  <2>4. PICK k \in Nat : k = l + 1
    OBVIOUS
  <2>5. /\ u \in Seq(S) /\ Len(u) = k + 1 /\ u[k + 1] = x
        /\ \A i \in 1 .. k : u[i] = t[i]
    BY <1>7, <2>2, <2>3, <2>4, AppendProperties
  <2>6. events' = u
    BY <1>2, <1>3, <1>9, <2>1, <2>3 DEF PreparedEvents
  <2>7. DOMAIN u = 1 .. k + 1
    BY <2>5, LenProperties
  <2>8. /\ \A i \in 1 .. l : i \in 1 .. k /\ i \in 1 .. k + 1
        /\ \A i \in 1 .. k + 1 : i \in 1 .. l \/ i = l + 1 \/ i = k + 1
        /\ l + 1 \in 1 .. k /\ k + 1 # 0 /\ (k + 1) - 1 = k /\ k + 1 \in Nat
        /\ \A i \in 1 .. k : l = 0 => i = l + 1
        /\ l # 0 => 1 \in 1 .. l
    BY <2>4
  <2>9. u[l + 1] = f
    BY <2>2, <2>5, <2>8
  <2>10. \A i \in 1 .. l : u[i] = s[i]
    BY <2>2, <2>5, <2>8
  <2>11. \A i \in 1 .. k + 1 : u[i].num = next \/ (i \in 1 .. l /\ u[i] = s[i])
    BY <1>8, <2>5, <2>8, <2>9, <2>10
  <2>12. u # <<>>
    <3>1. PICK nil : nil = <<>>
      OBVIOUS
    <3>2. Len(nil) = 0
      BY <3>1, EmptySeq
    <3> QED
      BY <2>5, <2>8, <3>1, <3>2
  <2>13. l = 0 => /\ \A i \in 1 .. k + 1 : u[i].num = next
                  /\ \A i \in 1 .. k : u[i].type = "fork"
                  /\ u[1].type = "fork"
    <3>1. l = 0 => l + 1 = 1 /\ \A i \in 1 .. l : FALSE
      BY SMT
    <3> QED
      BY <1>8, <2>8, <2>9, <2>11, <3>1
  <2> QED
    BY <1>3, <1>5, <1>9, <2>5, <2>6, <2>7, <2>8, <2>10, <2>11, <2>12, <2>13
<1>10. CASE ~ForkDetected
  <2>1. PICK u : u = Append(s, x)
    OBVIOUS
  <2>2. /\ u \in Seq(S) /\ Len(u) = l + 1 /\ u[l + 1] = x
        /\ \A i \in 1 .. l : u[i] = s[i]
    BY <1>4, <1>7, <2>1, AppendProperties
  <2>3. events' = u
    BY <1>3, <1>10, <2>1 DEF PreparedEvents
  <2>4. DOMAIN u = 1 .. l + 1
    BY <2>2, LenProperties
  <2>5. /\ \A i \in 1 .. l : i \in 1 .. l + 1
        /\ \A i \in 1 .. l + 1 : i \in 1 .. l \/ i = l + 1
        /\ l + 1 # 0 /\ (l + 1) - 1 = l /\ l + 1 \in Nat
        /\ l # 0 => 1 \in 1 .. l
        /\ l = 0 => l + 1 = 1 /\ \A i \in 1 .. l : FALSE
    OBVIOUS
  <2>6. u # <<>>
    <3>1. PICK nil : nil = <<>>
      OBVIOUS
    <3>2. Len(nil) = 0
      BY <3>1, EmptySeq
    <3> QED
      BY <2>2, <2>5, <3>1, <3>2
  <2>7. \A i \in 1 .. l + 1 : u[i].num = next \/ (i \in 1 .. l /\ u[i] = s[i])
    BY <2>2, <2>5
  <2> QED
    BY <1>3, <1>5, <1>10, <2>2, <2>3, <2>4, <2>5, <2>6, <2>7
<1> QED
  BY <1>9, <1>10

\* A block that is received is published behind its fork, and nothing of it is
\* stored yet.
LEMMA ReceivedStep ==
    ASSUME RInv, IInv', AcceptResult, NEW x \in Events, x.num = next, x.type # "fork",
           x.type = "block" => x.id = branch[next], x.type = "partial" => pc' = "closed",
           events' = Append(PreparedEvents, x), events = <<>> \/ failed,
           UNCHANGED <<relicVars, stops>>, pc' \in {"reading", "paused", "closed"},
           CommittedRows', db'.committed \in Nat, db'.committed < next,
           BelowPending(db'.committed), Announced(db'),
           Live' => /\ db'.revision = next
                    /\ \A m \in db'.committed + 1 .. next - 1 :
                          /\ m \in db.committed + 1 .. db.revision
                          /\ db'.at[m].head_id = db.at[m].head_id
    PROVE  RInv'
<1>1. IInv /\ TypeOK
  BY DEF RInv, IInv
<1>2. PICK d : d = PreparedDb
  OBVIOUS
<1>3. /\ Live /\ next \in BlockNums /\ next \in Nat
      /\ PreparedAck \in Nat /\ PreparedAck < next /\ PreparedAck <= exporter_acked_block
      /\ ForkDetected \/ next = head + 1
      /\ d.committed \in Nat /\ d.committed < next /\ FirstHead <= d.committed
  BY <1>2, AcceptedBlock
<1>4. /\ head \in Nat /\ FirstHead \in Nat /\ exporter_acked_block \in Nat
      /\ \A n \in BlockNums : n \in Nat
  BY RelicFacts
<1>5. FirstHead < next
  BY <1>3, <1>4
<1>6. /\ head' = next /\ head_id' = branch[next] /\ exporter_acked_block' = PreparedAck
      /\ branch' = branch
  BY <1>1, AcceptFacts
<1>7. /\ events' # <<>> /\ Len(events') \in Nat \ {0} /\ DOMAIN events' = 1 .. Len(events')
      /\ events'[Len(events')] = x
      /\ \A i \in DOMAIN events' : events'[i].num = next
                                   \/ (i \in DOMAIN events /\ events'[i] = events[i])
      /\ \A i \in DOMAIN events : i \in DOMAIN events' /\ events'[i] = events[i]
      /\ events # <<>> => events'[1] = events[1]
      /\ events = <<>> =>
            /\ \A i \in DOMAIN events' : events'[i].num = next
            /\ \A i \in 1 .. Len(events') - 1 : events'[i].type = "fork"
            /\ IF ForkDetected THEN events'[1].type = "fork" ELSE events'[1] = x
  BY <1>1, NewEvents
<1>8. /\ rows' = rows /\ position' = position /\ failed' = failed /\ stops' = stops
      /\ domainjsons' = domainjsons /\ handlejsons' = handlejsons
      /\ burnaddresses' = burnaddresses /\ burnexpiredthisblock' = burnexpiredthisblock
  BY DEF relicVars, listVars
<1>9. 1 \in DOMAIN events' /\ Len(events') \in DOMAIN events'
  BY <1>7
<1>10. RelicTypes' /\ RowsBegin'
  BY <1>8 DEF RInv, RelicTypes, RowsBegin
<1>11. OneBlock'
  <2>1. ASSUME ~failed
        PROVE  /\ \A i \in DOMAIN events' : events'[i].num = events'[1].num
               /\ \A i \in 1 .. Len(events') - 1 : events'[i].type = "fork"
    BY <1>7, <1>9, <2>1
  <2>2. LastEvent(events[Len(events)])'
    BY <1>6, <1>7 DEF LastEvent
  <2> QED
    BY <1>8, <2>1, <2>2 DEF OneBlock
<1>12. DownClean'
  BY DEF DownClean
<1>13. WorkOk'
  <2>1. x.type \in {"block", "partial"}
    BY EventFacts
  <2>2. CASE events # <<>>
    <3>1. failed /\ position < Len(MessagesOf(events[1]))
      BY <2>2 DEF RInv, WorkOk
    <3> QED
      BY <1>7, <1>8, <2>2, <3>1 DEF WorkOk
  <2>3. CASE events = <<>>
    <3>1. position = 0
      BY <2>3 DEF RInv, WorkOk
    <3>2. ASSUME NEW e, e.type = "fork" \/ e = x PROVE 0 < Len(MessagesOf(e))
      <4>1. CASE e.type = "fork"
        <5>1. Len(MessagesOf(e)) = 1
          BY <4>1, MessagesOfEvent
        <5> QED
          BY <5>1
      <4>2. CASE e = x
        <5>1. PICK l \in Nat : l = Len(Content[next])
          BY <1>3, ContentType
        <5>2. Len(MessagesOf(e)) = l + (IF e.type = "block" THEN 2 ELSE 1)
          BY <1>3, <2>1, <4>2, <5>1, MessagesOfEvent
        <5>3. PICK k : k = Len(MessagesOf(e))
          OBVIOUS
        <5>4. k = l + 1 \/ k = l + 2
          BY <5>2, <5>3
        <5> QED
          BY <5>3, <5>4
      <4> QED
        BY <3>2, <4>1, <4>2
    <3>3. events'[1].type = "fork" \/ (events'[1] = x /\ ~ForkDetected)
      BY <1>7, <2>3
    <3>4. 0 < Len(MessagesOf(events'[1]))
      <4>1. PICK e : e = events'[1]
        OBVIOUS
      <4> QED
        BY <3>2, <3>3, <4>1
    <3>5. ASSUME ~failed PROVE InWork(events[1])'
      <4>1. pc # "closed" /\ pc # "down"
        BY <1>3 DEF Live, SessionOpen
      <4>2. ListsEmpty /\ \A m \in BlockNums : m > head => rows[m] = <<>>
        BY <2>3, <3>5, <4>1 DEF RInv, WorkOk, NothingAbove
      <4>3. ListsEmpty'
        BY <1>8, <4>2 DEF ListsEmpty
      <4>4. CASE events'[1].type = "fork"
        BY <1>8, <3>1, <4>3, <4>4 DEF InWork
      <4>5. CASE events'[1] = x /\ ~ForkDetected
        <5>1. next = head + 1
          BY <1>3, <4>5
        <5>2. ASSUME NEW m \in BlockNums, ~(m < next) PROVE rows[m] = <<>>
          <6>1. m \in Nat /\ head \in Nat
            BY <1>4
          <6>2. m > head
            BY <5>1, <5>2, <6>1
          <6> QED
            BY <4>2, <6>2
        <5>3. rows[next] = <<>> /\ \A m \in BlockNums : m > next => rows[m] = <<>>
          <6>1. ~(next < next) /\ \A m \in BlockNums : m > next => ~(m < next)
            BY <1>3, <1>4
          <6> QED
            BY <1>3, <5>2, <6>1
        <5>4. Beginning(next, branch[next], 0) = <<>> /\ Done(next, 0) = 0 /\ Handled(0) = 0
          BY DEF Beginning, Tagged, Done, Handled
        <5>5. ListsAt(next, 0)
          BY <1>3, <4>2, ListsBegin
        <5>6. PICK n : n = next
          OBVIOUS
        <5>7. ListsAt(n, 0)'
          BY <1>8, <5>5, <5>6 DEF ListsAt
        <5>8. rows'[n] = Beginning(n, head_id', Done(n, position'))
          BY <1>6, <1>8, <3>1, <5>3, <5>4, <5>6
        <5>9. ListsAt(n, Handled(position))'
          BY <1>8, <3>1, <5>4, <5>7 DEF ListsAt
        <5>10. events'[1].num = n /\ events'[1].type # "fork"
          BY <4>5, <5>6
        <5> QED
          BY <1>8, <5>3, <5>6, <5>8, <5>9, <5>10 DEF InWork, ListsAt
      <4> QED
        BY <3>3, <4>4, <4>5
    <3> QED
      BY <1>7, <1>8, <3>1, <3>4, <3>5 DEF WorkOk
  <2> QED
    BY <2>2, <2>3
<1>14. NothingAbove'
  BY <1>7 DEF NothingAbove
<1>15. UndoableRows'
  <2>1. SUFFICES ASSUME Live', NEW m \in (db'.committed + 1) .. db'.revision, BelowPending(m)'
                 PROVE  rows'[m] = Expected(m, db'.at[m].head_id)
    BY DEF UndoableRows
  <2>2. m < x.num
    BY <1>7, <1>9, <2>1 DEF BelowPending
  <2>3. m \in db'.committed + 1 .. next - 1
    BY <1>3, <2>1, <2>2
  <2>4. BelowPending(m)
    BY <1>7, <2>1 DEF BelowPending
  <2>5. /\ m \in db.committed + 1 .. db.revision
        /\ db'.at[m].head_id = db.at[m].head_id
    BY <2>1, <2>3
  <2> QED
    BY <1>3, <1>8, <2>4, <2>5 DEF RInv, UndoableRows
<1>16. PendingAbove'
  <2>1. BelowPending(FirstHead)
    BY DEF RInv, PendingAbove
  <2>2. ASSUME NEW i \in DOMAIN events'
        PROVE  db'.committed < events'[i].num /\ FirstHead < events'[i].num
    <3>1. CASE events'[i].num = next
      BY <1>5, <3>1
    <3>2. CASE i \in DOMAIN events /\ events'[i] = events[i]
      BY <2>1, <3>2 DEF BelowPending
    <3> QED
      BY <1>7, <3>1, <3>2
  <2> QED
    BY <2>2 DEF PendingAbove, BelowPending
<1>17. ForksOwed'
  BY DEF ForksOwed
<1>18. AcksBehind'
  <2>1. BelowPending(exporter_acked_block)
    BY <1>3 DEF RInv, AcksBehind
  <2>2. \A i \in DOMAIN events : events[i].num \in Nat
    <3>1. events \in Seq(Events)
      BY <1>1 DEF TypeOK
    <3>2. \A i \in DOMAIN events : events[i] \in Events
      BY <3>1, LenProperties, ElementOfSeq
    <3> QED
      BY <3>2, EventFacts
  <2>3. ASSUME NEW i \in DOMAIN events' PROVE PreparedAck < events'[i].num
    <3>1. CASE events'[i].num = next
      BY <1>3, <3>1
    <3>2. CASE i \in DOMAIN events /\ events'[i] = events[i]
      BY <1>3, <1>4, <2>1, <2>2, <3>2 DEF BelowPending
    <3> QED
      BY <1>7, <3>1, <3>2
  <2>4. PreparedAck <= next /\ PreparedAck # next
    BY <1>3
  <2> QED
    BY <1>6, <2>3, <2>4 DEF AcksBehind, BelowPending
<1> QED
  BY <1>10, <1>11, <1>12, <1>13, <1>14, <1>15, <1>16, <1>17, <1>18 DEF RInv

-------------------------------------------------------------------------------
(* Failures and the end of the process.                                      *)

\* A block that is stored may commit blocks: those are stored by the exporter.
LEMMA RelicStoreInvariant ==
    ASSUME RInv, StoreBlock, ReceiveBlock \/ ReceiveTracesFails,
           events = <<>> \/ failed, UNCHANGED <<relicVars, stops>>
    PROVE  RInv'
<1>1. IInv /\ IInv' /\ AcceptResult
  BY ReceiveInvariant DEF RInv, StoreBlock
<1>2. PICK d : d = db'
  OBVIOUS
<1>3. /\ d.revision = next /\ d.committed \in Nat /\ d.committed < next
      /\ BelowPending(d.committed)
      /\ d.at[d.committed].saved => d.committed > FirstHead
      /\ \A m \in BlockNums : FirstHead < m /\ m <= d.committed =>
            rows[m] = Expected(m, branch[m])
      /\ \A m \in d.committed + 1 .. next - 1 :
            m \in db.committed + 1 .. db.revision /\ d.at[m].head_id = db.at[m].head_id
  BY <1>2, StoredBlock
<1>4. next \in Nat /\ branch' = branch /\ rows' = rows
  BY <1>1, AcceptNumbers, AcceptFacts DEF relicVars
<1>5. CommittedRows'
  BY <1>2, <1>3, <1>4 DEF CommittedRows
<1>6. Announced(db')
  BY <1>2, <1>3, <1>4 DEF Announced, HasUndoSession
<1>7. PICK x : /\ x \in {BlockEvent(next, branch[next], lib), PartialEvent(next)}
               /\ events' = Append(PreparedEvents, x)
               /\ x = PartialEvent(next) => pc' = "closed"
               /\ pc' \in {"reading", "paused", "closed"}
  <2>1. CASE ReceiveBlock
    <3>1. pc' \in {"reading", "paused", "closed"}
      BY <2>1, ContinueReadStates DEF ReceiveBlock
    <3>2. BlockEvent(next, branch[next], lib) # PartialEvent(next)
      <4>1. BlockEvent(next, branch[next], lib).type # PartialEvent(next).type
        BY DEF BlockEvent, PartialEvent
      <4> QED
        BY <4>1
    <3> QED
      BY <2>1, <3>1, <3>2 DEF ReceiveBlock
  <2>2. CASE ReceiveTracesFails
    BY <2>2 DEF ReceiveTracesFails
  <2> QED
    BY <2>1, <2>2
<1>8. /\ x \in Events /\ x.num = next /\ x.type # "fork"
      /\ (x.type = "block" => x.id = branch[next])
      /\ (x.type = "partial" => pc' = "closed")
  <2>1. x \in Events
    BY <1>1, <1>7, PreparedEventsType
  <2>2. CASE x = BlockEvent(next, branch[next], lib)
    BY <2>1, <2>2 DEF BlockEvent
  <2>3. CASE x = PartialEvent(next)
    BY <1>7, <2>1, <2>3 DEF PartialEvent
  <2> QED
    BY <1>7, <2>2, <2>3
<1> QED
  BY <1>1, <1>2, <1>3, <1>5, <1>6, <1>7, <1>8, ReceivedStep

\* A block that fails before it is stored leaves the undo stack of its fork.
LEMMA RelicReceiveFailsInvariant ==
    ASSUME RInv, ReceiveBlockFails, events = <<>>, Announced(PreparedDb),
           UNCHANGED <<relicVars, stops>>
    PROVE  RInv'
<1>1. IInv /\ IInv' /\ AcceptResult
  BY ReceiveFailsInvariant DEF RInv, ReceiveBlockFails
<1>2. PICK d : d = db' /\ d = PreparedDb
  BY DEF ReceiveBlockFails
<1>3. /\ d.committed \in Nat /\ d.committed < next /\ BelowPending(d.committed)
      /\ d.at[d.committed].saved => d.committed = db.committed /\ db.at[db.committed].saved
  BY <1>1, <1>2, AcceptedBlock
<1>4. branch' = branch /\ rows' = rows
  BY <1>1, AcceptFacts DEF relicVars
<1>5. CommittedRows'
  BY <1>2, <1>3, <1>4 DEF RInv, CommittedRows
<1>6. pc' = "closed" /\ ~Live'
  BY DEF ReceiveBlockFails, Live, SessionOpen
<1>7. PICK x : x = PartialEvent(next)
  OBVIOUS
<1>8. x \in Events /\ x.num = next /\ x.type = "partial"
  BY <1>1, <1>7, PreparedEventsType DEF PartialEvent
<1>9. events' = Append(PreparedEvents, x)
  BY <1>7 DEF ReceiveBlockFails
<1> QED
  BY <1>1, <1>2, <1>3, <1>5, <1>6, <1>8, <1>9, ReceivedStep

\* A result that is refused closes the connection; nothing was waiting.
LEMMA RelicRejectInvariant ==
    ASSUME RInv, RejectResult, events = <<>>, UNCHANGED <<relicVars, stops>>
    PROVE  RInv'
<1>1. IInv /\ IInv'
  BY RejectInvariant DEF RInv
<1>2. /\ CanRead /\ pc' = "closed" /\ UNCHANGED <<chainVars, memory, events>>
      /\ db' = IF lib < irreversible \/ SetRevisionThrows(db) THEN db ELSE AlignedDb
  BY DEF RejectResult
<1>3. SessionOpen /\ pc # "down" /\ ~Live' /\ branch' = branch /\ head' = head /\ head_id' = head_id
      /\ events' = events
  BY <1>2 DEF CanRead, SessionOpen, Live, chainVars, memory
<1>4. CASE db' = db
  <2>1. UNCHANGED <<events, head, head_id, exporter_acked_block>>
    BY <1>2 DEF memory
  <2> QED
    BY <1>1, <1>2, <1>3, <1>4, <2>1, QuietStep
<1>5. CASE db' # db
  <2>1. db' = AlignedDb /\ RevisionBehind /\ ~SetRevisionThrows(db)
    BY <1>2, <1>5 DEF AlignedDb
  <2>2. /\ ~Tables(db).saved
        /\ AlignedDb.committed = next - 1 /\ AlignedDb.revision = next - 1
        /\ AlignedDb.at[next - 1] = EmptyTables
    BY <1>1, <1>3, <2>1, AlignedOk
  <2>3. ~db'.at[db'.committed].saved /\ Announced(db')
    BY <2>1, <2>2, RelicFacts DEF Announced, Tables
  <2>4. /\ rows' = rows /\ position' = position /\ failed' = failed /\ stops' = stops
        /\ domainjsons' = domainjsons /\ handlejsons' = handlejsons
        /\ burnaddresses' = burnaddresses /\ burnexpiredthisblock' = burnexpiredthisblock
    BY DEF relicVars, listVars
  <2>5. position = 0 /\ events' = <<>>
    BY <1>3 DEF RInv, WorkOk
  <2>6. RelicTypes' /\ RowsBegin'
    BY <2>4 DEF RInv, RelicTypes, RowsBegin
  <2>7. OneBlock' /\ DownClean' /\ WorkOk'
    BY <1>2, <2>4, <2>5 DEF OneBlock, DownClean, WorkOk
  <2>8. NothingAbove'
    BY <1>3, <2>4 DEF RInv, NothingAbove
  <2>9. UndoableRows' /\ AcksBehind'
    BY <1>3 DEF UndoableRows, AcksBehind
  <2>10. CommittedRows'
    BY <2>3 DEF CommittedRows
  <2>11. PendingAbove'
    <3>1. DOMAIN events' = {}
      BY <2>5
    <3> QED
      BY <3>1 DEF PendingAbove, BelowPending
  <2>12. ForksOwed'
    BY <2>3 DEF ForksOwed
  <2> QED
    BY <1>1, <2>6, <2>7, <2>8, <2>9, <2>10, <2>11, <2>12 DEF RInv
<1> QED
  BY <1>4, <1>5

\* The process ends: what it had in memory is gone, what is stored stays.
LEMMA RelicEndInvariant ==
    ASSUME RInv, ~LosesForks, ProcessEnds PROVE RInv'
<1>1. IInv /\ IInv' /\ Stop
  BY StopInvariant DEF RInv, ProcessEnds
<1>2. /\ pc' = "down" /\ events' = <<>> /\ position' = 0 /\ rows' = rows /\ ~failed' /\ failed' = FALSE
      /\ burnexpiredthisblock' = FALSE /\ db' = db /\ branch' = branch
      /\ ListsEmpty' /\ ~Live' /\ DOMAIN events' = {}
  BY <1>1 DEF Stop, ProcessEnds, ListsEmpty, Live, SessionOpen, shipVars
<1>3. RelicTypes'
  <2>1. stops' \in 0 .. MaxStops
    BY RelicAssumption DEF RInv, RelicTypes, ProcessEnds
  <2> QED
    BY <1>2, <2>1 DEF RInv, RelicTypes
<1>4. RowsBegin'
  BY <1>2 DEF RInv, RowsBegin
<1>5. OneBlock' /\ DownClean' /\ WorkOk' /\ NothingAbove'
  BY <1>2 DEF OneBlock, DownClean, WorkOk, NothingAbove
<1>6. UndoableRows' /\ AcksBehind'
  BY <1>2 DEF UndoableRows, AcksBehind
<1>7. CommittedRows'
  BY <1>2 DEF RInv, CommittedRows
<1>8. PendingAbove'
  BY <1>2 DEF PendingAbove, BelowPending
<1>9. ForksOwed'
  <2>1. ASSUME ~Announced(db), events # <<>> PROVE FALSE
    <3>1. \A i \in DOMAIN events : events[i].type = "fork"
      BY <2>1 DEF RInv, ForksOwed
    <3>2. 1 \in DOMAIN events
      BY <1>1, <2>1, QueueFacts DEF IInv
    <3>3. OnlyCopyPending
      BY <2>1, <3>1, <3>2 DEF OnlyCopyPending
    <3> QED
      BY <3>3 DEF ProcessEnds
  <2> QED
    BY <1>2, <2>1 DEF RInv, ForksOwed
<1> QED
  BY <1>1, <1>3, <1>4, <1>5, <1>6, <1>7, <1>8, <1>9 DEF RInv

-------------------------------------------------------------------------------
(* The plugin handles a message.                                             *)

\* An acknowledgement of the block below n (ack_block).
LEMMA AckFacts ==
    ASSUME RInv, Running, NEW n \in Nat \ {0}, AckEffect(n - 1)
    PROVE  /\ exporter_acked_block' \in {n - 1, exporter_acked_block}
           /\ forked_at_block' \in Nat /\ pc' \in ProcessStates
           /\ pc' # "down" /\ (Live' => Live)
           /\ (SessionOpen' => SessionOpen) /\ (pc' = "connecting" => pc = "connecting")
           /\ (pc = "closed" => pc' = "closed")
           /\ exporter_acked_block' \in Nat
<1>1. exporter_acked_block \in Nat /\ forked_at_block \in Nat /\ pc \in ProcessStates
  BY RelicFacts DEF TypeOK
<1>2. pc' \in {pc, Aborted}
  BY DEF AckEffect
<1>3. Aborted \in {"quitting", "closed"} /\ (Aborted = "quitting" => pc \in {"reading", "quitting"})
  BY DEF Aborted
<1>4. pc = "closed" => Aborted = "closed"
  BY DEF Aborted
<1> QED
  BY <1>1, <1>2, <1>3, <1>4 DEF AckEffect, Live, SessionOpen, Running, ProcessStates

\* What is left of the queue when its first event is done.
LEMMA RestOfQueue ==
    ASSUME RInv, events # <<>>, events' = Tail(events)
    PROVE  /\ events' \in Seq(Events)
           /\ \A m : BelowPending(m) => BelowPending(m)'
<1>1. /\ Len(events) \in Nat \ {0} /\ DOMAIN events = 1 .. Len(events)
      /\ Tail(events) \in Seq(Events)
      /\ DOMAIN Tail(events) = 1 .. Len(events) - 1
      /\ \A i \in 1 .. Len(events) - 1 : Tail(events)[i] = events[i + 1]
  BY RelicFacts, QueueFacts
<1>2. \A i \in DOMAIN events' : i + 1 \in DOMAIN events /\ events'[i] = events[i + 1]
  BY <1>1
<1> QED
  BY <1>1, <1>2 DEF BelowPending

\* The first event's block is above what is committed, and the last one's.
LEMMA FirstEvent ==
    ASSUME RInv, events # <<>>, NEW n, n = events[1].num
    PROVE  /\ n \in Nat \ {0} /\ Head(events) = events[1] /\ 1 \in DOMAIN events
           /\ db.committed < n /\ FirstHead < n
           /\ \A m : BelowPending(m) => m < n
           /\ Live => exporter_acked_block < n
<1>1. TypeOK
  BY RelicFacts
<1>2. events[1] \in Events /\ Head(events) = events[1] /\ 1 \in DOMAIN events
  BY <1>1, QueueFacts
<1>3. n \in Nat
  BY <1>2, EventFacts
<1>4. \A m : BelowPending(m) => m < n
  BY <1>2 DEF BelowPending
<1>5. db.committed < n /\ FirstHead < n /\ db.committed \in Nat
  BY <1>4, RelicFacts DEF RInv, PendingAbove
<1>6. Live => exporter_acked_block < n
  BY <1>4 DEF RInv, AcksBehind
<1> QED
  BY <1>2, <1>3, <1>4, <1>5, <1>6

\* Rows of the block in work change neither what is committed nor what is below.
LEMMA OneBlockRows ==
    ASSUME RInv, NEW n, db.committed < n, \A m \in BlockNums : m # n => rows'[m] = rows[m],
           UNCHANGED <<db, branch>>
    PROVE  CommittedRows'
<1>1. db.committed \in Nat /\ \A m \in BlockNums : m \in Nat
  BY RelicFacts
<1>2. \A m \in BlockNums : m <= db.committed => m # n
  BY <1>1
<1> QED
  BY <1>2 DEF RInv, CommittedRows

\* FORK is alone in its event.
LEMMA ForkMessage ==
    ASSUME RInv, ~failed, events # <<>>, NEW e, e = events[1], NEW m, m = MessagesOf(e)[position + 1],
           e.type = "fork" \/ m.type = "FORK"
    PROVE  /\ e.type = "fork" /\ position = 0 /\ ListsEmpty /\ Len(MessagesOf(e)) = 1
           /\ m = Simple("FORK") /\ m.type = "FORK"
<1>1. e.type = "fork"
  <2>1. SUFFICES ASSUME e.type # "fork" PROVE FALSE
    OBVIOUS
  <2>2. m.type \in {"BLOCK", "TBL_ROW", "TX_TRACE", "BLOCK_COMPLETED"}
    <3>1. PICK n, k, s : n = e.num /\ k = position /\ s = Statements(m, n)
      OBVIOUS
    <3> QED
      BY <2>1, <3>1, BlockMessage
  <2> QED
    BY <2>1, <2>2
<1>2. position = 0 /\ ListsEmpty
  BY <1>1 DEF RInv, WorkOk, InWork
<1>3. Len(MessagesOf(e)) = 1 /\ MessagesOf(e)[1] = Simple("FORK")
  BY <1>1, MessagesOfEvent
<1>4. m = Simple("FORK")
  BY <1>2, <1>3
<1> QED
  BY <1>1, <1>2, <1>3, <1>4 DEF Simple

\* BLOCK, a row or a transaction stores the statements of the block that come next.
LEMMA ContentInvariant ==
    ASSUME RInv, HandleContent PROVE RInv'
<1>1. /\ pc # "down" /\ ~failed /\ events # <<>> /\ TypeOK /\ IInv
      /\ UNCHANGED <<shipVars, db, pc, memory, failed, stops>>
  BY RelicFacts DEF HandleContent, CanHandle, Running, RInv
<1>2. PICK e : e = events[1]
  OBVIOUS
<1>3. PICK n : n = e.num
  OBVIOUS
<1>4. PICK k : k = position
  OBVIOUS
<1>5. PICK m : m = MessagesOf(e)[k + 1]
  OBVIOUS
<1>6. PICK s : s = Statements(m, n)
  OBVIOUS
<1>7. /\ n \in Nat \ {0} /\ Head(events) = e
      /\ db.committed < n
      /\ \A i : BelowPending(i) => i < n
  BY <1>1, <1>2, <1>3, FirstEvent
<1>8. m = Message /\ m.type \in {"BLOCK", "TX_TRACE", "TBL_ROW"}
  BY <1>4, <1>5, <1>7 DEF HandleContent, Message
<1>9. e.type # "fork"
  BY <1>1, <1>2, <1>4, <1>5, <1>8, ForkMessage
<1>10. /\ n \in BlockNums /\ Follows(n, k, s)
       /\ Done(n, k + 1) = Done(n, k) + Len(s)
       /\ k + 1 = Len(MessagesOf(e)) => e.type = "partial"
       /\ Collect(m, n) => ListsAt(n, Handled(k + 1))'
  <2>1. /\ n \in BlockNums /\ Follows(n, k, s)
        /\ m.type # "BLOCK_COMPLETED" =>
              /\ Done(n, k + 1) = Done(n, k) + Len(s)
              /\ k + 1 = Len(MessagesOf(e)) => e.type = "partial"
              /\ Collect(m, n) => ListsAt(n, Handled(k + 1))'
    BY <1>1, <1>2, <1>3, <1>4, <1>5, <1>6, <1>9, BlockMessage
  <2>2. m.type # "BLOCK_COMPLETED"
    BY <1>8
  <2> QED
    BY <2>1, <2>2
<1>11. /\ e \in Events /\ e.type \in {"block", "partial"} /\ Len(events) \in Nat \ {0}
       /\ DOMAIN events = 1 .. Len(events)
  BY <1>1, <1>2, <1>9, QueueFacts, EventFacts
<1>12. Len(events) = 1
  <2>1. \A i \in 1 .. Len(events) - 1 : events[i].type = "fork"
    BY <1>1 DEF RInv, OneBlock
  <2> QED
    BY <1>2, <1>9, <1>11, <2>1
<1>13. LastEvent(e)
  BY <1>1, <1>2, <1>12 DEF RInv, OneBlock
<1>14. /\ n = head /\ (e.type = "partial" => pc = "closed")
       /\ (e.type = "block" => e.id = head_id)
  BY <1>3, <1>11, <1>13 DEF LastEvent
<1>15. /\ rows[n] = Beginning(n, head_id, Done(n, k))
       /\ \A i \in BlockNums : i > n => rows[i] = <<>>
  BY <1>1, <1>2, <1>3, <1>4, <1>9 DEF RInv, WorkOk, InWork
<1>16. Version(e) = head_id
  BY <1>14 DEF Version
<1>17. rows \in [BlockNums -> Seq(RowRecords)] /\ k \in Nat /\ k < Len(MessagesOf(e))
  BY <1>1, <1>2, <1>4 DEF RInv, RelicTypes, WorkOk
<1>18. /\ Done(n, k + 1) \in 0 .. Len(ExpectedStatements[n])
       /\ rows' = [rows EXCEPT ![n] = Beginning(n, head_id, Done(n, k + 1))]
  <2>1. Len(s) \in 0 .. Len(s)
    <3>1. s \in Seq(StatementRecords)
      BY <1>10 DEF Follows
    <3>2. Len(s) \in Nat
      BY <3>1, LenProperties
    <3> QED
      BY <3>2
  <2>2. PICK v : v = head_id
    OBVIOUS
  <2>3. /\ Stored(s, Len(s), n, v) = [rows EXCEPT ![n] = Beginning(n, v, Done(n, k) + Len(s))]
        /\ Done(n, k) + Len(s) \in 0 .. Len(ExpectedStatements[n])
    BY <1>10, <1>15, <1>17, <2>1, <2>2, StoredFollows
  <2>4. rows' = Stored(s, Len(s), n, v)
    BY <1>3, <1>6, <1>7, <1>8, <1>16, <2>2 DEF HandleContent
  <2> QED
    BY <1>10, <2>2, <2>3, <2>4
<1>19. /\ rows'[n] = Beginning(n, head_id, Done(n, k + 1))
       /\ \A i \in BlockNums : i # n => rows'[i] = rows[i]
  BY <1>10, <1>17, <1>18
<1>20. Collect(m, n) /\ NextMessage
  BY <1>3, <1>7, <1>8 DEF HandleContent
<1>21. /\ head' = head /\ head_id' = head_id /\ exporter_acked_block' = exporter_acked_block
       /\ db' = db /\ pc' = pc /\ branch' = branch /\ failed' = failed /\ stops' = stops
  BY <1>1 DEF memory, shipVars
<1>22. /\ head \in Nat /\ head_id \in Versions
       /\ \A i \in BlockNums : i \in Nat
  BY RelicFacts
<1>23. IF k + 1 = Len(MessagesOf(e)) THEN position' = 0 /\ events' = <<>>
       ELSE position' = k + 1 /\ events' = events
  <2>1. Tail(events) = <<>>
    BY <1>1, <1>12, QueueFacts
  <2> QED
    BY <1>4, <1>7, <1>20, <2>1 DEF NextMessage
<1>24. events' \in Seq(Events)
  <2>1. events \in Seq(Events) /\ <<>> \in Seq(Events)
    BY <1>1, EmptySeq DEF TypeOK
  <2> QED
    BY <1>23, <2>1
<1>25. IInv'
  <2>1. TypeOK'
    BY <1>1, <1>24 DEF TypeOK, ChainTypeOK, shipVars, memory, IsDatabase
  <2>2. (pc' = "connecting" \/ SessionOpen') => UNCHANGED <<head, head_id, irreversible>>
    BY <1>1 DEF memory
  <2>3. (SessionOpen' => SessionOpen) /\ (pc' = "connecting" => pc = "connecting")
    BY <1>21 DEF SessionOpen
  <2> QED
    BY <1>1, <2>1, <2>2, <2>3, OutsideStepInvariant
<1>26. RelicTypes'
  <2>1. Beginning(n, head_id, Done(n, k + 1)) \in Seq(RowRecords)
    BY <1>10, <1>18, <1>22, BeginningProperties
  <2>2. rows' \in [BlockNums -> Seq(RowRecords)]
    BY <1>17, <1>18, <2>1
  <2>3. burnexpiredthisblock' \in BOOLEAN
    BY <1>20 DEF Collect, RInv, RelicTypes
  <2> QED
    BY <1>17, <1>21, <1>23, <2>2, <2>3 DEF RInv, RelicTypes
<1>27. RowsBegin'
  <2>1. ASSUME NEW i \in BlockNums
        PROVE  \E v \in Versions : \E j \in 0 .. Len(ExpectedStatements[i]) :
                  rows'[i] = Beginning(i, v, j)
    <3>1. CASE i = n
      BY <1>18, <1>19, <1>22, <3>1
    <3>2. CASE i # n
      BY <1>19, <3>2 DEF RInv, RowsBegin
    <3> QED
      BY <3>1, <3>2
  <2> QED
    BY <2>1 DEF RowsBegin
<1>28. CASE k + 1 = Len(MessagesOf(e))
  <2>1. events' = <<>> /\ position' = 0 /\ pc' = "closed" /\ ~Live'
    BY <1>10, <1>14, <1>21, <1>23, <1>28 DEF Live, SessionOpen
  <2>2. DOMAIN events' = {}
    BY <2>1
  <2>3. OneBlock' /\ DownClean' /\ WorkOk' /\ UndoableRows' /\ AcksBehind' /\ PendingAbove'
    BY <2>1, <2>2
       DEF OneBlock, DownClean, WorkOk, UndoableRows, AcksBehind, PendingAbove, BelowPending
  <2>4. NothingAbove'
    <3>1. \A i \in BlockNums : i > n => i # n
      BY <1>7, <1>22
    <3> QED
      BY <1>14, <1>15, <1>19, <1>21, <3>1 DEF NothingAbove
  <2>5. ForksOwed'
    <3>1. Announced(db)
      BY <1>2, <1>9, <1>11 DEF RInv, ForksOwed
    <3> QED
      BY <1>21, <3>1 DEF ForksOwed
  <2>6. CommittedRows'
    BY <1>7, <1>19, <1>21, OneBlockRows
  <2> QED
    BY <1>25, <1>26, <1>27, <2>3, <2>4, <2>5, <2>6 DEF RInv
<1>29. CASE k + 1 # Len(MessagesOf(e))
  <2>1. events' = events /\ position' = k + 1 /\ events # <<>>
    BY <1>1, <1>23, <1>29
  <2>2. \A i : BelowPending(i)' <=> BelowPending(i)
    BY <2>1 DEF BelowPending
  <2>3. OneBlock'
    BY <1>21, <2>1 DEF RInv, OneBlock, LastEvent
  <2>4. DownClean' /\ NothingAbove'
    BY <1>1, <1>21, <2>1 DEF DownClean, NothingAbove
  <2>5. WorkOk'
    <3>1. position' < Len(MessagesOf(e))
      <4>1. PICK l : l = Len(MessagesOf(e))
        OBVIOUS
      <4>2. l \in Nat
        <5>1. PICK c \in Nat : c = Len(Content[n])
          BY <1>10, ContentType
        <5>2. l = c + (IF e.type = "block" THEN 2 ELSE 1)
          BY <1>3, <1>10, <1>11, <4>1, <5>1, MessagesOfEvent
        <5>3. l = c + 2 \/ l = c + 1
          BY <5>2
        <5> QED
          BY <5>1, <5>3
      <4> QED
        BY <1>17, <1>29, <2>1, <4>1, <4>2
    <3>2. \A i \in BlockNums : i > n => rows'[i] = <<>>
      <4>1. \A i \in BlockNums : i > n => i # n
        BY <1>7, <1>22
      <4> QED
        BY <1>15, <1>19, <4>1
    <3>3. ListsAt(n, Handled(position))'
      <4>1. ListsAt(n, Handled(k + 1))'
        BY <1>10, <1>20
      <4>2. PICK j : j = Handled(k + 1)
        OBVIOUS
      <4>3. ListsAt(n, j)'
        BY <4>1, <4>2 DEF ListsAt
      <4>4. Handled(position)' = j
        BY <2>1, <4>2 DEF Handled
      <4> QED
        BY <4>3, <4>4 DEF ListsAt
    <3>4. rows'[n] = Beginning(n, head_id', Done(n, position'))
      BY <1>19, <1>21, <2>1
    <3>5. InWork(events[1])'
      BY <1>2, <1>3, <1>9, <2>1, <3>2, <3>3, <3>4 DEF InWork, ListsAt
    <3> QED
      BY <1>2, <2>1, <3>1, <3>5 DEF WorkOk
  <2>6. UndoableRows'
    <3>1. SUFFICES ASSUME Live', NEW i \in (db'.committed + 1) .. db'.revision, BelowPending(i)'
                   PROVE  rows'[i] = Expected(i, db'.at[i].head_id)
      BY DEF UndoableRows
    <3>2. Live /\ BelowPending(i) /\ i \in db.committed + 1 .. db.revision
      BY <1>21, <2>2, <3>1 DEF Live, SessionOpen
    <3>3. rows[i] = Expected(i, db.at[i].head_id)
      BY <3>2 DEF RInv, UndoableRows
    <3>4. i \in BlockNums /\ i # n
      <4>1. i < n
        BY <1>7, <3>2
      <4>2. db.committed \in Nat /\ db.revision \in Nat /\ MaxBlock \in Nat
        BY RelicFacts
      <4>3. db.revision <= MaxBlock
        BY <1>1 DEF IInv, DbOk
      <4> QED
        BY <1>7, <3>2, <4>1, <4>2, <4>3 DEF BlockNums
    <3> QED
      BY <1>19, <1>21, <3>3, <3>4
  <2>7. CommittedRows'
    BY <1>7, <1>19, <1>21, OneBlockRows
  <2>8. PendingAbove' /\ AcksBehind'
    BY <1>21, <2>1 DEF RInv, PendingAbove, AcksBehind, BelowPending, Live, SessionOpen
  <2>9. ForksOwed'
    <3>1. Announced(db)
      BY <1>2, <1>9, <1>11 DEF RInv, ForksOwed
    <3> QED
      BY <1>21, <3>1 DEF ForksOwed
  <2> QED
    BY <1>25, <1>26, <1>27, <2>3, <2>4, <2>5, <2>6, <2>7, <2>8, <2>9 DEF RInv
<1> QED
  BY <1>28, <1>29

\* BLOCK_COMPLETED makes the block whole and acknowledges the one below it.
LEMMA CompletedInvariant ==
    ASSUME RInv, HandleBlockCompleted PROVE RInv'
<1>1. /\ Running /\ pc # "down" /\ ~failed /\ events # <<>> /\ TypeOK /\ IInv
      /\ UNCHANGED <<shipVars, db, head, head_id, irreversible, start_block_num,
                     end_block_num, failed, stops>>
  BY RelicFacts DEF HandleBlockCompleted, CanHandle, Running, RInv
<1>2. PICK e : e = events[1]
  OBVIOUS
<1>3. PICK n : n = e.num
  OBVIOUS
<1>4. PICK k : k = position
  OBVIOUS
<1>5. PICK m : m = MessagesOf(e)[k + 1]
  OBVIOUS
<1>6. PICK s : s = Statements(m, n)
  OBVIOUS
<1>7. /\ n \in Nat \ {0} /\ Head(events) = e
      /\ db.committed < n
      /\ \A i : BelowPending(i) => i < n
      /\ Live => exporter_acked_block < n
  BY <1>1, <1>2, <1>3, FirstEvent
<1>8. m = Message /\ m.type = "BLOCK_COMPLETED"
  BY <1>4, <1>5, <1>7 DEF HandleBlockCompleted, Message
<1>9. e.type # "fork"
  BY <1>1, <1>2, <1>4, <1>5, <1>8, ForkMessage
<1>10. /\ n \in BlockNums /\ Follows(n, k, s)
       /\ Done(n, k) + Len(s) = Len(ExpectedStatements[n])
       /\ k + 1 = Len(MessagesOf(e)) /\ e.type = "block"
  <2>1. /\ n \in BlockNums /\ Follows(n, k, s)
        /\ m.type = "BLOCK_COMPLETED" =>
              /\ Done(n, k) + Len(s) = Len(ExpectedStatements[n])
              /\ k + 1 = Len(MessagesOf(e)) /\ e.type = "block"
    BY <1>1, <1>2, <1>3, <1>4, <1>5, <1>6, <1>9, BlockMessage
  <2> QED
    BY <1>8, <2>1
<1>11. e \in Events /\ Len(events) \in Nat \ {0} /\ DOMAIN events = 1 .. Len(events)
  BY <1>1, <1>2, QueueFacts
<1>12. Len(events) = 1
  <2>1. \A i \in 1 .. Len(events) - 1 : events[i].type = "fork"
    BY <1>1 DEF RInv, OneBlock
  <2> QED
    BY <1>2, <1>9, <1>11, <2>1
<1>13. n = head /\ e.id = head_id
  <2>1. LastEvent(e)
    BY <1>1, <1>2, <1>12 DEF RInv, OneBlock
  <2> QED
    BY <1>3, <1>10, <2>1 DEF LastEvent
<1>14. /\ rows[n] = Beginning(n, head_id, Done(n, k))
       /\ \A i \in BlockNums : i > n => rows[i] = <<>>
  BY <1>1, <1>2, <1>3, <1>4, <1>9 DEF RInv, WorkOk, InWork
<1>15. rows \in [BlockNums -> Seq(RowRecords)]
  BY DEF RInv, RelicTypes
<1>16. /\ head \in Nat /\ head_id \in Versions /\ exporter_acked_block \in Nat
       /\ \A i \in BlockNums : i \in Nat
       /\ db.committed \in Nat /\ db.revision \in Nat /\ MaxBlock \in Nat /\ FirstHead \in Nat
       /\ (Live => head = IF Tables(db).saved THEN db.revision ELSE FirstHead)
       /\ (Live => head_id = Tables(db).head_id)
  BY RelicFacts
<1>17. /\ Len(ExpectedStatements[n]) \in 0 .. Len(ExpectedStatements[n])
       /\ rows' = [rows EXCEPT ![n] = Expected(n, head_id)]
       /\ Expected(n, head_id) = Beginning(n, head_id, Len(ExpectedStatements[n]))
       /\ Expected(n, head_id) \in Seq(RowRecords)
  <2>1. Len(s) \in 0 .. Len(s)
    <3>1. s \in Seq(StatementRecords)
      BY <1>10 DEF Follows
    <3>2. Len(s) \in Nat
      BY <3>1, LenProperties
    <3> QED
      BY <3>2
  <2>2. PICK v : v = head_id
    OBVIOUS
  <2>3. Stored(s, Len(s), n, v) = [rows EXCEPT ![n] = Beginning(n, v, Done(n, k) + Len(s))]
    BY <1>10, <1>14, <1>15, <2>1, <2>2, StoredFollows
  <2>4. rows' = Stored(s, Len(s), n, v)
    BY <1>3, <1>6, <1>7, <1>8, <1>10, <1>13, <2>2 DEF HandleBlockCompleted, Version
  <2>5. PICK l \in Nat : l = Len(ExpectedStatements[n])
    BY <1>10, ExpectedParts
  <2>6. l \in 0 .. Len(ExpectedStatements[n])
    BY <2>5
  <2>7. /\ v \in Versions => Beginning(n, v, l) \in Seq(RowRecords)
        /\ Beginning(n, v, Len(ExpectedStatements[n])) = Expected(n, v)
    BY <1>10, <2>6, BeginningProperties
  <2> QED
    BY <1>10, <1>16, <2>2, <2>3, <2>4, <2>5, <2>6, <2>7
<1>18. /\ rows'[n] = Expected(n, head_id)
       /\ \A i \in BlockNums : i # n => rows'[i] = rows[i]
  BY <1>10, <1>15, <1>17
<1>19. AckEffect(n - 1)
  BY <1>3, <1>7 DEF HandleBlockCompleted, AckOf
<1>20. /\ exporter_acked_block' \in {n - 1, exporter_acked_block}
       /\ forked_at_block' \in Nat /\ pc' \in ProcessStates
       /\ pc' # "down" /\ (Live' => Live)
       /\ (SessionOpen' => SessionOpen) /\ (pc' = "connecting" => pc = "connecting")
       /\ exporter_acked_block' \in Nat
  BY <1>1, <1>7, <1>19, AckFacts
<1>21. position' = 0 /\ events' = <<>>
  <2>1. Tail(events) = <<>> /\ events' = Tail(events) /\ position' = 0
    BY <1>1, <1>4, <1>7, <1>10, <1>12, QueueFacts DEF HandleBlockCompleted, NextMessage
  <2> QED
    BY <2>1
<1>22. /\ head' = head /\ head_id' = head_id
       /\ db' = db /\ branch' = branch /\ failed' = failed /\ stops' = stops
  BY <1>1 DEF shipVars
<1>23. IInv'
  <2>1. events' \in Seq(Events)
    BY <1>21, EmptySeq
  <2>2. TypeOK'
    BY <1>1, <1>20, <2>1 DEF TypeOK, ChainTypeOK, shipVars, IsDatabase
  <2>3. (pc' = "connecting" \/ SessionOpen') => UNCHANGED <<head, head_id, irreversible>>
    BY <1>1
  <2> QED
    BY <1>1, <1>20, <2>2, <2>3, OutsideStepInvariant
<1>24. ListsEmpty' /\ burnexpiredthisblock' \in BOOLEAN /\ DOMAIN events' = {}
  <2>1. /\ domainjsons' = <<>> /\ handlejsons' = <<>> /\ burnaddresses' = {}
        /\ burnexpiredthisblock' = FALSE
    BY DEF HandleBlockCompleted, ClearedFlag
  <2>2. DOMAIN events' = {}
    BY <1>21
  <2> QED
    BY <2>1, <2>2 DEF ListsEmpty
<1>25. RelicTypes'
  <2>1. rows' \in [BlockNums -> Seq(RowRecords)]
    BY <1>15, <1>17
  <2> QED
    BY <1>21, <1>22, <1>24, <2>1 DEF RInv, RelicTypes
<1>26. RowsBegin'
  <2>1. ASSUME NEW i \in BlockNums
        PROVE  \E v \in Versions : \E j \in 0 .. Len(ExpectedStatements[i]) :
                  rows'[i] = Beginning(i, v, j)
    <3>1. CASE i = n
      BY <1>16, <1>17, <1>18, <3>1
    <3>2. CASE i # n
      BY <1>18, <3>2 DEF RInv, RowsBegin
    <3> QED
      BY <3>1, <3>2
  <2> QED
    BY <2>1 DEF RowsBegin
<1>27. OneBlock' /\ DownClean' /\ WorkOk' /\ PendingAbove'
  BY <1>20, <1>21, <1>24
     DEF OneBlock, DownClean, WorkOk, PendingAbove, BelowPending
<1>28. NothingAbove'
  <2>1. \A i \in BlockNums : i > n => i # n
    BY <1>7, <1>16
  <2> QED
    BY <1>13, <1>14, <1>18, <1>22, <2>1 DEF NothingAbove
<1>29. UndoableRows'
  <2>1. SUFFICES ASSUME Live', NEW i \in (db'.committed + 1) .. db'.revision, BelowPending(i)'
                 PROVE  rows'[i] = Expected(i, db'.at[i].head_id)
    BY DEF UndoableRows
  <2>2. Live /\ i \in db.committed + 1 .. db.revision /\ i \in Nat
    BY <1>16, <1>20, <1>22, <2>1
  <2>3. db.revision <= MaxBlock /\ db.at[db.revision].saved
    BY <1>1, <1>16, <2>2 DEF IInv, DbOk
  <2>4. head = db.revision /\ db.at[db.revision].head_id = head_id
    BY <1>16, <2>2, <2>3 DEF Tables
  <2>5. i \in BlockNums
    BY <1>16, <2>2, <2>3 DEF BlockNums
  <2>6. CASE i = n
    BY <1>13, <1>18, <1>22, <2>4, <2>6
  <2>7. CASE i # n
    <3>1. i < n
      BY <1>13, <1>16, <2>2, <2>4, <2>7
    <3>2. BelowPending(i)
      BY <1>2, <1>3, <1>11, <1>12, <3>1 DEF BelowPending
    <3>3. rows[i] = Expected(i, db.at[i].head_id)
      BY <2>2, <3>2 DEF RInv, UndoableRows
    <3> QED
      BY <1>18, <1>22, <2>5, <2>7, <3>3
  <2> QED
    BY <2>6, <2>7
<1>30. CommittedRows'
  BY <1>7, <1>18, <1>22, OneBlockRows
<1>31. ForksOwed'
  <2>1. Announced(db)
    BY <1>2, <1>9, <1>11 DEF RInv, ForksOwed
  <2> QED
    BY <1>22, <2>1 DEF ForksOwed
<1>32. AcksBehind'
  <2>1. Live' => exporter_acked_block' <= head /\ exporter_acked_block' # head
    BY <1>7, <1>13, <1>16, <1>20
  <2> QED
    BY <1>22, <1>24, <2>1 DEF AcksBehind, BelowPending
<1> QED
  BY <1>23, <1>25, <1>26, <1>27, <1>28, <1>29, <1>30, <1>31, <1>32 DEF RInv

\* A statement that fails leaves a beginning of the block, above what is committed.
LEMMA FailureInvariant ==
    ASSUME RInv, ~LosesForks, StatementFails PROVE RInv'
<1>1. /\ pc # "down" /\ ~failed /\ events # <<>> /\ TypeOK /\ IInv
      /\ UNCHANGED <<shipVars, db, memory, events, position, listVars, stops>>
      /\ failed' = TRUE /\ pc' = Aborted /\ ~OnlyCopyPending
  BY RelicFacts DEF StatementFails, CanHandle, Running, RInv
<1>2. PICK e : e = events[1]
  OBVIOUS
<1>3. PICK n : n = e.num
  OBVIOUS
<1>4. PICK k : k = position
  OBVIOUS
<1>5. PICK m : m = MessagesOf(e)[k + 1]
  OBVIOUS
<1>6. PICK s : s = Statements(m, n)
  OBVIOUS
<1>7. /\ n \in Nat \ {0} /\ Head(events) = e /\ 1 \in DOMAIN events
      /\ db.committed < n
      /\ \A i : BelowPending(i) => i < n
  BY <1>1, <1>2, <1>3, FirstEvent
<1>8. PICK j \in 0 .. Len(s) - 1 : rows' = Stored(s, j, n, Version(e))
  BY <1>3, <1>4, <1>5, <1>6, <1>7 DEF StatementFails, Message
<1>9. rows \in [BlockNums -> Seq(RowRecords)] /\ head_id \in Versions
  BY RelicFacts DEF RInv, RelicTypes
<1>10. /\ \A i \in BlockNums : i # n => rows'[i] = rows[i]
       /\ rows' \in [BlockNums -> Seq(RowRecords)]
       /\ RowsBegin'
  <2>1. CASE e.type = "fork"
    <3>1. m = Simple("FORK") /\ m.type = "FORK"
      BY <1>1, <1>2, <1>4, <1>5, <2>1, ForkMessage
    <3>2. s = <<Statement("rbfork", "")>>
      BY <1>6, <3>1 DEF Statements
    <3>3. Len(s) = 1
      BY <3>2
    <3>4. j = 0
      BY <1>8, <3>3
    <3>5. rows' = [rows EXCEPT ![n] = rows[n] \o <<>>]
      BY <1>8, <3>4 DEF Stored
    <3>6. n \in BlockNums => rows[n] \o <<>> = rows[n]
      BY <1>9, ConcatEmptySeq
    <3>7. rows' = rows
      BY <1>9, <3>5, <3>6
    <3> QED
      BY <1>9, <3>7 DEF RInv, RowsBegin
  <2>2. CASE e.type # "fork"
    <3>1. n \in BlockNums /\ Follows(n, k, s)
      BY <1>1, <1>2, <1>3, <1>4, <1>5, <1>6, <2>2, BlockMessage
    <3>2. rows[n] = Beginning(n, head_id, Done(n, k))
      BY <1>1, <1>2, <1>3, <1>4, <2>2 DEF RInv, WorkOk, InWork
    <3>3. Version(e) = head_id
      <4>1. PICK l \in Nat \ {0} : l = Len(events)
        BY <1>1, QueueFacts
      <4>2. Len(events) = 1
        <5>1. \A i \in 1 .. l - 1 : events[i].type = "fork"
          BY <1>1, <4>1 DEF RInv, OneBlock
        <5>2. ~(1 \in 1 .. l - 1)
          BY <1>2, <2>2, <5>1
        <5>3. l = 1
          BY <4>1, <5>2
        <5> QED
          BY <4>1, <5>3
      <4>3. LastEvent(e)
        BY <1>1, <1>2, <4>2 DEF RInv, OneBlock
      <4> QED
        BY <4>3 DEF LastEvent, Version
    <3>4. PICK v : v = head_id
      OBVIOUS
    <3>5. j \in 0 .. Len(s)
      <4>1. s \in Seq(StatementRecords)
        BY <3>1 DEF Follows
      <4>2. Len(s) \in Nat
        BY <4>1, LenProperties
      <4> QED
        BY <1>8, <4>2
    <3>6. /\ Stored(s, j, n, v) = [rows EXCEPT ![n] = Beginning(n, v, Done(n, k) + j)]
          /\ Done(n, k) + j \in 0 .. Len(ExpectedStatements[n])
      BY <1>9, <3>1, <3>2, <3>4, <3>5, StoredFollows
    <3>7. PICK d : d = Done(n, k) + j
      OBVIOUS
    <3>8. /\ rows' = [rows EXCEPT ![n] = Beginning(n, v, d)]
          /\ d \in 0 .. Len(ExpectedStatements[n]) /\ v \in Versions
      BY <1>8, <1>9, <3>3, <3>4, <3>6, <3>7
    <3>9. Beginning(n, v, d) \in Seq(RowRecords)
      BY <3>1, <3>8, BeginningProperties
    <3>10. rows'[n] = Beginning(n, v, d) /\ \A i \in BlockNums : i # n => rows'[i] = rows[i]
      BY <1>9, <3>1, <3>8
    <3>11. rows' \in [BlockNums -> Seq(RowRecords)]
      BY <1>9, <3>8, <3>9
    <3>12. ASSUME NEW i \in BlockNums
           PROVE  \E w \in Versions : \E l \in 0 .. Len(ExpectedStatements[i]) :
                     rows'[i] = Beginning(i, w, l)
      <4>1. CASE i = n
        BY <3>8, <3>10, <4>1
      <4>2. CASE i # n
        BY <3>10, <4>2 DEF RInv, RowsBegin
      <4> QED
        BY <4>1, <4>2
    <3> QED
      BY <3>10, <3>11, <3>12 DEF RowsBegin
  <2> QED
    BY <2>1, <2>2
<1>11. /\ head' = head /\ head_id' = head_id /\ exporter_acked_block' = exporter_acked_block
       /\ db' = db /\ branch' = branch /\ stops' = stops /\ events' = events
       /\ position' = position /\ burnexpiredthisblock' = burnexpiredthisblock
  BY <1>1 DEF shipVars, memory, listVars
<1>12. /\ pc' \in {"quitting", "closed"} /\ (Live' => Live) /\ (SessionOpen' => SessionOpen)
  BY <1>1 DEF Aborted, Live, SessionOpen
<1>13. IInv'
  <2>1. TypeOK'
    BY <1>1, <1>11, <1>12 DEF TypeOK, ChainTypeOK, shipVars, memory, IsDatabase, ProcessStates
  <2>2. (pc' = "connecting" \/ SessionOpen') => UNCHANGED <<head, head_id, irreversible>>
    BY <1>1 DEF memory
  <2> QED
    BY <1>1, <1>12, <2>1, <2>2, OutsideStepInvariant
<1>14. RelicTypes'
  BY <1>1, <1>10, <1>11 DEF RInv, RelicTypes
<1>15. OneBlock' /\ DownClean' /\ NothingAbove'
  BY <1>1, <1>12 DEF OneBlock, DownClean, NothingAbove
<1>16. WorkOk'
  BY <1>1, <1>11 DEF RInv, WorkOk
<1>17. UndoableRows'
  <2>1. SUFFICES ASSUME Live', NEW i \in (db'.committed + 1) .. db'.revision, BelowPending(i)'
                 PROVE  rows'[i] = Expected(i, db'.at[i].head_id)
    BY DEF UndoableRows
  <2>2. Live /\ BelowPending(i) /\ i \in db.committed + 1 .. db.revision
    BY <1>11, <1>12, <2>1 DEF BelowPending
  <2>3. rows[i] = Expected(i, db.at[i].head_id)
    BY <2>2 DEF RInv, UndoableRows
  <2>4. i \in BlockNums /\ i # n
    <3>1. i < n
      BY <1>7, <2>2
    <3>2. db.committed \in Nat /\ db.revision \in Nat /\ MaxBlock \in Nat
      BY RelicFacts
    <3>3. db.revision <= MaxBlock
      BY <1>1 DEF IInv, DbOk
    <3> QED
      BY <1>7, <2>2, <3>1, <3>2, <3>3 DEF BlockNums
  <2> QED
    BY <1>10, <1>11, <2>3, <2>4
<1>18. CommittedRows'
  BY <1>7, <1>10, <1>11, OneBlockRows
<1>19. PendingAbove' /\ AcksBehind'
  BY <1>11, <1>12 DEF RInv, PendingAbove, AcksBehind, BelowPending
<1>20. ForksOwed'
  <2>1. Announced(db)
    BY <1>1, <1>7 DEF RInv, ForksOwed, OnlyCopyPending
  <2> QED
    BY <1>11, <2>1 DEF ForksOwed
<1> QED
  BY <1>10, <1>13, <1>14, <1>15, <1>16, <1>17, <1>18, <1>19, <1>20 DEF RInv

\* FORK undoes what is stored from the fork on and acknowledges the block below.
LEMMA ForkInvariant ==
    ASSUME RInv, HandleFork PROVE RInv'
<1>1. /\ Running /\ pc # "down" /\ ~failed /\ events # <<>> /\ TypeOK /\ IInv
      /\ UNCHANGED <<shipVars, db, head, head_id, irreversible, start_block_num,
                     end_block_num, listVars, failed, stops>>
  BY RelicFacts DEF HandleFork, CanHandle, Running, RInv
<1>2. PICK e : e = events[1]
  OBVIOUS
<1>3. PICK n : n = e.num
  OBVIOUS
<1>4. PICK l : l = Len(events)
  OBVIOUS
<1>5. /\ n \in Nat \ {0} /\ Head(events) = e
      /\ db.committed < n
      /\ \A i : BelowPending(i) => i < n
      /\ Live => exporter_acked_block < n
  BY <1>1, <1>2, <1>3, FirstEvent
<1>6. PICK m : m = MessagesOf(e)[position + 1]
  OBVIOUS
<1>7. m = Message /\ m.type = "FORK"
  BY <1>5, <1>6 DEF HandleFork, Message
<1>8. e.type = "fork" /\ position = 0 /\ ListsEmpty /\ Len(MessagesOf(e)) = 1
  <2>1. e.type = "fork" \/ m.type = "FORK"
    BY <1>7
  <2>2. ~failed /\ events # <<>>
    BY <1>1
  <2> QED
    BY <1>2, <1>6, <2>1, <2>2, ForkMessage
<1>9. rows \in [BlockNums -> Seq(RowRecords)]
  BY DEF RInv, RelicTypes
<1>10. /\ rows' = [i \in BlockNums |-> IF i >= n THEN <<>> ELSE rows[i]]
       /\ AckEffect(n - 1) /\ position' = 0 /\ events' = Tail(events)
  BY <1>3, <1>5, <1>8 DEF HandleFork, RolledBack, NextMessage
<1>11. /\ exporter_acked_block' \in {n - 1, exporter_acked_block}
       /\ forked_at_block' \in Nat /\ pc' \in ProcessStates
       /\ pc' # "down" /\ (Live' => Live)
       /\ (SessionOpen' => SessionOpen) /\ (pc' = "connecting" => pc = "connecting")
       /\ (pc = "closed" => pc' = "closed")
       /\ exporter_acked_block' \in Nat
  BY <1>1, <1>5, <1>10, AckFacts
<1>12. /\ l \in Nat \ {0} /\ DOMAIN events = 1 .. l
       /\ \A i \in 1 .. l : events[i] \in Events
       /\ DOMAIN events' = 1 .. l - 1 /\ Len(events') = l - 1
       /\ \A i \in 1 .. l - 1 : events'[i] = events[i + 1]
       /\ (events' = <<>> <=> l = 1)
  BY <1>1, <1>4, <1>10, QueueFacts
<1>13. /\ \A i \in 1 .. l : events[i].num = n
       /\ \A i \in 1 .. l - 1 : events[i].type = "fork"
       /\ LastEvent(events[l])
  BY <1>1, <1>2, <1>3, <1>4, <1>12 DEF RInv, OneBlock
<1>14. /\ head' = head /\ head_id' = head_id /\ db' = db /\ branch' = branch
       /\ failed' = failed /\ stops' = stops
       /\ domainjsons' = domainjsons /\ handlejsons' = handlejsons
       /\ burnaddresses' = burnaddresses /\ burnexpiredthisblock' = burnexpiredthisblock
  BY <1>1 DEF shipVars, listVars
<1>15. /\ events' \in Seq(Events)
       /\ \A i : BelowPending(i) => BelowPending(i)'
  BY <1>1, <1>10, RestOfQueue
<1>16. /\ head \in Nat /\ head_id \in Versions /\ exporter_acked_block \in Nat
       /\ \A i \in BlockNums : i \in Nat
       /\ db.committed \in Nat /\ db.revision \in Nat /\ MaxBlock \in Nat /\ FirstHead \in Nat
  BY RelicFacts
<1>17. /\ \A i \in BlockNums : i >= n => rows'[i] = <<>>
       /\ \A i \in BlockNums : i < n => rows'[i] = rows[i]
  BY <1>5, <1>10, <1>16
<1>18. n = head + 1 \/ n = head
  <2>1. events[l].type \in {"fork", "block", "partial"} /\ l \in 1 .. l
    BY <1>12, EventFacts
  <2> QED
    BY <1>13, <2>1 DEF LastEvent
<1>19. IInv'
  <2>1. TypeOK'
    BY <1>1, <1>11, <1>15 DEF TypeOK, ChainTypeOK, shipVars, IsDatabase
  <2>2. (pc' = "connecting" \/ SessionOpen') => UNCHANGED <<head, head_id, irreversible>>
    BY <1>1
  <2> QED
    BY <1>1, <1>11, <2>1, <2>2, OutsideStepInvariant
<1>20. RelicTypes'
  <2>1. <<>> \in Seq(RowRecords)
    BY EmptySeq
  <2>2. rows' \in [BlockNums -> Seq(RowRecords)]
    BY <1>9, <1>10, <2>1
  <2> QED
    BY <1>10, <1>14, <2>2 DEF RInv, RelicTypes
<1>21. RowsBegin'
  <2>1. ASSUME NEW i \in BlockNums
        PROVE  \E v \in Versions : \E j \in 0 .. Len(ExpectedStatements[i]) :
                  rows'[i] = Beginning(i, v, j)
    <3>1. CASE i >= n
      <4>1. rows'[i] = Beginning(i, head_id, 0)
        BY <1>17, <3>1 DEF Beginning, Tagged
      <4>2. 0 \in 0 .. Len(ExpectedStatements[i])
        <5>1. PICK size \in Nat : size = Len(ExpectedStatements[i])
          BY ExpectedParts
        <5> QED
          BY <5>1
      <4> QED
        BY <1>16, <4>1, <4>2
    <3>2. CASE i < n
      BY <1>17, <3>2 DEF RInv, RowsBegin
    <3> QED
      BY <1>5, <1>16, <3>1, <3>2
  <2> QED
    BY <2>1 DEF RowsBegin
<1>22. OneBlock'
  <2>1. ASSUME l # 1
        PROVE  /\ \A i \in DOMAIN events' : events'[i].num = events'[1].num
               /\ \A i \in 1 .. Len(events') - 1 : events'[i].type = "fork"
               /\ events'[Len(events')] = events[l]
    <3>1. /\ \A i \in 1 .. l - 1 : i + 1 \in 1 .. l
          /\ 1 \in 1 .. l - 1 /\ l - 1 \in 1 .. l - 1 /\ (l - 1) + 1 = l
          /\ \A i \in 1 .. (l - 1) - 1 : i \in 1 .. l - 1 /\ i + 1 \in 1 .. l - 1
      BY <1>12, <2>1
    <3>2. \A i \in DOMAIN events' : events'[i].num = n
      BY <1>12, <1>13, <3>1
    <3>3. \A i \in 1 .. (l - 1) - 1 : events'[i].type = "fork"
      BY <1>12, <1>13, <3>1
    <3>4. events'[l - 1] = events[l]
      BY <1>12, <3>1
    <3> QED
      BY <1>12, <3>1, <3>2, <3>3, <3>4
  <2>2. PICK x : x = events[l]
    OBVIOUS
  <2>3. LastEvent(x)'
    BY <1>11, <1>13, <1>14, <2>2 DEF LastEvent
  <2>4. l # 1 => LastEvent(events[Len(events)])'
    BY <2>1, <2>2, <2>3 DEF LastEvent
  <2> QED
    BY <1>12, <2>1, <2>4 DEF OneBlock
<1>23. DownClean'
  BY <1>11 DEF DownClean
<1>24. ListsEmpty'
  BY <1>8, <1>14 DEF ListsEmpty
<1>25. WorkOk'
  <2>1. ASSUME l # 1 PROVE position' < Len(MessagesOf(events'[1])) /\ InWork(events[1])'
    <3>1. PICK x : x = events[2]
      OBVIOUS
    <3>2. x = events'[1] /\ x \in Events /\ x.num = n
      <4>1. 1 \in 1 .. l - 1 /\ 1 + 1 = 2 /\ 2 \in 1 .. l
        BY <1>12, <2>1
      <4> QED
        BY <1>12, <1>13, <3>1, <4>1
    <3>3. CASE x.type = "fork"
      <4>1. Len(MessagesOf(x)) = 1
        BY <3>3, MessagesOfEvent
      <4>2. events'[1].type = "fork" /\ Len(MessagesOf(events'[1])) = 1
        BY <3>2, <3>3, <4>1
      <4>3. InWork(events[1])'
        BY <1>10, <1>24, <4>2 DEF InWork
      <4>4. position' < Len(MessagesOf(events'[1]))
        <5>1. PICK size : size = Len(MessagesOf(events'[1]))
          OBVIOUS
        <5>2. size = 1
          BY <4>2, <5>1
        <5>3. position' = 0
          BY <1>10
        <5>4. position' < size
          BY <5>2, <5>3
        <5> QED
          BY <5>1, <5>4
      <4> QED
        BY <4>3, <4>4
    <3>4. CASE x.type # "fork"
      <4>1. n \in BlockNums /\ x.type \in {"block", "partial"}
        BY <3>2, <3>4, EventFacts
      <4>2. PICK c \in Nat : c = Len(Content[n])
        BY <4>1, ContentType
      <4>3. PICK k : k = Len(MessagesOf(x))
        OBVIOUS
      <4>4. k = c + (IF x.type = "block" THEN 2 ELSE 1)
        BY <3>2, <4>1, <4>2, <4>3, MessagesOfEvent
      <4>5. k = c + 2 \/ k = c + 1
        BY <4>4
      <4>6. 0 < k
        BY <4>2, <4>5
      <4>7. ListsAt(n, 0)
        BY <1>8, <4>1, ListsBegin
      <4>8. ListsAt(n, 0)'
        BY <1>14, <4>7 DEF ListsAt
      <4>9. rows'[n] = <<>> /\ \A i \in BlockNums : i > n => rows'[i] = <<>>
        <5>1. n >= n /\ \A i \in BlockNums : i > n => i >= n
          BY <1>5, <1>16
        <5> QED
          BY <1>17, <4>1, <5>1
      <4>10. Beginning(n, head_id', 0) = <<>> /\ Done(n, 0) = 0 /\ Handled(0) = 0
        BY DEF Beginning, Tagged, Done, Handled
      <4>11. rows'[n] = Beginning(n, head_id', Done(n, position'))
        BY <1>10, <4>9, <4>10
      <4>12. ListsAt(n, Handled(position))'
        BY <1>10, <4>8, <4>10 DEF ListsAt
      <4>13. InWork(x)'
        BY <3>2, <3>4, <4>9, <4>11, <4>12 DEF InWork, ListsAt
      <4> QED
        BY <1>10, <3>2, <4>3, <4>6, <4>13 DEF InWork
    <3> QED
      BY <3>3, <3>4
  <2> QED
    BY <1>10, <1>12, <1>24, <2>1 DEF WorkOk
<1>26. NothingAbove'
  <2>1. l = 1 => n = head + 1
    BY <1>2, <1>3, <1>8, <1>13 DEF LastEvent
  <2>2. \A i \in BlockNums : n = head + 1 /\ i > head => i >= n
    BY <1>16
  <2> QED
    BY <1>12, <1>14, <1>17, <2>1, <2>2 DEF NothingAbove
<1>27. UndoableRows'
  <2>1. SUFFICES ASSUME Live', NEW i \in (db'.committed + 1) .. db'.revision, BelowPending(i)'
                 PROVE  rows'[i] = Expected(i, db'.at[i].head_id)
    BY DEF UndoableRows
  <2>2. Live /\ i \in db.committed + 1 .. db.revision
    BY <1>11, <1>14, <2>1
  <2>3. CASE l = 1
    <3>1. db.committed = db.revision
      BY <1>2, <1>8, <1>13, <2>3 DEF LastEvent
    <3> QED
      BY <1>16, <2>2, <3>1
  <2>4. CASE l # 1
    <3>1. i < n
      <4>1. 1 \in 1 .. l - 1 /\ 1 + 1 \in 1 .. l
        BY <1>12, <2>4
      <4>2. 1 \in DOMAIN events' /\ events'[1].num = n
        BY <1>12, <1>13, <4>1
      <4> QED
        BY <2>1, <4>2 DEF BelowPending
    <3>2. BelowPending(i)
      BY <1>12, <1>13, <3>1 DEF BelowPending
    <3>3. rows[i] = Expected(i, db.at[i].head_id)
      BY <2>2, <3>2 DEF RInv, UndoableRows
    <3>4. i \in BlockNums
      <4>1. db.revision <= MaxBlock
        BY <1>1 DEF IInv, DbOk
      <4> QED
        BY <1>16, <2>2, <4>1 DEF BlockNums
    <3> QED
      BY <1>14, <1>17, <3>1, <3>3, <3>4
  <2> QED
    BY <2>3, <2>4
<1>28. CommittedRows'
  <2>1. \A i \in BlockNums : i <= db.committed => i < n
    BY <1>5, <1>16
  <2> QED
    BY <1>14, <1>17, <2>1 DEF RInv, CommittedRows
<1>29. PendingAbove'
  BY <1>14, <1>15 DEF RInv, PendingAbove, BelowPending
<1>30. ForksOwed'
  <2>1. ASSUME ~Announced(db)
        PROVE  /\ n = db.committed + 1 /\ ~failed
               /\ \A i \in 1 .. l : events[i].type = "fork" /\ events[i].num = db.committed + 1
    <3>1. 1 \in 1 .. l
      BY <1>12
    <3> QED
      BY <1>1, <1>2, <1>3, <1>12, <2>1, <3>1 DEF RInv, ForksOwed
  <2>2. ASSUME ~Announced(db), NEW i \in 1 .. l - 1
        PROVE  events'[i].type = "fork" /\ events'[i].num = db.committed + 1
    <3>1. i + 1 \in 1 .. l
      BY <1>12
    <3> QED
      BY <1>12, <2>1, <2>2, <3>1
  <2>3. ~Announced(db) => \A i \in BlockNums : i > db.committed => rows'[i] = <<>>
    <3>1. \A i \in BlockNums : n = db.committed + 1 /\ i > db.committed => i >= n
      BY <1>16
    <3> QED
      BY <1>17, <2>1, <3>1
  <2> QED
    BY <1>12, <1>14, <2>1, <2>2, <2>3 DEF ForksOwed
<1>31. AcksBehind'
  <2>1. SUFFICES ASSUME Live'
                 PROVE  /\ exporter_acked_block' <= head
                        /\ exporter_acked_block' = head => db.committed = db.revision
                        /\ BelowPending(exporter_acked_block)'
    BY <1>14 DEF AcksBehind
  <2>2. /\ exporter_acked_block <= head /\ exporter_acked_block < n
        /\ exporter_acked_block = head => db.committed = db.revision
    BY <1>5, <1>11, <2>1 DEF RInv, AcksBehind
  <2>3. n = head + 1 => db.committed = db.revision
    <3>1. events[l].type \in {"fork", "block", "partial"} /\ l \in 1 .. l /\ events[l].num = n
      BY <1>12, <1>13, EventFacts
    <3>2. n = head + 1 => n # head
      BY <1>16
    <3> QED
      BY <1>13, <3>1, <3>2 DEF LastEvent
  <2>4. exporter_acked_block' <= head
    BY <1>5, <1>11, <1>16, <1>18, <2>2
  <2>5. exporter_acked_block' = head => db.committed = db.revision
    BY <1>5, <1>11, <1>16, <1>18, <2>2, <2>3
  <2>6. exporter_acked_block' < n
    BY <1>5, <1>11, <2>2
  <2>7. \A i \in 1 .. l - 1 : events'[i].num = n
    <3>1. \A i \in 1 .. l - 1 : i + 1 \in 1 .. l
      BY <1>12
    <3> QED
      BY <1>12, <1>13, <3>1
  <2> QED
    BY <1>12, <2>4, <2>5, <2>6, <2>7 DEF BelowPending
<1> QED
  BY <1>19, <1>20, <1>21, <1>22, <1>23, <1>25, <1>26, <1>27, <1>28, <1>29, <1>30, <1>31 DEF RInv

-------------------------------------------------------------------------------
(* Every step, and the theorems.                                             *)

\* At the beginning nothing is stored and nothing is done.
LEMMA RelicInitInvariant ==
    ASSUME RelicInit PROVE RInv
<1>1. IInv /\ Init
  BY InitInvariant DEF RelicInit
<1>2. /\ pc = "down" /\ events = <<>> /\ db = NewDatabase(EmptyTables)
      /\ rows = [n \in BlockNums |-> <<>>] /\ position = 0
      /\ failed = FALSE /\ stops = 0 /\ ListsEmpty /\ ~Live
  BY <1>1 DEF Init, RelicInit, ListsEmpty, Live, SessionOpen
<1>3. RelicTypes
  <2>1. <<>> \in Seq(RowRecords)
    BY EmptySeq
  <2>2. rows \in [BlockNums -> Seq(RowRecords)]
    BY <1>2, <2>1
  <2>3. 0 \in 0 .. MaxStops
    BY RelicAssumption
  <2> QED
    BY <1>2, <2>2, <2>3 DEF RelicTypes, ListsEmpty
<1>4. RowsBegin
  <2>1. ASSUME NEW n \in BlockNums
        PROVE  \E v \in Versions : \E k \in 0 .. Len(ExpectedStatements[n]) :
                  rows[n] = Beginning(n, v, k)
    <3>1. PICK size \in Nat : size = Len(ExpectedStatements[n])
      BY ExpectedParts
    <3>2. 0 \in 0 .. Len(ExpectedStatements[n])
      BY <3>1
    <3>3. 0 \in Versions
      BY ChainAssumption DEF Versions
    <3>4. rows[n] = Beginning(n, 0, 0)
      BY <1>2 DEF Beginning, Tagged
    <3> QED
      BY <3>2, <3>3, <3>4
  <2> QED
    BY <2>1 DEF RowsBegin
<1>5. DOMAIN events = {}
  BY <1>2
<1>6. OneBlock /\ DownClean /\ WorkOk /\ NothingAbove /\ UndoableRows /\ PendingAbove /\ AcksBehind
  BY <1>2, <1>5 DEF OneBlock, DownClean, WorkOk, NothingAbove, UndoableRows,
                    PendingAbove, AcksBehind, BelowPending
<1>7. ~db.at[db.committed].saved
  BY <1>2 DEF NewDatabase, EmptyTables
<1>8. CommittedRows
  BY <1>7 DEF CommittedRows
<1>9. ForksOwed
  BY <1>2, <1>5 DEF ForksOwed
<1> QED
  BY <1>1, <1>3, <1>4, <1>6, <1>8, <1>9 DEF RInv

\* The receiver's own steps.
LEMMA RelicReceiverInvariant ==
    ASSUME RInv, ~LosesForks, RelicReceiverStep PROVE RInv'
<1>1. UNCHANGED <<relicVars, stops>>
  BY DEF RelicReceiverStep
<1>2. CASE \E end \in EndBlocks : Start(end)
  BY <1>1, <1>2, RelicStartInvariant
<1>3. CASE \E given \in {0, StartBlock}, end \in EndBlocks :
              (LosesForks \/ ~HasUndoSession(db)) /\ StartRefused(given, end)
  BY <1>1, <1>3, RelicRefusedInvariant
<1>4. CASE RequestBlocks
  BY <1>1, <1>4, RelicRequestInvariant
<1>5. CASE PauseTimer
  BY <1>1, <1>5, RelicPauseInvariant
<1>6. CASE (Quiet \/ failed) /\ ReceiveBlock
  BY <1>1, <1>6, RelicStoreInvariant DEF Quiet, ReceiveBlock
<1>7. CASE Abort
  BY <1>1, <1>7, RelicAbortInvariant
<1>8. CASE Quiet /\ RejectResult
  BY <1>1, <1>8, RelicRejectInvariant DEF Quiet
<1>9. CASE Quiet /\ (LosesForks \/ Announced(PreparedDb)) /\ ReceiveBlockFails
  BY <1>1, <1>9, RelicReceiveFailsInvariant DEF Quiet
<1>10. CASE Quiet /\ ReceiveTracesFails
  BY <1>1, <1>10, RelicStoreInvariant DEF Quiet, ReceiveTracesFails
<1> QED
  BY <1>2, <1>3, <1>4, <1>5, <1>6, <1>7, <1>8, <1>9, <1>10 DEF RelicReceiverStep

\* Every step of the pipeline keeps the invariant.
LEMMA RelicStepInvariant ==
    ASSUME PromptShip, ~LosesForks, RInv, [RelicNext]_systemVars PROVE RInv'
<1>1. CASE RelicChainStep
  BY <1>1, RelicChainInvariant
<1>2. CASE RelicReceiverStep
  BY <1>2, RelicReceiverInvariant
<1>3. CASE HandleContent
  BY <1>3, ContentInvariant
<1>4. CASE HandleBlockCompleted
  BY <1>4, CompletedInvariant
<1>5. CASE HandleFork
  BY <1>5, ForkInvariant
<1>6. CASE StatementFails
  BY <1>6, FailureInvariant
<1>7. CASE ProcessEnds
  BY <1>7, RelicEndInvariant
<1>8. CASE UNCHANGED systemVars
  <2>1. UNCHANGED <<shipVars, db, pc, memory, events, relicVars, stops>>
    BY <1>8 DEF systemVars, vars, receiverVars
  <2>2. UNCHANGED <<branch, head, head_id, exporter_acked_block>>
    BY <2>1 DEF shipVars, memory
  <2>3. IInv'
    <3>1. TypeOK'
      BY <2>1, RelicFacts
         DEF TypeOK, ChainTypeOK, shipVars, memory, IsDatabase
    <3>2. (pc' = "connecting" \/ SessionOpen') => UNCHANGED <<head, head_id, irreversible>>
      BY <2>1 DEF memory
    <3>3. (SessionOpen' => SessionOpen) /\ (pc' = "connecting" => pc = "connecting")
      BY <2>1 DEF SessionOpen
    <3> QED
      BY <2>1, <3>1, <3>2, <3>3, OutsideStepInvariant DEF RInv
  <2>4. Live' => Live
    BY <2>1 DEF Live, SessionOpen
  <2> QED
    BY <2>1, <2>2, <2>3, <2>4, QuietStep
<1> QED
  BY <1>1, <1>2, <1>3, <1>4, <1>5, <1>6, <1>7, <1>8 DEF RelicNext, RelicStep

\* The inductive invariant of the pipeline.
THEOREM RelicInvariance ==
    ASSUME PromptShip, ~LosesForks PROVE RelicSpec => []RInv
<1>1. RelicInit => RInv
  BY RelicInitInvariant
<1>2. RInv /\ [RelicNext]_systemVars => RInv'
  BY RelicStepInvariant
<1> QED
  BY <1>1, <1>2, PTL DEF RelicSpec

\* Rows carry versions, and the position is within the messages of the first
\* event (async_send_events).
LEMMA RelicTypeHolds ==
    ASSUME RInv PROVE RelicTypeOK
<1>1. TypeOK
  BY RelicFacts
<1>2. ASSUME NEW n \in BlockNums, NEW i \in DOMAIN rows[n] PROVE rows[n][i].id \in Versions
  <2>1. PICK v \in Versions, k \in 0 .. Len(ExpectedStatements[n]) : rows[n] = Beginning(n, v, k)
    BY DEF RInv, RowsBegin
  <2>2. \A j \in DOMAIN Beginning(n, v, k) : Beginning(n, v, k)[j].id = v
    BY BeginningProperties
  <2> QED
    BY <2>1, <2>2
<1>3. events # <<>> => position < Len(MessagesOf(Head(events)))
  <2>1. events # <<>> => Head(events) = events[1]
    BY <1>1, QueueFacts
  <2> QED
    BY <2>1 DEF RInv, WorkOk
<1> QED
  BY <1>1, <1>2, <1>3 DEF RInv, RelicTypes, WorkOk, RelicTypeOK

\* Rows that begin one version of a block are a prefix of what the database
\* should hold of it (async_send_events).
LEMMA RowsOnceHolds ==
    ASSUME RInv PROVE RowsOnce
<1>1. ASSUME NEW n \in BlockNums PROVE \E v \in Versions : IsPrefix(rows[n], Expected(n, v))
  <2>1. PICK v \in Versions, k \in 0 .. Len(ExpectedStatements[n]) : rows[n] = Beginning(n, v, k)
    BY DEF RInv, RowsBegin
  <2>2. IsPrefix(Beginning(n, v, k), Expected(n, v))
    BY BeginningProperties
  <2> QED
    BY <2>1, <2>2
<1> QED
  BY <1>1 DEF RowsOnce

\* With nothing queued the rows are those of the receiver's own blocks, the
\* committed one included (load_state, receive_result).
LEMMA RowsFollowHolds ==
    ASSUME RInv PROVE RowsFollowReceiver
<1>1. SUFFICES ASSUME SessionOpen, ~failed, events = <<>>, Tables(db).saved
               PROVE  /\ \A n \in BlockNums : n > head => rows[n] = <<>>
                      /\ \A n \in BlockNums : n \in db.committed .. head /\ db.at[n].saved
                            => rows[n] = Expected(n, db.at[n].head_id)
  BY DEF RowsFollowReceiver, Quiet
<1>2. Live /\ pc # "down" /\ DOMAIN events = {}
  BY <1>1 DEF Live, SessionOpen
<1>3. \A n \in BlockNums : n > head => rows[n] = <<>>
  BY <1>1, <1>2 DEF RInv, NothingAbove
<1>4. /\ head = db.revision /\ db.committed \in Nat /\ db.revision \in Nat
      /\ db.committed <= db.revision /\ FirstHead \in Nat
  BY <1>1, <1>2, RelicFacts
<1>5. ASSUME NEW n \in BlockNums, n \in db.committed .. head, db.at[n].saved
      PROVE  rows[n] = Expected(n, db.at[n].head_id)
  <2>1. CASE n = db.committed
    <3>1. rows[n] = Expected(n, branch[n])
      BY <1>4, <1>5, <2>1 DEF RInv, CommittedRows
    <3>2. RevisionHoldsBlock(db, n) /\ OnChain(db.at[n])
      BY <1>4, <1>5, <2>1 DEF RInv, IInv, DbOk
    <3> QED
      BY <1>5, <3>1, <3>2 DEF RevisionHoldsBlock, OnChain
  <2>2. CASE n # db.committed
    <3>1. n \in db.committed + 1 .. db.revision
      BY <1>4, <1>5, <2>2
    <3>2. BelowPending(n)
      BY <1>2 DEF BelowPending
    <3> QED
      BY <1>2, <3>1, <3>2 DEF RInv, UndoableRows
  <2> QED
    BY <2>1, <2>2
<1> QED
  BY <1>3, <1>5

\* What is committed is complete from the first requested block on (commit_db).
LEMMA CommittedCompleteHolds ==
    ASSUME RInv PROVE CommittedComplete
<1>1. ASSUME db.at[db.committed].saved, NEW n \in BlockNums, StartBlock <= n, n <= db.committed
      PROVE  rows[n] = Expected(n, branch[n])
  <2>1. n \in Nat \ {0}
    BY ChainAssumption DEF BlockNums
  <2>2. FirstHead = IF StartBlock > 0 THEN StartBlock - 1 ELSE 0
    BY DEF FirstHead, ResumeHead, EmptyTables
  <2>3. StartBlock \in Nat
    BY ChainAssumption, ReceiverAssumption
  <2>4. FirstHead < n
    BY <1>1, <2>1, <2>2, <2>3
  <2> QED
    BY <1>1, <2>4 DEF RInv, CommittedRows
<1> QED
  BY <1>1 DEF CommittedComplete

\* Every handler of the pipeline keeps the types (async_send_events).
THEOREM RelicTypeCorrect ==
    ASSUME PromptShip, ~LosesForks PROVE RelicSpec => []RelicTypeOK
  BY RelicInvariance, RelicTypeHolds, PTL

\* Forks, failed statements and stops never leave a row twice, of two versions
\* of a block, or after a gap (async_send_events, load_state).
THEOREM StoredOnce ==
    ASSUME PromptShip, ~LosesForks PROVE RelicSpec => []RowsOnce
  BY RelicInvariance, RowsOnceHolds, PTL

\* In a session with nothing queued the database holds each uncommitted block of
\* the receiver completely, in its version, and nothing above (receive_result,
\* async_send_events).
THEOREM StoredAsReceived ==
    ASSUME PromptShip, ~LosesForks PROVE RelicSpec => []RowsFollowReceiver
  BY RelicInvariance, RowsFollowHolds, PTL

\* What is committed, and so is never sent again, is stored completely and as the
\* chain has it (commit_db, ack_block).
THEOREM CommittedStored ==
    ASSUME PromptShip, ~LosesForks PROVE RelicSpec => []CommittedComplete
  BY RelicInvariance, CommittedCompleteHolds, PTL
===============================================================================
