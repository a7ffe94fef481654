------------------------------ MODULE AbiProofs ------------------------------
(***************************************************************************)
(* For any accounts and ABIs, any chain with any number of forks, any      *)
(* number of restarts, of snapshots saved and restored: the ABIs in use    *)
(* and their history are those of the chain.                               *)
(***************************************************************************)
EXTENDS Snapshot, ChainbaseProofs, NaturalsInduction, WellFoundedInduction,
        SequenceTheorems

\* What a chain c says, and what a history says, up to block n.
ChainChanges(c, a, n) ==
    {x \in (1 .. n) \X Values : \E i \in DOMAIN c[x[1]] : c[x[1]][i] = <<a, x[2]>>}

HistoryChanges(history, a, n) ==
    {<<h.block, h.abi>> : h \in {g \in history : g.account = a /\ g.block <= n}}

Good(S) == {x \in S : x[2] # BadAbi}
Kept(S) == {x \in S : x[2] # NoAbi}

BareIn(c, r, a, n) ==
    /\ r > 0
    /\ \A m \in 1 .. n : m = n \/ m >= r => Latest(ChainChanges(c, a, m)) = NoAbi

\* Tables that agree with chain c up to their head.
UsesLatest(t, c) == \A a \in Accounts : t.abi[a] = Latest(Good(ChainChanges(c, a, t.head)))
KeepsChanges(t, c) ==
    \A a \in Accounts :
       Kept(HistoryChanges(t.history, a, t.head)) = Kept(ChainChanges(c, a, t.head))
\* Without an ABI in use there is nothing that a removal has to be recorded for.
NothingToRemove(t, c) ==
    \A a \in Accounts :
       t.abi[a] = NoAbi => Usable(Latest(ChainChanges(c, a, t.head))) = NoAbi
HistoryAgrees(t, c, r) ==
    \A a \in Accounts, n \in 1 .. t.head :
       \/ Usable(Latest(HistoryChanges(t.history, a, n))) = Usable(Latest(ChainChanges(c, a, n)))
       \/ BareIn(c, r, a, n)

Current(t, c) ==
    /\ t.head \in 0 .. Len(c)
    /\ UsesLatest(t, c)
    /\ \A h \in t.history : h.block <= t.head
    /\ KeepsChanges(t, c)
    /\ NothingToRemove(t, c)

\* What has to be recorded: a new binary, and the removal of an ABI in use.
Recorded(v, old) == v # NoAbi \/ old # NoAbi

\* Without a restore the history is what has to be recorded, and nothing else.
Exact(t, c) ==
    \A h \in HistoryRows :
       h \in t.history <=>
          /\ h.block <= t.head
          /\ <<h.block, h.abi>> \in ChainChanges(c, h.account, h.block)
          /\ Recorded(h.abi, Latest(Good(ChainChanges(c, h.account, h.block - 1))))

TablesOk(t, c, r) == Current(t, c) /\ HistoryAgrees(t, c, r) /\ (r = 0 => Exact(t, c))

\* A revision has the number of its block, unless the database is new.
Numbered(d) == \A k \in d.committed .. d.revision : d.at[k].head = k
NewOne(d) == d.committed = d.revision /\ d.revision <= d.at[d.revision].head

DbOk(d, c, r, final) ==
    /\ IsDatabase(d, AbiTables)
    /\ \A k \in d.committed .. d.revision : TablesOk(d.at[k], c, r)
    /\ Numbered(d) \/ NewOne(d)
    /\ d.at[d.committed].head <= final

LoadedOk(cache, abi) == \A a \in Accounts : cache[a] \in {NoAbi, abi[a]}

CacheType == [Accounts -> Abis \cup {NoAbi}]

Store(c, final, d, cache, r) ==
    /\ c \in Seq(Changes) /\ Len(c) <= MaxBlock
    /\ final \in 0 .. Len(c)
    /\ DbOk(d, c, r, final)
    /\ cache \in CacheType /\ LoadedOk(cache, Tables(d).abi)

-------------------------------------------------------------------------------
(* Numbers and the latest change.                                            *)

\* A set of numbers has a smallest one.
LEMMA SmallestOf ==
    ASSUME NEW T \in SUBSET Nat, T # {}
    PROVE  \E x \in T : \A y \in T : x <= y
<1> DEFINE R == OpToRel(<, Nat)
<1>1. IsWellFoundedOn(R, Nat)
  BY NatLessThanWellFounded
<1>2. \A x \in Nat, y \in Nat : y < x => <<y, x>> \in R
  BY DEF OpToRel
<1> HIDE DEF R
<1>3. PICK x \in T : \A y \in T : ~(<<y, x>> \in R)
  BY <1>1, WFMin
<1>4. ASSUME NEW y \in T PROVE x <= y
  <2>1. ~(y < x)
    BY <1>2, <1>3
  <2> QED
    BY <2>1
<1> QED
  BY <1>4

\* The change of the highest block is the latest.
LEMMA LatestIs ==
    ASSUME NEW S, NEW n \in Nat, NEW v, <<n, v>> \in S,
           \A x \in S : x = <<n, v>> \/ (x[1] \in Nat /\ x[1] < n)
    PROVE  Latest(S) = v
<1> DEFINE P(x) == x \in S /\ \A d \in S : d[1] <= x[1]
<1>1. P(<<n, v>>)
  <2>1. ASSUME NEW d \in S PROVE d[1] <= n
    BY <2>1
  <2> QED
    BY <2>1
<1>2. PICK c : c = CHOOSE x \in S : \A d \in S : d[1] <= x[1]
  OBVIOUS
<1>3. c \in S /\ \A d \in S : d[1] <= c[1]
  BY <1>1, <1>2
<1>4. n <= c[1]
  BY <1>3
<1>5. c = <<n, v>>
  BY <1>3, <1>4
<1> QED
  BY <1>2, <1>5 DEF Latest

\* No change: no ABI.
LEMMA LatestNone == Latest({}) = NoAbi
BY DEF Latest

\* A set of changes has one of the highest block.
LEMMA HighestChange ==
    ASSUME NEW n \in Nat, NEW S \in SUBSET ((1 .. n) \X Values), S # {}
    PROVE  \E x \in S : \A d \in S : d[1] <= x[1]
<1> DEFINE U == {k \in Nat : \A d \in S : d[1] <= k}
<1>1. \A d \in S : d[1] \in Nat /\ d[1] >= 1 /\ d[1] <= n
  OBVIOUS
<1>2. U \in SUBSET Nat /\ n \in U
  BY <1>1
<1>3. PICK k \in U : \A j \in U : k <= j
  <2> HIDE DEF U
  <2> QED
    BY <1>2, SmallestOf
<1>4. k \in Nat /\ \A d \in S : d[1] <= k
  OBVIOUS
<1>5. PICK d \in S : TRUE
  OBVIOUS
<1>6. k >= 1
  BY <1>1, <1>4, <1>5
<1>7. k - 1 \in Nat /\ k - 1 \notin U
  <2>1. k - 1 \in Nat /\ ~(k <= k - 1)
    BY <1>4, <1>6
  <2> HIDE DEF U
  <2> QED
    BY <1>3, <2>1
<1>8. PICK x \in S : ~(x[1] <= k - 1)
  BY <1>7
<1>9. x[1] = k
  BY <1>1, <1>4, <1>8
<1> QED
  BY <1>4, <1>8, <1>9

-------------------------------------------------------------------------------
(* What a block adds to the changes.                                         *)

\* The constants, for the steps that compare binaries and numbers.
LEMMA AbiFacts ==
    /\ MaxBlock \in Nat /\ MaxForks \in Nat /\ MaxStops \in Nat /\ MaxChanges \in Nat
    /\ BadAbi \notin Abis /\ NoAbi \notin Abis /\ BadAbi # NoAbi
    /\ NoAbi \in Values /\ BadAbi \in Values
    /\ \A v \in Values : v # NoAbi /\ v # BadAbi => v \in Abis
BY AbiAssumption DEF Values

\* The rows of a block are of different accounts.
LEMMA ChangesFacts ==
    ASSUME NEW rows \in Changes
    PROVE  /\ Len(rows) \in Nat /\ DOMAIN rows = 1 .. Len(rows)
           /\ \A i \in 1 .. Len(rows) : /\ rows[i][1] \in Accounts /\ rows[i][2] \in Values
                                        /\ rows[i] = <<rows[i][1], rows[i][2]>>
           /\ \A i \in 1 .. Len(rows), j \in 1 .. Len(rows) : i # j => rows[i][1] # rows[j][1]
<1>1. PICK k \in 0 .. MaxChanges : rows \in [1 .. k -> Accounts \X Values]
                                   /\ \A i, j \in 1 .. k : i # j => rows[i][1] # rows[j][1]
  BY DEF Changes
<1>2. k \in Nat /\ rows \in Seq(Accounts \X Values) /\ Len(rows) = k
  BY <1>1, AbiFacts
<1> QED
  BY <1>1, <1>2

\* Account a has no row in the block, or one, with value v.
NoRow(rows, a) == \A i \in 1 .. Len(rows) : rows[i][1] # a
HasRow(rows, a, v) == \E i \in 1 .. Len(rows) : rows[i] = <<a, v>>

\* A block has at most one row of an account.
LEMMA RowCases ==
    ASSUME NEW rows \in Changes, NEW a \in Accounts
    PROVE  /\ NoRow(rows, a) \/ \E v \in Values : HasRow(rows, a, v)
           /\ \A v, w : HasRow(rows, a, v) /\ HasRow(rows, a, w) => v = w
           /\ \A v : HasRow(rows, a, v) => v \in Values /\ ~NoRow(rows, a)
<1>1. /\ \A i \in 1 .. Len(rows) : /\ rows[i][1] \in Accounts /\ rows[i][2] \in Values
                                   /\ rows[i] = <<rows[i][1], rows[i][2]>>
      /\ \A i \in 1 .. Len(rows), j \in 1 .. Len(rows) : i # j => rows[i][1] # rows[j][1]
  BY ChangesFacts
<1>2. NoRow(rows, a) \/ \E v \in Values : HasRow(rows, a, v)
  BY <1>1 DEF NoRow, HasRow
<1>3. ASSUME NEW v, NEW w, HasRow(rows, a, v), HasRow(rows, a, w) PROVE v = w
  <2>1. PICK i \in 1 .. Len(rows) : rows[i] = <<a, v>>
    BY <1>3 DEF HasRow
  <2>2. PICK j \in 1 .. Len(rows) : rows[j] = <<a, w>>
    BY <1>3 DEF HasRow
  <2>3. rows[i][1] = a /\ rows[j][1] = a
    BY <2>1, <2>2
  <2>4. i = j
    BY <1>1, <2>3
  <2> QED
    BY <2>1, <2>2, <2>4
<1>4. ASSUME NEW v, HasRow(rows, a, v) PROVE v \in Values /\ ~NoRow(rows, a)
  <2>1. PICK i \in 1 .. Len(rows) : rows[i] = <<a, v>>
    BY <1>4 DEF HasRow
  <2>2. rows[i][1] = a /\ rows[i][2] = v
    BY <2>1
  <2> QED
    BY <1>1, <2>2 DEF NoRow
<1> QED
  BY <1>2, <1>3, <1>4

\* The changes of block n come on top of those below it.
LEMMA ChainGrows ==
    ASSUME NEW c \in Seq(Changes), NEW n \in 1 .. Len(c), NEW a \in Accounts
    PROVE  /\ NoRow(c[n], a) => ChainChanges(c, a, n) = ChainChanges(c, a, n - 1)
           /\ \A v : HasRow(c[n], a, v) =>
                 ChainChanges(c, a, n) = ChainChanges(c, a, n - 1) \cup {<<n, v>>}
<1>1. c[n] \in Changes /\ n \in Nat /\ n >= 1
  OBVIOUS
<1>2. DOMAIN c[n] = 1 .. Len(c[n])
  BY <1>1, ChangesFacts
<1>3. ASSUME NEW x \in (1 .. n) \X Values
      PROVE  /\ x[1] \in 1 .. n /\ x[2] \in Values /\ x = <<x[1], x[2]>>
             /\ x[1] = n \/ x \in (1 .. n - 1) \X Values
  <2>1. x[1] \in 1 .. n /\ x[2] \in Values /\ x = <<x[1], x[2]>>
    OBVIOUS
  <2>2. x[1] = n \/ x[1] \in 1 .. n - 1
    BY <1>1, <2>1
  <2> QED
    BY <2>1, <2>2
<1>4. ASSUME NEW x \in (1 .. n - 1) \X Values PROVE x \in (1 .. n) \X Values /\ x[1] # n
  <2>1. x[1] \in 1 .. n - 1 /\ x[2] \in Values /\ x = <<x[1], x[2]>>
    OBVIOUS
  <2>2. x[1] \in 1 .. n /\ x[1] # n
    BY <1>1, <2>1
  <2> QED
    BY <2>1, <2>2
<1>5. ASSUME NEW x \in (1 .. n) \X Values, x[1] = n
      PROVE  x \in ChainChanges(c, a, n) <=> HasRow(c[n], a, x[2])
  BY <1>2, <1>5 DEF ChainChanges, HasRow
<1>6. ASSUME NEW x \in (1 .. n) \X Values, x[1] # n
      PROVE  x \in ChainChanges(c, a, n) <=> x \in ChainChanges(c, a, n - 1)
  BY <1>3, <1>6 DEF ChainChanges
<1>7. ChainChanges(c, a, n) \subseteq (1 .. n) \X Values
      /\ ChainChanges(c, a, n - 1) \subseteq (1 .. n - 1) \X Values
  BY DEF ChainChanges
<1>8. ASSUME NoRow(c[n], a) PROVE ChainChanges(c, a, n) = ChainChanges(c, a, n - 1)
  <2>1. \A x \in (1 .. n) \X Values : x[1] = n => x \notin ChainChanges(c, a, n)
    BY <1>1, <1>5, <1>8, RowCases
  <2> QED
    BY <1>4, <1>6, <1>7, <2>1
<1>9. ASSUME NEW v, HasRow(c[n], a, v)
      PROVE  ChainChanges(c, a, n) = ChainChanges(c, a, n - 1) \cup {<<n, v>>}
  <2>1. v \in Values /\ <<n, v>> \in (1 .. n) \X Values
    BY <1>1, <1>9, RowCases
  <2>2. \A x \in (1 .. n) \X Values : x[1] = n => (x \in ChainChanges(c, a, n) <=> x = <<n, v>>)
    <3> SUFFICES ASSUME NEW x \in (1 .. n) \X Values, x[1] = n
                 PROVE  x \in ChainChanges(c, a, n) <=> x = <<n, v>>
      OBVIOUS
    <3>1. HasRow(c[n], a, x[2]) <=> x[2] = v
      BY <1>1, <1>9, RowCases
    <3> QED
      BY <1>3, <1>5, <3>1
  <2>3. ASSUME NEW x \in ChainChanges(c, a, n) PROVE x \in ChainChanges(c, a, n - 1) \cup {<<n, v>>}
    BY <1>6, <1>7, <2>2
  <2>4. ASSUME NEW x \in ChainChanges(c, a, n - 1) PROVE x \in ChainChanges(c, a, n)
    BY <1>4, <1>6, <1>7
  <2>5. <<n, v>> \in ChainChanges(c, a, n)
    <3>1. <<n, v>>[1] = n
      OBVIOUS
    <3> QED
      BY <2>1, <2>2, <3>1
  <2> QED
    BY <2>3, <2>4, <2>5
<1> QED
  BY <1>8, <1>9

\* Changes are of blocks up to n.
LEMMA ChangeBlocks ==
    ASSUME NEW c, NEW a, NEW n \in Nat
    PROVE  /\ ChainChanges(c, a, n) \in SUBSET ((1 .. n) \X Values)
           /\ \A x \in ChainChanges(c, a, n) : /\ x[1] \in 1 .. n /\ x[1] \in Nat
                                               /\ x[1] < n + 1 /\ x[2] \in Values
<1>1. ChainChanges(c, a, n) \in SUBSET ((1 .. n) \X Values)
  BY DEF ChainChanges
<1>2. ASSUME NEW x \in (1 .. n) \X Values
      PROVE  x[1] \in 1 .. n /\ x[1] \in Nat /\ x[1] < n + 1 /\ x[2] \in Values
  <2>1. x[1] \in 1 .. n /\ x[2] \in Values
    OBVIOUS
  <2> QED
    BY <2>1
<1> QED
  BY <1>1, <1>2

-------------------------------------------------------------------------------
(* The handling of the rows of a block (save_contract_abi, clear_contract_abi). *)

RowStates == [abi : [Accounts -> Abis \cup {NoAbi}], history : SUBSET HistoryRows,
              loaded : [Accounts -> Abis \cup {NoAbi}]]

AbiAfter(v, old) == IF v = BadAbi THEN old ELSE v

\* s is what the first k rows make of s0.
Handled(s, k, rows, n, s0) ==
    /\ s \in RowStates
    /\ LoadedOk(s.loaded, s.abi)
    /\ \A a \in Accounts : (\A i \in 1 .. k : rows[i][1] # a) => s.abi[a] = s0.abi[a]
    /\ \A i \in 1 .. k : s.abi[rows[i][1]] = AbiAfter(rows[i][2], s0.abi[rows[i][1]])
    /\ \A h \in HistoryRows :
          h \in s.history <=>
             \/ h \in s0.history
             \/ h.block = n /\ \E i \in 1 .. k : /\ rows[i] = <<h.account, h.abi>>
                                                 /\ Recorded(h.abi, s0.abi[h.account])

\* init_contract_abi_ctxt leaves no ABI of the account in memory.
LEMMA ForgottenFacts ==
    ASSUME NEW a \in Accounts, NEW s \in RowStates, LoadedOk(s.loaded, s.abi)
    PROVE  /\ Forgotten(a, s) \in [Accounts -> Abis \cup {NoAbi}]
           /\ Forgotten(a, s)[a] = NoAbi
           /\ \A b \in Accounts : Forgotten(a, s)[b] \in {NoAbi, s.abi[b]}
BY DEF Forgotten, NothingLoaded, RowStates, LoadedOk

\* The history gets one row, where it has none of that account and block.
LEMMA HistoryAdds ==
    ASSUME NEW a \in Accounts, NEW n \in 1 .. MaxBlock, NEW v \in Values,
           NEW history \in SUBSET HistoryRows,
           \A h \in history : ~(h.account = a /\ h.block = n)
    PROVE  /\ save_contract_abi_history(a, n, v, history) \in SUBSET HistoryRows
           /\ \A h \in HistoryRows :
                 h \in save_contract_abi_history(a, n, v, history) <=>
                    h \in history \/ (h.account = a /\ h.block = n /\ h.abi = v)
<1>1. [account |-> a, block |-> n, abi |-> v] \in HistoryRows
  BY DEF HistoryRows
<1>2. \A h \in HistoryRows : h.account = a /\ h.block = n /\ h.abi = v
                             <=> h = [account |-> a, block |-> n, abi |-> v]
  BY DEF HistoryRows
<1>3. save_contract_abi_history(a, n, v, history)
      = history \cup {[account |-> a, block |-> n, abi |-> v]}
  BY DEF save_contract_abi_history
<1> QED
  BY <1>1, <1>2, <1>3

\* One row more (receive_deltas).
LEMMA RowHandled ==
    ASSUME NEW rows \in Changes, NEW n \in 1 .. MaxBlock,
           NEW s0 \in RowStates, \A h \in s0.history : h.block < n,
           NEW k \in 1 .. Len(rows), NEW s, Handled(s, k - 1, rows, n, s0)
    PROVE  Handled(AccountRow(rows[k], n, s), k, rows, n, s0)
<1>1. PICK m \in Nat : m = k - 1 /\ k = m + 1 /\ m < k
  BY ChangesFacts
<1>2. PICK a \in Accounts, v \in Values : rows[k] = <<a, v>> /\ rows[k][1] = a /\ rows[k][2] = v
  BY ChangesFacts
<1>3. /\ \A i \in 1 .. k : i \in 1 .. m \/ i = k
      /\ \A i \in 1 .. m : i \in 1 .. k /\ i # k /\ i \in 1 .. Len(rows)
      /\ k \in 1 .. k
  BY <1>1, ChangesFacts
<1>4. \A i \in 1 .. m : rows[i][1] # a
  BY <1>2, <1>3, ChangesFacts
<1>5. Handled(s, m, rows, n, s0)
  BY <1>1
<1>6. s \in RowStates /\ LoadedOk(s.loaded, s.abi) /\ s.abi[a] = s0.abi[a]
  BY <1>4, <1>5 DEF Handled
<1>7. \A h \in s.history : ~(h.account = a /\ h.block = n)
  <2>1. SUFFICES ASSUME NEW h \in HistoryRows, h \in s.history, h.account = a, h.block = n
                 PROVE  FALSE
    BY <1>6 DEF RowStates
  <2>2. h \notin s0.history
    BY <2>1
  <2>3. PICK i \in 1 .. m : rows[i] = <<h.account, h.abi>>
    BY <1>5, <2>1, <2>2 DEF Handled
  <2>4. rows[i][1] = a
    BY <2>1, <2>3
  <2> QED
    BY <1>4, <2>4
<1>8. ASSUME NEW new, new \in RowStates, LoadedOk(new.loaded, new.abi),
             \A b \in Accounts : new.abi[b] = IF b = a THEN AbiAfter(v, s.abi[a]) ELSE s.abi[b],
             \A h \in HistoryRows :
                h \in new.history <=>
                   h \in s.history \/ (h.account = a /\ h.block = n /\ h.abi = v
                                       /\ Recorded(v, s.abi[a]))
      PROVE  Handled(new, k, rows, n, s0)
  <2>1. ASSUME NEW b \in Accounts, \A i \in 1 .. k : rows[i][1] # b
        PROVE  new.abi[b] = s0.abi[b]
    <3>1. b # a /\ \A i \in 1 .. m : rows[i][1] # b
      BY <1>2, <1>3, <2>1
    <3> QED
      BY <1>5, <1>8, <3>1 DEF Handled
  <2>2. ASSUME NEW i \in 1 .. k
        PROVE  new.abi[rows[i][1]] = AbiAfter(rows[i][2], s0.abi[rows[i][1]])
    <3>1. CASE i = k
      BY <1>2, <1>6, <1>8, <3>1
    <3>2. CASE i \in 1 .. m
      <4>1. rows[i][1] \in Accounts /\ rows[i][1] # a
        BY <1>3, <1>4, <3>2, ChangesFacts
      <4> QED
        BY <1>5, <1>8, <3>2, <4>1 DEF Handled
    <3> QED
      BY <1>3, <3>1, <3>2
  <2>3. ASSUME NEW h \in HistoryRows
        PROVE  h \in new.history <=>
                  \/ h \in s0.history
                  \/ h.block = n /\ \E i \in 1 .. k : /\ rows[i] = <<h.account, h.abi>>
                                                      /\ Recorded(h.abi, s0.abi[h.account])
    <3>1. h \in new.history <=>
             h \in s.history \/ (h.account = a /\ h.block = n /\ h.abi = v /\ Recorded(v, s.abi[a]))
      BY <1>8
    <3>2. h \in s.history <=>
             \/ h \in s0.history
             \/ h.block = n /\ \E i \in 1 .. m : /\ rows[i] = <<h.account, h.abi>>
                                                 /\ Recorded(h.abi, s0.abi[h.account])
      BY <1>5 DEF Handled
    <3>3. rows[k] = <<h.account, h.abi>> <=> h.account = a /\ h.abi = v
      BY <1>2
    <3>4. (\E i \in 1 .. k : /\ rows[i] = <<h.account, h.abi>>
                             /\ Recorded(h.abi, s0.abi[h.account]))
          <=> \/ \E i \in 1 .. m : /\ rows[i] = <<h.account, h.abi>>
                                   /\ Recorded(h.abi, s0.abi[h.account])
              \/ h.account = a /\ h.abi = v /\ Recorded(v, s.abi[a])
      BY <1>3, <1>6, <3>3
    <3> QED
      BY <3>1, <3>2, <3>4
  <2> QED
    BY <1>8, <2>1, <2>2, <2>3 DEF Handled
<1>9. CASE v = NoAbi
  <2> DEFINE new == clear_contract_abi(a, n, s)
  <2>1. AccountRow(rows[k], n, s) = new
    BY <1>2, <1>9 DEF AccountRow
  <2>2. /\ new.abi = [s.abi EXCEPT ![a] = NoAbi]
        /\ new.history = IF s.abi[a] = NoAbi THEN s.history
                         ELSE save_contract_abi_history(a, n, NoAbi, s.history)
        /\ new.loaded = Forgotten(a, s)
        /\ new = [abi |-> new.abi, history |-> new.history, loaded |-> new.loaded]
    BY DEF clear_contract_abi
  <2> HIDE DEF new
  <2>3. /\ new.abi \in [Accounts -> Abis \cup {NoAbi}]
        /\ \A b \in Accounts : new.abi[b] = IF b = a THEN AbiAfter(v, s.abi[a]) ELSE s.abi[b]
    BY <1>6, <1>9, <2>2, AbiFacts DEF RowStates, AbiAfter
  <2>4. new.loaded \in [Accounts -> Abis \cup {NoAbi}] /\ LoadedOk(new.loaded, new.abi)
    BY <1>6, <2>2, ForgottenFacts DEF LoadedOk, RowStates
  <2>5. /\ new.history \in SUBSET HistoryRows
        /\ \A h \in HistoryRows :
              h \in new.history <=>
                 h \in s.history \/ (h.account = a /\ h.block = n /\ h.abi = v
                                     /\ Recorded(v, s.abi[a]))
    <3>1. s.history \in SUBSET HistoryRows
      BY <1>6 DEF RowStates
    <3>2. CASE s.abi[a] = NoAbi
      BY <1>9, <2>2, <3>1, <3>2 DEF Recorded
    <3>3. CASE s.abi[a] # NoAbi
      BY <1>7, <1>9, <2>2, <3>1, <3>3, HistoryAdds DEF Recorded
    <3> QED
      BY <3>2, <3>3
  <2>6. new \in RowStates
    BY <2>2, <2>3, <2>4, <2>5 DEF RowStates
  <2> QED
    BY <1>8, <2>1, <2>3, <2>4, <2>5, <2>6
<1>10. CASE v # NoAbi
  <2> DEFINE new == save_contract_abi(a, n, v, s)
  <2>1. AccountRow(rows[k], n, s) = new
    BY <1>2, <1>10 DEF AccountRow
  <2>2. /\ new.abi = IF v = BadAbi THEN s.abi ELSE [s.abi EXCEPT ![a] = v]
        /\ new.history = save_contract_abi_history(a, n, v, s.history)
        /\ new.loaded = IF v = BadAbi THEN Forgotten(a, s) ELSE [Forgotten(a, s) EXCEPT ![a] = v]
        /\ new = [abi |-> new.abi, history |-> new.history, loaded |-> new.loaded]
    BY DEF save_contract_abi
  <2> HIDE DEF new
  <2>3. /\ new.abi \in [Accounts -> Abis \cup {NoAbi}]
        /\ \A b \in Accounts : new.abi[b] = IF b = a THEN AbiAfter(v, s.abi[a]) ELSE s.abi[b]
    BY <1>6, <1>10, <2>2, AbiFacts DEF RowStates, AbiAfter
  <2>4. new.loaded \in [Accounts -> Abis \cup {NoAbi}] /\ LoadedOk(new.loaded, new.abi)
    <3>1. /\ Forgotten(a, s) \in [Accounts -> Abis \cup {NoAbi}]
          /\ Forgotten(a, s)[a] = NoAbi
          /\ \A b \in Accounts : Forgotten(a, s)[b] \in {NoAbi, s.abi[b]}
      BY <1>6, ForgottenFacts
    <3>2. CASE v = BadAbi
      BY <2>2, <3>1, <3>2 DEF LoadedOk
    <3>3. CASE v # BadAbi
      <4>1. v \in Abis
        BY <1>10, <3>3, AbiFacts
      <4>2. new.loaded \in [Accounts -> Abis \cup {NoAbi}]
        BY <2>2, <3>1, <3>3, <4>1
      <4>3. \A b \in Accounts : new.loaded[b] = IF b = a THEN v ELSE Forgotten(a, s)[b]
        BY <2>2, <3>1, <3>3
      <4>4. new.abi[a] = v /\ \A b \in Accounts : b # a => new.abi[b] = s.abi[b]
        BY <2>3, <3>3 DEF AbiAfter
      <4> QED
        BY <3>1, <4>2, <4>3, <4>4 DEF LoadedOk
    <3> QED
      BY <3>2, <3>3
  <2>5. /\ new.history \in SUBSET HistoryRows
        /\ \A h \in HistoryRows :
              h \in new.history <=>
                 h \in s.history \/ (h.account = a /\ h.block = n /\ h.abi = v
                                     /\ Recorded(v, s.abi[a]))
    <3>1. s.history \in SUBSET HistoryRows
      BY <1>6 DEF RowStates
    <3> QED
      BY <1>7, <1>10, <2>2, <3>1, HistoryAdds DEF Recorded
  <2>6. new \in RowStates
    BY <2>2, <2>3, <2>4, <2>5 DEF RowStates
  <2> QED
    BY <1>8, <2>1, <2>3, <2>4, <2>5, <2>6
<1> QED
  BY <1>9, <1>10

\* Handling the rows one after the other.
LEMMA RowsHandled ==
    ASSUME NEW rows \in Changes, NEW n \in 1 .. MaxBlock,
           NEW s0 \in RowStates, \A h \in s0.history : h.block < n,
           LoadedOk(s0.loaded, s0.abi)
    PROVE  Handled(AccountRows(rows, n, s0), Len(rows), rows, n, s0)
<1>1. PICK m \in Nat : m = Len(rows)
  BY ChangesFacts
<1> DEFINE Upto(g, k) == g = [j \in 0 .. k |-> IF j = 0 THEN s0
                                               ELSE AccountRow(rows[j], n, g[j - 1])]
           T == {k \in 0 .. m : ~\E g : Upto(g, k)}
<1>2. T = {}
  <2>1. SUFFICES ASSUME T # {} PROVE FALSE
    OBVIOUS
  <2>2. PICK k \in T : \A j \in T : k <= j
    <3>1. T \in SUBSET Nat
      BY <1>1
    <3> HIDE DEF T
    <3> QED
      BY <2>1, <3>1, SmallestOf
  <2>3. k \in 0 .. m /\ ~\E g : Upto(g, k)
    OBVIOUS
  <2>4. k # 0
    <3>1. Upto([j \in 0 .. 0 |-> s0], 0)
      OBVIOUS
    <3> QED
      BY <2>3, <3>1
  <2>5. k - 1 \in 0 .. m /\ k - 1 \notin T /\ k \in Nat
    <3>1. k - 1 \in 0 .. m /\ ~(k <= k - 1) /\ k \in Nat
      BY <1>1, <2>3, <2>4
    <3> HIDE DEF T
    <3> QED
      BY <2>2, <3>1
  <2>6. PICK g : Upto(g, k - 1)
    BY <2>5
  <2> DEFINE f == [j \in 0 .. k |-> IF j = k THEN AccountRow(rows[k], n, g[k - 1]) ELSE g[j]]
  <2>7. ASSUME NEW j \in 0 .. k
        PROVE  f[j] = IF j = 0 THEN s0 ELSE AccountRow(rows[j], n, f[j - 1])
    <3>1. CASE j = k
      <4>1. k - 1 \in 0 .. k /\ k - 1 # k
        BY <2>4, <2>5
      <4> QED
        BY <2>4, <3>1, <4>1
    <3>2. CASE j = 0
      <4>1. g[0] = s0
        BY <2>4, <2>5, <2>6
      <4> QED
        BY <2>4, <3>2, <4>1
    <3>3. CASE j # k /\ j # 0
      <4>1. j \in 0 .. k - 1 /\ j - 1 \in 0 .. k /\ j - 1 # k
        BY <2>5, <3>3
      <4>2. g[j] = AccountRow(rows[j], n, g[j - 1])
        BY <2>6, <3>3, <4>1
      <4> QED
        BY <3>3, <4>1, <4>2
    <3> QED
      BY <3>1, <3>2, <3>3
  <2>8. Upto(f, k)
    <3>1. f = [j \in 0 .. k |-> f[j]]
      OBVIOUS
    <3> HIDE DEF f
    <3> QED
      BY <2>7, <3>1
  <2> QED
    BY <2>3, <2>8
<1>3. PICK after : /\ after = CHOOSE g : Upto(g, m)
                   /\ AccountRows(rows, n, s0) = after[m]
  BY <1>1 DEF AccountRows
<1>4. Upto(after, m)
  <2>1. \E g : Upto(g, m)
    <3>1. m \in 0 .. m
      BY <1>1
    <3> QED
      BY <1>2, <3>1
  <2> HIDE DEF Upto
  <2> QED
    BY <1>3, <2>1
<1>5. after[0] = s0 /\ \A j \in 1 .. m : after[j] = AccountRow(rows[j], n, after[j - 1])
  BY <1>1, <1>4
<1> DEFINE U == {k \in 0 .. m : ~Handled(after[k], k, rows, n, s0)}
<1>6. U = {}
  <2>1. SUFFICES ASSUME U # {} PROVE FALSE
    OBVIOUS
  <2>2. PICK k \in U : \A j \in U : k <= j
    <3>1. U \in SUBSET Nat
      BY <1>1
    <3> HIDE DEF U
    <3> QED
      BY <2>1, <3>1, SmallestOf
  <2>3. k \in 0 .. m /\ ~Handled(after[k], k, rows, n, s0)
    OBVIOUS
  <2>4. Handled(s0, 0, rows, n, s0)
    BY DEF Handled
  <2>5. k # 0
    BY <1>5, <2>3, <2>4
  <2>6. k - 1 \in 0 .. m /\ k - 1 \notin U /\ k \in 1 .. m
    <3>1. k - 1 \in 0 .. m /\ ~(k <= k - 1) /\ k \in 1 .. m
      BY <1>1, <2>3, <2>5
    <3> HIDE DEF U
    <3> QED
      BY <2>2, <3>1
  <2>7. Handled(after[k - 1], k - 1, rows, n, s0)
    BY <2>6
  <2>8. Handled(AccountRow(rows[k], n, after[k - 1]), k, rows, n, s0)
    BY <1>1, <2>6, <2>7, RowHandled
  <2> QED
    BY <1>5, <2>3, <2>6, <2>8
<1>7. m \in 0 .. m
  BY <1>1
<1> QED
  BY <1>1, <1>3, <1>6, <1>7

-------------------------------------------------------------------------------
(* The tables after a block.                                                 *)

\* A new row of the history is one of block n, for a row of the block.
AddsRows(old, new, rows, n, abi) ==
    /\ \A h \in old : h.block < n
    /\ \A h \in HistoryRows :
          h \in new <=> h \in old \/ (h.block = n /\ HasRow(rows, h.account, h.abi)
                                      /\ Recorded(h.abi, abi[h.account]))

ChangesAfter(old, new, rows, n, abi, a) ==
    /\ \A m \in 0 .. n - 1 : HistoryChanges(new, a, m) = HistoryChanges(old, a, m)
    /\ NoRow(rows, a) => HistoryChanges(new, a, n) = HistoryChanges(old, a, n - 1)
    /\ \A v : HasRow(rows, a, v) =>
          HistoryChanges(new, a, n) =
             HistoryChanges(old, a, n - 1)
                \cup (IF Recorded(v, abi[a]) THEN {<<n, v>>} ELSE {})

\* The history after a block, seen as changes of one account.
LEMMA HistoryGrows ==
    ASSUME NEW old \in SUBSET HistoryRows, NEW new \in SUBSET HistoryRows,
           NEW rows \in Changes, NEW n \in 1 .. MaxBlock, NEW abi,
           AddsRows(old, new, rows, n, abi), NEW a \in Accounts
    PROVE  ChangesAfter(old, new, rows, n, abi, a)
<1>0. /\ \A h \in old : h.block < n
      /\ \A h \in HistoryRows :
            h \in new <=> h \in old \/ (h.block = n /\ HasRow(rows, h.account, h.abi)
                                        /\ Recorded(h.abi, abi[h.account]))
  BY DEF AddsRows
<1>1. n \in Nat /\ \A h \in HistoryRows : h.block \in Nat /\ h.abi \in Values
  BY AbiFacts DEF HistoryRows
<1>2. \A h \in HistoryRows : h \in old => h \in new
  BY <1>0
<1>3. \A h \in new : h \in old \/ h.block = n
  BY <1>0
<1>4. ASSUME NEW m \in 0 .. n - 1
      PROVE  HistoryChanges(new, a, m) = HistoryChanges(old, a, m)
  <2>1. \A h \in new : h.block <= m => h \in old
    BY <1>1, <1>3
  <2>2. {h \in new : h.account = a /\ h.block <= m} = {h \in old : h.account = a /\ h.block <= m}
    BY <1>2, <2>1
  <2> QED
    BY <2>2 DEF HistoryChanges
<1>5. {h \in old : h.account = a /\ h.block <= n - 1} = {h \in old : h.account = a}
  BY <1>0, <1>1
<1>6. {h \in new : h.account = a /\ h.block <= n} = {h \in new : h.account = a}
  BY <1>0, <1>1, <1>3
<1>7. ASSUME NoRow(rows, a)
      PROVE  HistoryChanges(new, a, n) = HistoryChanges(old, a, n - 1)
  <2>1. \A v : ~HasRow(rows, a, v)
    BY <1>7, RowCases
  <2>2. {h \in new : h.account = a} = {h \in old : h.account = a}
    BY <1>0, <1>2, <1>3, <2>1
  <2> QED
    BY <1>5, <1>6, <2>2 DEF HistoryChanges
<1>8. ASSUME NEW v, HasRow(rows, a, v)
      PROVE  HistoryChanges(new, a, n) =
                HistoryChanges(old, a, n - 1)
                   \cup (IF Recorded(v, abi[a]) THEN {<<n, v>>} ELSE {})
  <2>1. v \in Values /\ \A w : HasRow(rows, a, w) => w = v
    BY <1>8, RowCases
  <2>2. \A h \in new : h.account = a /\ h \notin old =>
           h.block = n /\ h.abi = v /\ Recorded(v, abi[a])
    BY <1>0, <2>1
  <2>3. CASE ~Recorded(v, abi[a])
    <3>1. {h \in new : h.account = a} = {h \in old : h.account = a}
      BY <1>2, <2>2, <2>3
    <3> QED
      BY <1>5, <1>6, <2>3, <3>1 DEF HistoryChanges
  <2>4. CASE Recorded(v, abi[a])
    <3> DEFINE one == [account |-> a, block |-> n, abi |-> v]
    <3>1. /\ one \in HistoryRows /\ one.account = a /\ one.block = n /\ one.abi = v
          /\ \A h \in HistoryRows : h.account = a /\ h.block = n /\ h.abi = v => h = one
      BY <2>1 DEF HistoryRows
    <3> HIDE DEF one
    <3>2. one \in new
      BY <1>0, <1>8, <2>4, <3>1
    <3>3. {h \in new : h.account = a} = {h \in old : h.account = a} \cup {one}
      BY <1>2, <2>2, <3>1, <3>2
    <3>4. HistoryChanges(new, a, n) = {<<h.block, h.abi>> : h \in {h \in old : h.account = a} \cup {one}}
      BY <1>6, <3>3 DEF HistoryChanges
    <3>5. HistoryChanges(old, a, n - 1) = {<<h.block, h.abi>> : h \in {h \in old : h.account = a}}
      BY <1>5 DEF HistoryChanges
    <3> QED
      BY <2>4, <3>1, <3>4, <3>5
  <2> QED
    BY <2>3, <2>4
<1> QED
  BY <1>4, <1>7, <1>8 DEF ChangesAfter

\* What the rows of block n of a chain make of tables that agree with it below n.
LEMMA BlockTables ==
    ASSUME NEW c \in Seq(Changes), NEW n \in 1 .. Len(c), n \in 1 .. MaxBlock,
           NEW r \in Nat, NEW t \in AbiTables, t.head = n - 1, TablesOk(t, c, r),
           NEW cache, NEW s,
           Handled(s, Len(c[n]), c[n], n,
                   [abi |-> t.abi, history |-> t.history, loaded |-> cache]),
           NEW i \in 0 .. MaxBlock, NEW u,
           u = [head |-> n, irreversible |-> i, abi |-> s.abi, history |-> s.history]
    PROVE  u \in AbiTables /\ TablesOk(u, c, r)
<1>1. /\ n \in Nat /\ n >= 1 /\ n - 1 \in Nat /\ n - 1 + 1 = n /\ n - 1 \in 0 .. n - 1
      /\ c[n] \in Changes
  OBVIOUS
<1>2. /\ t.abi \in [Accounts -> Abis \cup {NoAbi}] /\ t.history \in SUBSET HistoryRows
      /\ \A h \in t.history : h.block \in Nat
  BY AbiFacts DEF AbiTables, HistoryRows
<1>3. /\ s \in RowStates
      /\ \A a \in Accounts : NoRow(c[n], a) => s.abi[a] = t.abi[a]
      /\ \A a \in Accounts : \A v : HasRow(c[n], a, v) => s.abi[a] = AbiAfter(v, t.abi[a])
      /\ \A h \in HistoryRows :
            h \in s.history <=>
               h \in t.history \/ (h.block = n /\ HasRow(c[n], h.account, h.abi)
                                   /\ Recorded(h.abi, t.abi[h.account]))
  <2> DEFINE rows == c[n]
             m == Len(c[n])
             s0 == [abi |-> t.abi, history |-> t.history, loaded |-> cache]
  <2>1. Handled(s, m, rows, n, s0) /\ s0.abi = t.abi /\ s0.history = t.history
    OBVIOUS
  <2> HIDE DEF s0
  <2>2. s \in RowStates
    BY <2>1 DEF Handled
  <2>3. \A a \in Accounts : NoRow(rows, a) => s.abi[a] = t.abi[a]
    BY <2>1 DEF Handled, NoRow
  <2>4. ASSUME NEW a \in Accounts, NEW v, HasRow(rows, a, v)
        PROVE  s.abi[a] = AbiAfter(v, t.abi[a])
    <3>1. PICK k \in 1 .. m : rows[k] = <<a, v>>
      BY <2>4 DEF HasRow
    <3>2. rows[k][1] = a /\ rows[k][2] = v
      BY <3>1
    <3> QED
      BY <2>1, <3>2 DEF Handled
  <2>5. ASSUME NEW h \in HistoryRows
        PROVE  h \in s.history <=>
                  h \in t.history \/ (h.block = n /\ HasRow(rows, h.account, h.abi)
                                      /\ Recorded(h.abi, t.abi[h.account]))
    BY <2>1 DEF Handled, HasRow
  <2> QED
    BY <2>2, <2>3, <2>4, <2>5
<1>4. /\ Current(t, c) /\ HistoryAgrees(t, c, r)
      /\ \A h \in t.history : h.block < n
  BY <1>1, <1>2 DEF TablesOk, Current
<1>5. s.history \in SUBSET HistoryRows /\ s.abi \in [Accounts -> Abis \cup {NoAbi}]
  BY <1>3 DEF RowStates
<1>6. u \in AbiTables /\ u.head = n /\ u.abi = s.abi /\ u.history = s.history
  BY <1>5 DEF AbiTables
<1> DEFINE OfChain(a, m) == ChainChanges(c, a, m)
           Was(a, m) == HistoryChanges(t.history, a, m)
           Is(a, m) == HistoryChanges(u.history, a, m)
<1>7. \A a \in Accounts :
         /\ \A m \in 0 .. n - 1 : Is(a, m) = Was(a, m)
         /\ NoRow(c[n], a) => Is(a, n) = Was(a, n - 1)
         /\ \A v : HasRow(c[n], a, v) =>
               Is(a, n) = Was(a, n - 1) \cup (IF Recorded(v, t.abi[a]) THEN {<<n, v>>} ELSE {})
  <2> SUFFICES ASSUME NEW a \in Accounts
               PROVE  /\ \A m \in 0 .. n - 1 : Is(a, m) = Was(a, m)
                      /\ NoRow(c[n], a) => Is(a, n) = Was(a, n - 1)
                      /\ \A v : HasRow(c[n], a, v) =>
                            Is(a, n) = Was(a, n - 1)
                                       \cup (IF Recorded(v, t.abi[a]) THEN {<<n, v>>} ELSE {})
    OBVIOUS
  <2>1. PICK rows \in Changes : rows = c[n]
    BY <1>1
  <2>2. PICK old \in SUBSET HistoryRows : old = t.history
    BY <1>2
  <2>3. PICK new \in SUBSET HistoryRows : new = u.history /\ new = s.history
    BY <1>5, <1>6
  <2>4. PICK abi : abi = t.abi
    OBVIOUS
  <2>5. AddsRows(old, new, rows, n, abi)
    BY <1>3, <1>4, <2>1, <2>2, <2>3, <2>4 DEF AddsRows
  <2>6. ChangesAfter(old, new, rows, n, abi, a)
    BY <2>5, HistoryGrows
  <2> QED
    BY <2>1, <2>2, <2>3, <2>4, <2>6 DEF ChangesAfter
<1>8. \A a \in Accounts :
         /\ NoRow(c[n], a) => OfChain(a, n) = OfChain(a, n - 1)
         /\ \A v : HasRow(c[n], a, v) => OfChain(a, n) = OfChain(a, n - 1) \cup {<<n, v>>}
         /\ \A x \in OfChain(a, n - 1) : x[1] \in Nat /\ x[1] < n
  <2> SUFFICES ASSUME NEW a \in Accounts
               PROVE  /\ NoRow(c[n], a) => OfChain(a, n) = OfChain(a, n - 1)
                      /\ \A v : HasRow(c[n], a, v) =>
                            OfChain(a, n) = OfChain(a, n - 1) \cup {<<n, v>>}
                      /\ \A x \in OfChain(a, n - 1) : x[1] \in Nat /\ x[1] < n
    OBVIOUS
  <2>1. PICK m \in Nat : m = n - 1 /\ m + 1 = n
    BY <1>1
  <2>2. \A x \in ChainChanges(c, a, m) : x[1] \in Nat /\ x[1] < m + 1
    BY ChangeBlocks
  <2>3. /\ NoRow(c[n], a) => ChainChanges(c, a, n) = ChainChanges(c, a, n - 1)
        /\ \A v : HasRow(c[n], a, v) =>
              ChainChanges(c, a, n) = ChainChanges(c, a, n - 1) \cup {<<n, v>>}
    BY ChainGrows
  <2> QED
    BY <2>1, <2>2, <2>3
<1>9. \A a \in Accounts : \A x \in Was(a, n - 1) : x[1] \in Nat /\ x[1] < n
  BY <1>2, <1>4 DEF HistoryChanges
<1>10. \A a \in Accounts :
         /\ NoRow(c[n], a) \/ \E v \in Values : HasRow(c[n], a, v)
         /\ \A v : HasRow(c[n], a, v) => v \in Values /\ ~NoRow(c[n], a)
  BY <1>1, RowCases
<1>11. \A a \in Accounts :
          /\ t.abi[a] = Latest(Good(OfChain(a, n - 1)))
          /\ Kept(Was(a, n - 1)) = Kept(OfChain(a, n - 1))
          /\ t.abi[a] = NoAbi => Usable(Latest(OfChain(a, n - 1))) = NoAbi
  BY <1>4 DEF Current, UsesLatest, KeepsChanges, NothingToRemove
<1>12. \A a \in Accounts, m \in 1 .. n - 1 :
          Usable(Latest(Was(a, m))) = Usable(Latest(OfChain(a, m))) \/ BareIn(c, r, a, m)
  BY <1>4 DEF HistoryAgrees
<1>13. ASSUME NEW a \in Accounts, NEW v, HasRow(c[n], a, v)
       PROVE  Latest(OfChain(a, n)) = v /\ (Recorded(v, t.abi[a]) => Latest(Is(a, n)) = v)
  <2>1. Latest(OfChain(a, n)) = v
    <3>1. <<n, v>> \in OfChain(a, n)
      BY <1>8, <1>13
    <3>2. \A x \in OfChain(a, n) : x = <<n, v>> \/ (x[1] \in Nat /\ x[1] < n)
      BY <1>8, <1>13
    <3> HIDE DEF OfChain
    <3> QED
      BY <1>1, <3>1, <3>2, LatestIs
  <2>2. ASSUME Recorded(v, t.abi[a]) PROVE Latest(Is(a, n)) = v
    <3>1. Is(a, n) = Was(a, n - 1) \cup {<<n, v>>}
      BY <1>7, <1>13, <2>2
    <3>2. \A x \in Is(a, n) : x = <<n, v>> \/ (x[1] \in Nat /\ x[1] < n)
      BY <1>9, <3>1
    <3> HIDE DEF Is
    <3> QED
      BY <1>1, <3>1, <3>2, LatestIs
  <2> QED
    BY <2>1, <2>2
<1> HIDE DEF OfChain, Was, Is
<1>14. ASSUME NEW a \in Accounts PROVE u.abi[a] = Latest(Good(OfChain(a, n)))
  <2>1. CASE NoRow(c[n], a)
    BY <1>3, <1>6, <1>8, <1>11, <2>1
  <2>2. ASSUME NEW v \in Values, HasRow(c[n], a, v) PROVE u.abi[a] = Latest(Good(OfChain(a, n)))
    <3>1. OfChain(a, n) = OfChain(a, n - 1) \cup {<<n, v>>} /\ u.abi[a] = AbiAfter(v, t.abi[a])
      BY <1>3, <1>6, <1>8, <2>2
    <3>2. CASE v = BadAbi
      <4>1. Good(OfChain(a, n)) = Good(OfChain(a, n - 1))
        BY <3>1, <3>2 DEF Good
      <4> QED
        BY <1>11, <3>1, <3>2, <4>1 DEF AbiAfter
    <3>3. CASE v # BadAbi
      <4>1. <<n, v>> \in Good(OfChain(a, n))
        BY <3>1, <3>3 DEF Good
      <4>2. \A x \in Good(OfChain(a, n)) : x = <<n, v>> \/ (x[1] \in Nat /\ x[1] < n)
        BY <1>8, <3>1 DEF Good
      <4>3. Latest(Good(OfChain(a, n))) = v
        BY <1>1, <4>1, <4>2, LatestIs
      <4> QED
        BY <3>1, <3>3, <4>3 DEF AbiAfter
    <3> QED
      BY <3>2, <3>3
  <2> QED
    BY <1>10, <2>1, <2>2
<1>15. ASSUME NEW a \in Accounts PROVE Kept(Is(a, n)) = Kept(OfChain(a, n))
  <2>1. CASE NoRow(c[n], a)
    BY <1>7, <1>8, <1>11, <2>1
  <2>2. ASSUME NEW v \in Values, HasRow(c[n], a, v) PROVE Kept(Is(a, n)) = Kept(OfChain(a, n))
    <3>1. /\ OfChain(a, n) = OfChain(a, n - 1) \cup {<<n, v>>}
          /\ Is(a, n) = Was(a, n - 1) \cup (IF Recorded(v, t.abi[a]) THEN {<<n, v>>} ELSE {})
      BY <1>7, <1>8, <2>2
    <3>2. CASE v = NoAbi
      <4>1. Kept(OfChain(a, n)) = Kept(OfChain(a, n - 1)) /\ Kept(Is(a, n)) = Kept(Was(a, n - 1))
        BY <3>1, <3>2 DEF Kept
      <4> QED
        BY <1>11, <4>1
    <3>3. CASE v # NoAbi
      <4>1. /\ Kept(OfChain(a, n)) = Kept(OfChain(a, n - 1)) \cup {<<n, v>>}
            /\ Kept(Is(a, n)) = Kept(Was(a, n - 1)) \cup {<<n, v>>}
        BY <3>1, <3>3 DEF Kept, Recorded
      <4> QED
        BY <1>11, <4>1
    <3> QED
      BY <3>2, <3>3
  <2> QED
    BY <1>10, <2>1, <2>2
<1>16. ASSUME NEW a \in Accounts, u.abi[a] = NoAbi PROVE Usable(Latest(OfChain(a, n))) = NoAbi
  <2>1. CASE NoRow(c[n], a)
    BY <1>3, <1>6, <1>8, <1>11, <1>16, <2>1
  <2>2. ASSUME NEW v \in Values, HasRow(c[n], a, v) PROVE Usable(Latest(OfChain(a, n))) = NoAbi
    <3>1. Latest(OfChain(a, n)) = v /\ u.abi[a] = AbiAfter(v, t.abi[a])
      BY <1>3, <1>6, <1>13, <2>2
    <3> QED
      BY <1>16, <3>1 DEF AbiAfter, Usable
  <2> QED
    BY <1>10, <2>1, <2>2
<1>17. ASSUME NEW a \in Accounts, Is(a, n) = Was(a, n - 1),
              Latest(OfChain(a, n)) = Latest(OfChain(a, n - 1))
              \/ (Latest(OfChain(a, n)) = NoAbi /\ t.abi[a] = NoAbi)
       PROVE  Usable(Latest(Is(a, n))) = Usable(Latest(OfChain(a, n))) \/ BareIn(c, r, a, n)
  <2>0. Usable(NoAbi) = NoAbi
    BY DEF Usable
  <2>1. Usable(Latest(OfChain(a, n))) = Usable(Latest(OfChain(a, n - 1)))
    BY <1>11, <1>17, <2>0
  <2>2. CASE n = 1
    <3>1. Was(a, n - 1) = {} /\ OfChain(a, n - 1) = {}
      <4>1. n - 1 = 0
        BY <2>2
      <4> QED
        BY <1>2, <4>1 DEF Was, OfChain, HistoryChanges, ChainChanges, HistoryRows
    <3> QED
      BY <1>17, <2>1, <3>1
  <2>3. CASE n # 1
    <3>1. n - 1 \in 1 .. n - 1
      BY <1>1, <2>3
    <3>2. CASE Usable(Latest(Was(a, n - 1))) = Usable(Latest(OfChain(a, n - 1)))
      BY <1>17, <2>1, <3>2
    <3>3. CASE BareIn(c, r, a, n - 1)
      <4>1. /\ r > 0
            /\ \A m \in 1 .. n - 1 : m = n - 1 \/ m >= r => Latest(OfChain(a, m)) = NoAbi
        BY <3>3 DEF BareIn, OfChain
      <4>2. Latest(OfChain(a, n - 1)) = NoAbi
        BY <3>1, <4>1
      <4>3. Latest(OfChain(a, n)) = NoAbi
        BY <1>17, <4>2
      <4>4. ASSUME NEW m \in 1 .. n, m = n \/ m >= r PROVE Latest(OfChain(a, m)) = NoAbi
        <5>1. CASE m = n
          BY <4>3, <5>1
        <5>2. CASE m # n
          <6>1. m \in 1 .. n - 1
            BY <1>1, <5>2
          <6> QED
            BY <4>1, <4>4, <5>2, <6>1
        <5> QED
          BY <5>1, <5>2
      <4> QED
        BY <4>1, <4>4 DEF BareIn, OfChain
    <3> QED
      BY <1>12, <3>1, <3>2, <3>3
  <2> QED
    BY <2>2, <2>3
<1>18. ASSUME NEW a \in Accounts, NEW m \in 1 .. n
       PROVE  Usable(Latest(Is(a, m))) = Usable(Latest(OfChain(a, m))) \/ BareIn(c, r, a, m)
  <2>1. CASE m # n
    <3>1. m \in 1 .. n - 1 /\ m \in 0 .. n - 1
      BY <1>1, <2>1
    <3> QED
      BY <1>7, <1>12, <3>1
  <2>2. CASE m = n /\ NoRow(c[n], a)
    BY <1>7, <1>8, <1>17, <2>2
  <2>3. ASSUME m = n, NEW v \in Values, HasRow(c[n], a, v)
        PROVE  Usable(Latest(Is(a, m))) = Usable(Latest(OfChain(a, m))) \/ BareIn(c, r, a, m)
    <3>1. CASE Recorded(v, t.abi[a])
      BY <1>13, <2>3, <3>1
    <3>2. CASE ~Recorded(v, t.abi[a])
      <4>1. v = NoAbi /\ t.abi[a] = NoAbi
        BY <3>2 DEF Recorded
      <4>2. Is(a, n) = Was(a, n - 1) /\ Latest(OfChain(a, n)) = NoAbi
        BY <1>7, <1>13, <2>3, <3>2, <4>1
      <4> QED
        BY <1>17, <2>3, <4>1, <4>2
    <3> QED
      BY <3>1, <3>2
  <2> QED
    BY <1>10, <2>1, <2>2, <2>3
<1>19. \A h \in u.history : h.block <= n
  BY <1>1, <1>2, <1>3, <1>4, <1>5, <1>6
<1>20. UsesLatest(u, c) /\ KeepsChanges(u, c) /\ NothingToRemove(u, c) /\ HistoryAgrees(u, c, r)
  BY <1>6, <1>14, <1>15, <1>16, <1>18
     DEF UsesLatest, KeepsChanges, NothingToRemove, HistoryAgrees, OfChain, Is
<1>21. ASSUME r = 0 PROVE Exact(u, c)
  <2>1. Exact(t, c)
    BY <1>21 DEF TablesOk
  <2> SUFFICES ASSUME NEW h \in HistoryRows
               PROVE  h \in u.history <=>
                         /\ h.block <= n
                         /\ <<h.block, h.abi>> \in OfChain(h.account, h.block)
                         /\ Recorded(h.abi, Latest(Good(OfChain(h.account, h.block - 1))))
    BY <1>6 DEF Exact, OfChain
  <2>2. h.account \in Accounts /\ h.block \in Nat /\ h.abi \in Values
    BY AbiFacts DEF HistoryRows
  <2>3. h \in u.history <=>
           h \in t.history \/ (h.block = n /\ HasRow(c[n], h.account, h.abi)
                               /\ Recorded(h.abi, t.abi[h.account]))
    BY <1>3, <1>6
  <2>4. CASE h.block # n
    <3>1. h.block <= n <=> h.block <= n - 1
      BY <1>1, <2>2, <2>4
    <3>2. h \in t.history <=>
             /\ h.block <= n - 1
             /\ <<h.block, h.abi>> \in OfChain(h.account, h.block)
             /\ Recorded(h.abi, Latest(Good(OfChain(h.account, h.block - 1))))
      BY <2>1 DEF Exact, OfChain
    <3> QED
      BY <2>3, <2>4, <3>1, <3>2
  <2>5. CASE h.block = n
    <3>1. h \notin t.history
      BY <1>4, <2>2, <2>5
    <3>2. <<n, h.abi>> \in OfChain(h.account, n) <=> HasRow(c[n], h.account, h.abi)
      <4>1. PICK a \in Accounts, v \in Values : a = h.account /\ v = h.abi
        BY <2>2
      <4>2. <<n, v>> \notin OfChain(a, n - 1)
        BY <1>1, <1>8
      <4>3. ASSUME HasRow(c[n], a, v) PROVE <<n, v>> \in OfChain(a, n)
        BY <1>8, <4>3
      <4>4. ASSUME <<n, v>> \in OfChain(a, n) PROVE HasRow(c[n], a, v)
        <5>1. ~NoRow(c[n], a)
          BY <1>8, <4>2, <4>4
        <5>2. PICK w \in Values : HasRow(c[n], a, w)
          BY <1>10, <5>1
        <5>3. <<n, v>> = <<n, w>>
          BY <1>8, <4>2, <4>4, <5>2
        <5> QED
          BY <5>2, <5>3
      <4> QED
        BY <4>1, <4>3, <4>4
    <3>3. t.abi[h.account] = Latest(Good(OfChain(h.account, n - 1)))
      BY <1>11, <2>2
    <3> QED
      BY <1>1, <2>3, <2>5, <3>1, <3>2, <3>3
  <2> QED
    BY <2>4, <2>5
<1> QED
  BY <1>1, <1>6, <1>19, <1>20, <1>21 DEF TablesOk, Current

-------------------------------------------------------------------------------
(* Chains that agree.                                                        *)

SameUpTo(c, c2, h) == \A m \in 1 .. h : c2[m] = c[m]

\* Changes up to block n are those of any chain that begins alike.
LEMMA PrefixChanges ==
    ASSUME NEW c, NEW c2, NEW h \in Nat, SameUpTo(c, c2, h), NEW a, NEW n \in 0 .. h
    PROVE  ChainChanges(c2, a, n) = ChainChanges(c, a, n)
<1>0. \A m \in 1 .. h : c2[m] = c[m]
  BY DEF SameUpTo
<1>1. \A x \in (1 .. n) \X Values : c2[x[1]] = c[x[1]]
  <2> SUFFICES ASSUME NEW x \in (1 .. n) \X Values PROVE c2[x[1]] = c[x[1]]
    OBVIOUS
  <2>1. x[1] \in 1 .. n
    OBVIOUS
  <2>2. x[1] \in 1 .. h
    BY <2>1
  <2> QED
    BY <1>0, <2>2
<1> QED
  BY <1>1 DEF ChainChanges

\* Tables that agree with a chain agree with every one that begins like it.
LEMMA PrefixKeeps ==
    ASSUME NEW c, NEW c2, NEW h \in Nat, h <= Len(c2), Len(c2) \in Nat,
           SameUpTo(c, c2, h),
           NEW t, t.head \in 0 .. h, Current(t, c)
    PROVE  /\ Current(t, c2)
           /\ \A r : HistoryAgrees(t, c, r) => HistoryAgrees(t, c2, r)
           /\ Exact(t, c) => Exact(t, c2)
<1>1. \A a, n : n \in 0 .. h => ChainChanges(c2, a, n) = ChainChanges(c, a, n)
  <2> SUFFICES ASSUME NEW a, NEW n \in 0 .. h
               PROVE  ChainChanges(c2, a, n) = ChainChanges(c, a, n)
    OBVIOUS
  <2> QED
    BY PrefixChanges
<1>2. Current(t, c2)
  BY <1>1 DEF Current, UsesLatest, KeepsChanges, NothingToRemove
<1>3. ASSUME NEW r, HistoryAgrees(t, c, r) PROVE HistoryAgrees(t, c2, r)
  <2>1. \A n \in 1 .. t.head : n \in 0 .. h /\ \A m \in 1 .. n : m \in 0 .. h
    OBVIOUS
  <2>2. \A a, n : n \in 1 .. t.head => (BareIn(c2, r, a, n) <=> BareIn(c, r, a, n))
    BY <1>1, <2>1 DEF BareIn
  <2> QED
    BY <1>1, <1>3, <2>1, <2>2 DEF HistoryAgrees
<1>4. ASSUME Exact(t, c) PROVE Exact(t, c2)
  <2> SUFFICES ASSUME NEW g \in HistoryRows
               PROVE  g \in t.history <=>
                         /\ g.block <= t.head
                         /\ <<g.block, g.abi>> \in ChainChanges(c2, g.account, g.block)
                         /\ Recorded(g.abi, Latest(Good(ChainChanges(c2, g.account, g.block - 1))))
    BY DEF Exact
  <2>1. g.block \in Nat /\ g.block >= 1
    BY AbiFacts DEF HistoryRows
  <2>2. ASSUME g.block <= t.head
        PROVE  /\ ChainChanges(c2, g.account, g.block) = ChainChanges(c, g.account, g.block)
               /\ ChainChanges(c2, g.account, g.block - 1) = ChainChanges(c, g.account, g.block - 1)
    <3>1. g.block \in 0 .. h /\ g.block - 1 \in 0 .. h
      BY <2>1, <2>2
    <3> QED
      BY <1>1, <3>1
  <2>3. g \in t.history <=>
           /\ g.block <= t.head
           /\ <<g.block, g.abi>> \in ChainChanges(c, g.account, g.block)
           /\ Recorded(g.abi, Latest(Good(ChainChanges(c, g.account, g.block - 1))))
    BY <1>4 DEF Exact
  <2> QED
    BY <2>2, <2>3
<1> QED
  BY <1>2, <1>3, <1>4

\* Those up to block n.
UpTo(S, n) == {x \in S : x[1] <= n}

\* The changes up to a lower block are a part of those up to a higher one.
LEMMA LowerChanges ==
    ASSUME NEW a, NEW H \in Nat, NEW n \in 0 .. H, NEW c
    PROVE  ChainChanges(c, a, n) = UpTo(ChainChanges(c, a, H), n)
<1>1. ASSUME NEW x PROVE x \in (1 .. n) \X Values <=> x \in (1 .. H) \X Values /\ x[1] <= n
  <2>1. ASSUME x \in (1 .. n) \X Values PROVE x \in (1 .. H) \X Values /\ x[1] <= n
    <3>1. x = <<x[1], x[2]>> /\ x[1] \in 1 .. n /\ x[2] \in Values
      BY <2>1
    <3>2. x[1] \in 1 .. H /\ x[1] <= n
      BY <3>1
    <3> QED
      BY <3>1, <3>2
  <2>2. ASSUME x \in (1 .. H) \X Values, x[1] <= n PROVE x \in (1 .. n) \X Values
    <3>1. x = <<x[1], x[2]>> /\ x[1] \in 1 .. H /\ x[2] \in Values
      BY <2>2
    <3>2. x[1] \in 1 .. n
      BY <2>2, <3>1
    <3> QED
      BY <3>1, <3>2
  <2> QED
    BY <2>1, <2>2
<1> QED
  BY <1>1 DEF ChainChanges, UpTo

\* And those of a history.
LEMMA LowerHistory ==
    ASSUME NEW a, NEW H \in Nat, NEW n \in 0 .. H, NEW history \in SUBSET HistoryRows
    PROVE  HistoryChanges(history, a, n) = UpTo(HistoryChanges(history, a, H), n)
<1>1. \A h \in history : h.block \in Nat /\ <<h.block, h.abi>>[1] = h.block
  BY AbiFacts DEF HistoryRows
<1>2. \A h \in history : h.block <= n => h.block <= H
  BY <1>1
<1> QED
  BY <1>1, <1>2 DEF HistoryChanges, UpTo

-------------------------------------------------------------------------------
(* Reading a block.                                                          *)

\* The database d before block n of chain c, with the cache, and the database
\* with the cache after it.
BeforeBlock(d, cache, c, n, r, final) ==
    /\ DbOk(d, c, r, final)
    /\ Numbered(d) /\ d.revision = n - 1
    /\ cache \in CacheType /\ LoadedOk(cache, Tables(d).abi)

AfterBlock(d, cache, c, n, r, final) ==
    /\ DbOk(d, c, r, final)
    /\ Tables(d).head = n
    /\ cache \in CacheType /\ LoadedOk(cache, Tables(d).abi)

Committed(d, n, e) ==
    /\ IsDatabase(e, AbiTables) /\ e.revision = d.revision
    /\ e.committed \in d.committed .. d.revision
    /\ e.committed # d.committed => e.committed <= n
    /\ \A k \in e.committed .. d.revision : e.at[k] = d.at[k]

\* commit_db on this database.
LEMMA CommitAt ==
    ASSUME NEW d, IsDatabase(d, AbiTables), NEW n \in Nat, NEW e, e = Commit(d, n)
    PROVE  Committed(d, n, e)
<1>1. /\ IsDatabase(Commit(d, n), AbiTables)
      /\ Commit(d, n).revision = d.revision
      /\ d.committed <= Commit(d, n).committed
      /\ Commit(d, n).committed \in d.committed .. d.revision
      /\ Commit(d, n).committed # d.committed => Commit(d, n).committed <= n
      /\ \A r \in Commit(d, n).committed .. d.revision : Commit(d, n).at[r] = d.at[r]
  BY CommitDatabase
<1> QED
  BY <1>1 DEF Committed

Pushing(c, n, r, final, d, u, L, upto, new) ==
    /\ n \in Nat /\ n > 0 /\ final \in Nat /\ L \in Nat /\ final <= L
    /\ DbOk(d, c, r, final) /\ Numbered(d) /\ d.revision = n - 1
    /\ u \in AbiTables /\ TablesOk(u, c, r) /\ u.head = n
    /\ upto \in d.committed .. L
    /\ new = Commit(PushRevision(d, u), upto)

Pushed(c, r, d, u, L, new) ==
    DbOk(new, c, r, L) /\ Tables(new) = u /\ d.committed <= new.committed

\* Pushing the tables of a block and committing final blocks (receiver).
LEMMA PushedAndCommitted ==
    ASSUME NEW c, NEW n, NEW r, NEW final, NEW d, NEW u, NEW L, NEW upto, NEW new,
           Pushing(c, n, r, final, d, u, L, upto, new)
    PROVE  Pushed(c, r, d, u, L, new)
<1> USE DEF Pushing, Pushed
<1>1. /\ IsDatabase(d, AbiTables)
      /\ \A k \in d.committed .. d.revision : TablesOk(d.at[k], c, r) /\ d.at[k].head = k
      /\ d.at[d.committed].head <= final
  BY DEF DbOk, Numbered
<1>2. d.committed \in Nat /\ d.revision \in Nat /\ d.committed <= n - 1 /\ upto \in Nat
  BY <1>1 DEF IsDatabase
<1>3. PICK p : /\ p = PushRevision(d, u)
               /\ IsDatabase(p, AbiTables) /\ p.committed = d.committed
               /\ p.revision = d.revision + 1 /\ p.at[d.revision + 1] = u
               /\ \A k \in d.committed .. d.revision : p.at[k] = d.at[k]
  BY <1>1, PushDatabase
<1>4. p.revision = n /\ p.at[n] = u
  BY <1>3
<1>5. ASSUME NEW k \in d.committed .. n PROVE TablesOk(p.at[k], c, r) /\ p.at[k].head = k
  <2>1. CASE k = n
    BY <1>4, <2>1
  <2>2. CASE k # n
    <3>1. k \in d.committed .. d.revision
      BY <1>2, <2>2
    <3> QED
      BY <1>1, <1>3, <3>1
  <2> QED
    BY <2>1, <2>2
<1>6. PICK q : /\ q = Commit(p, upto)
               /\ IsDatabase(q, AbiTables) /\ q.revision = p.revision
               /\ q.committed \in p.committed .. p.revision
               /\ q.committed # p.committed => q.committed <= upto
               /\ \A k \in q.committed .. p.revision : q.at[k] = p.at[k]
  <2>1. PICK m, q : m \in Nat /\ m = upto /\ q = Commit(p, m)
    BY <1>2
  <2>2. Committed(p, m, q)
    BY <1>3, <2>1, CommitAt
  <2> QED
    BY <2>1, <2>2 DEF Committed
<1>7. /\ q.revision = n /\ q.committed \in d.committed .. n /\ q.committed \in Nat
      /\ \A k \in q.committed .. n : q.at[k] = p.at[k] /\ k \in d.committed .. n
  BY <1>2, <1>3, <1>4, <1>6
<1>8. \A k \in q.committed .. n : TablesOk(q.at[k], c, r) /\ q.at[k].head = k
  BY <1>5, <1>7
<1>9. q.committed <= L
  <2>1. CASE q.committed = d.committed
    <3>1. d.committed <= final
      BY <1>1, <1>2
    <3> QED
      BY <1>2, <2>1, <3>1
  <2>2. CASE q.committed # d.committed
    <3>1. q.committed <= upto
      BY <1>3, <1>6, <2>2
    <3> QED
      BY <1>2, <1>7, <3>1
  <2> QED
    BY <2>1, <2>2
<1>10. q.at[q.committed].head <= L
  BY <1>7, <1>8, <1>9
<1>11. Tables(q) = u
  BY <1>2, <1>4, <1>7 DEF Tables
<1>12. DbOk(q, c, r, L)
  BY <1>6, <1>7, <1>8, <1>10 DEF DbOk, Numbered
<1>13. d.committed <= q.committed
  BY <1>2, <1>7
<1> QED
  BY <1>3, <1>6, <1>11, <1>12, <1>13

\* StoreBlock, the handling of a block as a whole (receive_deltas and the commit).
LEMMA BlockStep ==
    ASSUME NEW c \in Seq(Changes), NEW n \in 1 .. Len(c), Len(c) <= MaxBlock,
           NEW r \in Nat, lib \in 0 .. Len(c),
           NEW d, NEW cache, BeforeBlock(d, cache, c, n, r, lib), StoreBlock(n, c[n], d, cache)
    PROVE  /\ lib' \in lib .. Len(c) /\ AfterBlock(db', loaded', c, n, r, lib')
           /\ d.committed <= db'.committed
<1> DEFINE rows == c[n]
           t == Tables(d)
           s0 == [abi |-> t.abi, history |-> t.history, loaded |-> cache]
           s == AccountRows(rows, n, s0)
<1>1. /\ n \in Nat /\ n >= 1 /\ n \in 1 .. MaxBlock /\ rows \in Changes
      /\ lib \in Nat /\ Len(c) \in Nat /\ MaxBlock \in Nat
  BY AbiFacts
<1>2. /\ DbOk(d, c, r, lib) /\ Numbered(d) /\ d.revision = n - 1
      /\ cache \in CacheType /\ LoadedOk(cache, t.abi)
  BY DEF BeforeBlock
<1>3. /\ IsDatabase(d, AbiTables) /\ d.committed \in Nat /\ d.revision \in Nat
      /\ d.committed <= d.revision /\ d.revision \in d.committed .. d.revision
  BY <1>2 DEF DbOk, IsDatabase
<1>4. t = d.at[d.revision] /\ t \in AbiTables /\ t.head = n - 1 /\ TablesOk(t, c, r)
  BY <1>2, <1>3 DEF Tables, DbOk, Numbered, IsDatabase
<1>5. /\ t.abi \in [Accounts -> Abis \cup {NoAbi}] /\ t.history \in SUBSET HistoryRows
      /\ \A h \in t.history : h.block \in Nat
  <2>1. \A h \in HistoryRows : h.block \in Nat
    BY AbiFacts DEF HistoryRows
  <2> QED
    BY <1>4, <2>1 DEF AbiTables
<1>6. \A h \in t.history : h.block < n
  <2>1. \A h \in t.history : h.block <= t.head
    BY <1>4 DEF TablesOk, Current
  <2> QED
    BY <1>1, <1>4, <1>5, <2>1
<1>7. s0 \in RowStates /\ s0.history = t.history /\ s0.abi = t.abi /\ s0.loaded = cache
  BY <1>2, <1>5 DEF RowStates, CacheType
<1>8. Handled(s, Len(rows), rows, n, s0)
  <2>1. PICK z \in RowStates : z = s0
    BY <1>7
  <2>2. (\A h \in z.history : h.block < n) /\ LoadedOk(z.loaded, z.abi)
    BY <1>2, <1>6, <1>7, <2>1
  <2>3. PICK x \in Changes : x = rows
    BY <1>1
  <2> HIDE DEF s0, rows
  <2>4. Handled(AccountRows(x, n, z), Len(x), x, n, z)
    BY <1>1, <2>2, RowsHandled
  <2> QED
    BY <2>1, <2>3, <2>4
<1>9. s \in RowStates /\ LoadedOk(s.loaded, s.abi)
  BY <1>8 DEF Handled
<1>10. PICK decoded, L, upto :
          /\ decoded \in SUBSET Accounts
          /\ L = lib' /\ L \in lib .. (IF n > lib THEN n ELSE lib)
          /\ upto \in d.committed .. L
          /\ db' = Commit(PushRevision(d, [head |-> n, irreversible |-> L,
                                           abi |-> s.abi, history |-> s.history]), upto)
          /\ loaded' = Ready(s, decoded)
  <2> HIDE DEF s
  <2> QED
    BY DEF StoreBlock, s
<1>11. L \in Nat /\ L \in lib .. Len(c) /\ L \in 0 .. MaxBlock /\ lib <= L
  BY <1>1, <1>10
<1>12. PICK u : u = [head |-> n, irreversible |-> L, abi |-> s.abi, history |-> s.history]
  OBVIOUS
<1>13. u \in AbiTables /\ TablesOk(u, c, r)
  <2>1. PICK z \in AbiTables : z = t
    BY <1>4
  <2>2. z.head = n - 1 /\ TablesOk(z, c, r)
    BY <1>4, <2>1
  <2>3. PICK x : x = s
    OBVIOUS
  <2>4. Handled(x, Len(c[n]), c[n], n, [abi |-> z.abi, history |-> z.history, loaded |-> cache])
    BY <1>8, <2>1, <2>3
  <2>5. u = [head |-> n, irreversible |-> L, abi |-> x.abi, history |-> x.history]
    BY <1>12, <2>3
  <2> HIDE DEF s, t, rows, s0
  <2> QED
    BY <1>1, <1>11, <2>2, <2>4, <2>5, BlockTables
<1>14. u.head = n /\ u.abi = s.abi
  BY <1>12
<1>15. DbOk(db', c, r, L) /\ Tables(db') = u /\ d.committed <= db'.committed
  <2>1. PICK q : q = Commit(PushRevision(d, u), upto)
    OBVIOUS
  <2> HIDE DEF s, t, rows, s0
  <2>2. DbOk(q, c, r, L) /\ Tables(q) = u /\ d.committed <= q.committed
    <3>1. Pushing(c, n, r, lib, d, u, L, upto, q)
      BY <1>1, <1>2, <1>10, <1>11, <1>13, <1>14, <2>1 DEF Pushing
    <3>2. Pushed(c, r, d, u, L, q)
      BY <3>1, PushedAndCommitted
    <3> QED
      BY <3>2 DEF Pushed
  <2> QED
    BY <1>10, <1>12, <2>1, <2>2
<1>16. loaded' \in CacheType /\ LoadedOk(loaded', u.abi)
  <2> HIDE DEF s
  <2>1. Ready(s, decoded) \in CacheType /\ LoadedOk(Ready(s, decoded), s.abi)
    BY <1>9 DEF Ready, CacheType, LoadedOk, RowStates
  <2> QED
    BY <1>10, <1>14, <2>1
<1> QED
  BY <1>10, <1>11, <1>14, <1>15, <1>16 DEF AfterBlock

-------------------------------------------------------------------------------
(* The scanner's steps.                                                      *)

\* The head of a database is a block of the chain.
LEMMA HeadFacts ==
    ASSUME NEW d, NEW c \in Seq(Changes), NEW r, NEW final, DbOk(d, c, r, final)
    PROVE  /\ d.committed \in Nat /\ d.revision \in Nat /\ d.committed <= d.revision
           /\ \A k \in d.committed .. d.revision :
                 d.at[k] \in AbiTables /\ Current(d.at[k], c) /\ d.at[k].head \in 0 .. Len(c)
           /\ Tables(d) \in AbiTables /\ Tables(d).head \in 0 .. Len(c)
<1>1. /\ d.committed \in Nat /\ d.revision \in Nat /\ d.committed <= d.revision
      /\ d.revision \in d.committed .. d.revision
      /\ \A k \in d.committed .. d.revision : d.at[k] \in AbiTables
  BY DEF DbOk, IsDatabase
<1>2. \A k \in d.committed .. d.revision : Current(d.at[k], c) /\ d.at[k].head \in 0 .. Len(c)
  BY DEF DbOk, TablesOk, Current
<1> QED
  BY <1>1, <1>2 DEF Tables

\* A database agrees with every chain that begins like the one it agrees with.
LEMMA DbPrefix ==
    ASSUME NEW c, NEW c2, NEW h \in Nat, Len(c2) \in Nat, h <= Len(c2), SameUpTo(c, c2, h),
           NEW d, NEW r, NEW final, DbOk(d, c, r, final),
           \A k \in d.committed .. d.revision : d.at[k].head \in 0 .. h
    PROVE  DbOk(d, c2, r, final)
<1>1. ASSUME NEW k \in d.committed .. d.revision PROVE TablesOk(d.at[k], c2, r)
  <2>1. PICK t : t = d.at[k]
    OBVIOUS
  <2>2. /\ Current(t, c) /\ HistoryAgrees(t, c, r) /\ t.head \in 0 .. h
        /\ r = 0 => Exact(t, c)
    BY <2>1 DEF DbOk, TablesOk
  <2>3. Current(t, c2) /\ HistoryAgrees(t, c2, r) /\ (r = 0 => Exact(t, c2))
    BY <2>2, PrefixKeeps
  <2> QED
    BY <2>1, <2>3 DEF TablesOk
<1> QED
  BY <1>1 DEF DbOk

\* set_revision on a new database (load_state, receive_block).
LEMMA AlignedDatabase ==
    ASSUME NEW d, d = db, NEW c \in Seq(Changes), NEW r, NEW final, DbOk(d, c, r, final),
           NEW n, n = Tables(d).head + 1, NEW e, e = Aligned(n)
    PROVE  /\ DbOk(e, c, r, final) /\ Numbered(e) /\ e.revision = n - 1
           /\ Tables(e) = Tables(d) /\ d.committed <= e.committed
<1>1. /\ IsDatabase(d, AbiTables) /\ d.committed \in Nat /\ d.revision \in Nat
      /\ d.committed <= d.revision /\ d.revision \in d.committed .. d.revision
      /\ Tables(d) = d.at[d.revision] /\ Tables(d).head \in Nat
      /\ n \in Nat /\ n - 1 = Tables(d).head
  <2>1. Len(c) \in Nat
    OBVIOUS
  <2>2. /\ d.committed \in Nat /\ d.revision \in Nat /\ d.committed <= d.revision
        /\ Tables(d).head \in 0 .. Len(c)
    BY HeadFacts
  <2>3. d.revision \in d.committed .. d.revision /\ Tables(d) = d.at[d.revision]
    BY <2>2 DEF Tables
  <2>4. Tables(d).head \in Nat /\ n \in Nat /\ n - 1 = Tables(d).head
    BY <2>1, <2>2
  <2> QED
    BY <2>2, <2>3, <2>4 DEF DbOk
<1>2. CASE d.revision < n - 1
  <2>1. ~Numbered(d)
    BY <1>1, <1>2 DEF Numbered
  <2>2. d.committed = d.revision
    BY <2>1 DEF DbOk, NewOne
  <2>3. PICK m \in Nat : m = n - 1
    BY <1>1
  <2>4. e = SetRevision(d, m)
    BY <1>2, <2>3 DEF Aligned
  <2>5. /\ IsDatabase(e, AbiTables) /\ e.committed = m /\ e.revision = m
        /\ e.at[m] = Tables(d)
    <3>1. IsDatabase(d, AbiTables)
      BY <1>1
    <3>2. /\ IsDatabase(SetRevision(d, m), AbiTables)
          /\ SetRevision(d, m).committed = m /\ SetRevision(d, m).revision = m
          /\ SetRevision(d, m).at[m] = Tables(d)
      BY <3>1, SetRevisionDatabase
    <3> QED
      BY <2>4, <3>2
  <2>6. \A k \in e.committed .. e.revision : e.at[k] = d.at[d.revision] /\ k = m
    BY <1>1, <2>5
  <2>7. TablesOk(d.at[d.revision], c, r) /\ d.at[d.revision].head <= final
    BY <1>1, <2>2 DEF DbOk
  <2>8. Numbered(e)
    BY <1>1, <2>3, <2>6 DEF Numbered
  <2>9. DbOk(e, c, r, final)
    BY <1>1, <2>5, <2>6, <2>7, <2>8 DEF DbOk
  <2>10. d.committed <= e.committed
    BY <1>1, <1>2, <2>3, <2>5
  <2> QED
    BY <2>3, <2>5, <2>8, <2>9, <2>10 DEF Tables
<1>3. CASE ~(d.revision < n - 1)
  <2>1. e = d
    BY <1>3 DEF Aligned
  <2>2. d.revision = n - 1 /\ Numbered(d)
    <3>1. CASE Numbered(d)
      BY <1>1, <3>1 DEF Numbered
    <3>2. CASE NewOne(d)
      BY <1>1, <1>3, <3>2 DEF NewOne, Numbered
    <3> QED
      BY <3>1, <3>2 DEF DbOk
  <2>3. d.committed <= d.committed
    BY <1>1
  <2> QED
    BY <2>1, <2>2, <2>3
<1> QED
  BY <1>1, <1>2, <1>3

\* AfterBlock(...) makes a store again.
LEMMA AfterStore ==
    ASSUME NEW c \in Seq(Changes), Len(c) <= MaxBlock, NEW n \in 1 .. Len(c),
           NEW r, NEW L \in 0 .. Len(c), NEW d, NEW cache, AfterBlock(d, cache, c, n, r, L)
    PROVE  Store(c, L, d, cache, r) /\ Tables(d).head = n
BY DEF AfterBlock, Store

\* receive_block with the next block of the chain.
LEMMA ReceiveBlockStep ==
    ASSUME NEW r \in Nat, Store(chain, lib, db, loaded, r), ReceiveBlock
    PROVE  /\ Store(chain', lib', db', loaded', r)
           /\ head' \in 1 .. MaxBlock
           /\ lib <= lib' /\ lib <= Len(chain') /\ SameUpTo(chain, chain', lib)
           /\ db.committed <= db'.committed
<1>0. PICK c \in Seq(Changes) : c = chain
  BY DEF Store
<1>1. PICK d, cache, final, n :
         /\ c = chain /\ d = db /\ cache = loaded /\ final = lib /\ n = head + 1
         /\ Len(c) \in Nat /\ Len(c) <= MaxBlock /\ final \in 0 .. Len(c) /\ final \in Nat
         /\ DbOk(d, c, r, final) /\ cache \in CacheType /\ LoadedOk(cache, Tables(d).abi)
         /\ n = Tables(d).head + 1
  BY <1>0 DEF Store, head
<1>2. Tables(d).head \in 0 .. Len(c) /\ n \in Nat /\ n >= 1 /\ n <= Len(c) + 1
  <2>1. Tables(d).head \in 0 .. Len(c)
    BY <1>1, HeadFacts
  <2> QED
    BY <1>1, <2>1
<1>3. PICK rows \in Changes :
         /\ n <= MaxBlock
         /\ n <= Len(c) => rows = c[n]
         /\ chain' = IF n <= Len(c) THEN c ELSE Append(c, rows)
         /\ StoreBlock(n, rows, Aligned(n), cache)
  <2>1. n <= Len(c) => c[n] \in Changes
    BY <1>1, <1>2
  <2> QED
    BY <1>1, <2>1 DEF ReceiveBlock
<1>4. PICK c2 : /\ c2 = chain' /\ c2 \in Seq(Changes)
                /\ Len(c2) \in Nat /\ Len(c2) <= MaxBlock /\ Len(c) <= Len(c2)
                /\ n \in 1 .. Len(c2) /\ c2[n] = rows
                /\ \A m \in 1 .. Len(c) : c2[m] = c[m]
  <2>1. CASE n <= Len(c)
    BY <1>1, <1>2, <1>3, <2>1
  <2>2. CASE ~(n <= Len(c))
    <3>1. n = Len(c) + 1 /\ chain' = Append(c, rows)
      BY <1>1, <1>2, <1>3, <2>2
    <3>2. /\ Append(c, rows) \in Seq(Changes) /\ Len(Append(c, rows)) = Len(c) + 1
          /\ \A i \in 1 .. Len(c) : Append(c, rows)[i] = c[i]
          /\ Append(c, rows)[Len(c) + 1] = rows
      BY AppendProperties
    <3>3. PICK c2 : c2 = Append(c, rows)
      OBVIOUS
    <3>4. Len(c2) = n /\ n <= MaxBlock /\ n \in 1 .. Len(c2) /\ Len(c) <= n
      BY <1>1, <1>2, <1>3, <3>1, <3>2, <3>3
    <3> QED
      BY <1>2, <3>1, <3>2, <3>3, <3>4
  <2> QED
    BY <2>1, <2>2
<1>5. PICK e : e = Aligned(n)
  OBVIOUS
<1>6. /\ DbOk(e, c, r, final) /\ Numbered(e) /\ e.revision = n - 1 /\ Tables(e) = Tables(d)
      /\ d.committed <= e.committed
  BY <1>1, <1>5, AlignedDatabase
<1>7. SameUpTo(c, c2, Len(c)) /\ SameUpTo(c, c2, final)
  BY <1>1, <1>4 DEF SameUpTo
<1>8. DbOk(e, c2, r, final)
  <2>1. \A k \in e.committed .. e.revision : e.at[k].head \in 0 .. Len(c)
    BY <1>6, HeadFacts
  <2> QED
    BY <1>1, <1>4, <1>6, <1>7, <2>1, DbPrefix
<1>9. BeforeBlock(e, cache, c2, n, r, lib)
  BY <1>1, <1>6, <1>8 DEF BeforeBlock
<1>10. StoreBlock(n, c2[n], e, cache)
  BY <1>3, <1>4, <1>5
<1>11. lib \in 0 .. Len(c2)
  BY <1>1, <1>4
<1>12. /\ lib' \in lib .. Len(c2) /\ AfterBlock(db', loaded', c2, n, r, lib')
       /\ e.committed <= db'.committed
  BY <1>4, <1>9, <1>10, <1>11, BlockStep
<1>13. PICK L, d2, cache2 : L = lib' /\ d2 = db' /\ cache2 = loaded'
  OBVIOUS
<1>14. L \in 0 .. Len(c2) /\ L \in Nat /\ final <= L /\ AfterBlock(d2, cache2, c2, n, r, L)
  BY <1>1, <1>4, <1>12, <1>13
<1>15. Store(c2, L, d2, cache2, r) /\ Tables(d2).head = n
  BY <1>4, <1>14, AfterStore
<1>16. head' = n
  BY <1>13, <1>15 DEF head, Tables
<1>17. d.committed <= d2.committed
  <2>1. d.committed \in Nat /\ e.committed \in Nat
    BY <1>1, <1>6 DEF DbOk, IsDatabase
  <2>2. d2.committed \in Nat
    BY <1>15 DEF Store, DbOk, IsDatabase
  <2> QED
    BY <1>6, <1>12, <1>13, <2>1, <2>2
<1> QED
  BY <1>1, <1>2, <1>3, <1>4, <1>7, <1>13, <1>14, <1>15, <1>16, <1>17

UndoneAt(c, r, final, d, n, e) ==
    /\ c \in Seq(Changes) /\ final \in Nat /\ n \in Nat /\ DbOk(d, c, r, final)
    /\ final < n /\ n <= Tables(d).head /\ e = UndoFrom(d, n)

Undone(c, r, final, d, n, e) ==
    /\ d.revision >= n /\ DbOk(e, c, r, final)
    /\ Numbered(e) /\ e.revision = n - 1 /\ e.committed = d.committed

\* Undoing a numbered database from block n, above the final ones, on.
LEMMA UndoneDatabase ==
    ASSUME NEW c, NEW r, NEW final, NEW d, NEW n, NEW e, UndoneAt(c, r, final, d, n, e)
    PROVE  Undone(c, r, final, d, n, e)
<1>0. /\ c \in Seq(Changes) /\ final \in Nat /\ n \in Nat /\ DbOk(d, c, r, final)
      /\ final < n /\ n <= Tables(d).head /\ e = UndoFrom(d, n)
  BY DEF UndoneAt
<1>1. /\ d.committed \in Nat /\ d.revision \in Nat /\ d.committed <= d.revision
      /\ Tables(d).head \in 0 .. Len(c) /\ Len(c) \in Nat
  BY <1>0, HeadFacts
<1>2. /\ Tables(d) = d.at[d.revision] /\ d.revision \in d.committed .. d.revision
      /\ d.committed \in d.committed .. d.revision
  BY <1>1 DEF Tables
<1>3. Numbered(d)
  <2>1. ASSUME NewOne(d) PROVE FALSE
    <3>1. d.at[d.committed].head = Tables(d).head /\ d.at[d.committed].head <= final
      BY <1>0, <1>2, <2>1 DEF NewOne, DbOk
    <3> QED
      BY <1>0, <1>1, <3>1
  <2> QED
    BY <1>0, <2>1 DEF DbOk
<1>4. d.revision = Tables(d).head /\ d.committed <= final
  BY <1>0, <1>2, <1>3 DEF Numbered, DbOk
<1>5. n <= d.revision /\ d.committed < n /\ IsDatabase(d, AbiTables)
  BY <1>0, <1>1, <1>4 DEF DbOk
<1>6. /\ IsDatabase(e, AbiTables) /\ e.committed = d.committed /\ e.revision = n - 1
      /\ \A k \in d.committed .. n - 1 : e.at[k] = d.at[k]
  <2>1. /\ IsDatabase(UndoFrom(d, n), AbiTables)
        /\ UndoFrom(d, n).committed = d.committed /\ UndoFrom(d, n).revision = n - 1
        /\ \A k \in d.committed .. n - 1 : UndoFrom(d, n).at[k] = d.at[k]
    BY <1>0, <1>5, UndoFromDatabase
  <2> QED
    BY <1>0, <2>1
<1>7. \A k \in d.committed .. n - 1 : k \in d.committed .. d.revision
  BY <1>0, <1>1, <1>5
<1>8. Numbered(e) /\ \A k \in e.committed .. e.revision : TablesOk(e.at[k], c, r)
  BY <1>0, <1>3, <1>6, <1>7 DEF Numbered, DbOk
<1>9. e.at[e.committed].head <= final
  <2>1. e.committed \in d.committed .. n - 1
    BY <1>0, <1>1, <1>5, <1>6
  <2> QED
    BY <1>0, <1>6, <2>1 DEF DbOk
<1>10. DbOk(e, c, r, final)
  BY <1>0, <1>6, <1>8, <1>9 DEF DbOk
<1> QED
  BY <1>1, <1>5, <1>6, <1>8, <1>10 DEF Undone

\* The chain with another block n.
LEMMA ForkedChain ==
    ASSUME NEW S, NEW c \in Seq(S), NEW n \in 1 .. Len(c), NEW x \in S,
           NEW c2, c2 = Append(SubSeq(c, 1, n - 1), x)
    PROVE  /\ c2 \in Seq(S) /\ Len(c2) = n /\ c2[n] = x
           /\ \A m \in 1 .. n - 1 : c2[m] = c[m]
<1>1. PICK k \in Int, one \in Int : k = n - 1 /\ one = 1 /\ k >= 0 /\ k + 1 = n
  OBVIOUS
<1>2. \A i \in one .. k : c[i] \in S
  <2>1. \A i \in one .. k : i \in 1 .. Len(c)
    BY <1>1
  <2> QED
    BY <2>1
<1>3. /\ SubSeq(c, one, k) \in Seq(S)
      /\ Len(SubSeq(c, one, k)) = IF one <= k THEN k - one + 1 ELSE 0
      /\ \A i \in 1 .. k - one + 1 : SubSeq(c, one, k)[i] = c[one + i - 1]
  BY <1>2, SubSeqProperties
<1>4. PICK s \in Seq(S) : s = SubSeq(c, one, k)
  BY <1>3
<1>5. Len(s) = k /\ \A i \in 1 .. k : s[i] = c[i]
  <2>1. Len(s) = k
    BY <1>1, <1>3, <1>4
  <2>2. ASSUME NEW i \in 1 .. k PROVE s[i] = c[i]
    <3>1. i \in 1 .. k - one + 1 /\ one + i - 1 = i
      BY <1>1
    <3> QED
      BY <1>3, <1>4, <3>1
  <2> QED
    BY <2>1, <2>2
<1>6. /\ Append(s, x) \in Seq(S) /\ Len(Append(s, x)) = Len(s) + 1
      /\ \A i \in 1 .. Len(s) : Append(s, x)[i] = s[i]
      /\ Append(s, x)[Len(s) + 1] = x
  BY AppendProperties
<1>7. c2 = Append(s, x)
  BY <1>1, <1>4
<1> QED
  BY <1>1, <1>5, <1>6, <1>7

\* receive_block with a block that replaces others.
LEMMA ReceiveForkStep ==
    ASSUME NEW r \in Nat, Store(chain, lib, db, loaded, r),
           NEW n \in 1 .. MaxBlock, ReceiveFork(n)
    PROVE  /\ Store(chain', lib', db', loaded', r)
           /\ head' \in 1 .. MaxBlock
           /\ lib <= lib' /\ lib <= Len(chain') /\ SameUpTo(chain, chain', lib)
           /\ db.committed <= db'.committed
<1>0. PICK c \in Seq(Changes) : c = chain
  BY DEF Store
<1>1. PICK d, final :
         /\ c = chain /\ d = db /\ final = lib
         /\ Len(c) \in Nat /\ Len(c) <= MaxBlock /\ final \in 0 .. Len(c) /\ final \in Nat
         /\ DbOk(d, c, r, final)
  BY <1>0 DEF Store
<1>2. /\ n > final /\ n <= Tables(d).head
      /\ \E rows \in Changes : /\ chain' = Append(SubSeq(c, 1, n - 1), rows)
                               /\ StoreBlock(n, rows, UndoFrom(Aligned(n), n), NothingLoaded)
  BY <1>1 DEF ReceiveFork, head
<1>3. PICK rows \in Changes :
         /\ chain' = Append(SubSeq(c, 1, n - 1), rows)
         /\ StoreBlock(n, rows, UndoFrom(Aligned(n), n), NothingLoaded)
  BY <1>2
<1>4. Tables(d).head \in 0 .. Len(c) /\ n \in Nat /\ n >= 1 /\ n <= Len(c) /\ n <= MaxBlock
      /\ MaxBlock \in Nat
  <2>1. Tables(d).head \in 0 .. Len(c)
    BY <1>1, HeadFacts
  <2> QED
    BY <1>1, <1>2, <2>1, AbiFacts
<1>5. PICK c2 : /\ c2 = chain' /\ c2 \in Seq(Changes) /\ Len(c2) = n /\ c2[n] = rows
                /\ \A m \in 1 .. n - 1 : c2[m] = c[m]
  <2>1. PICK c2 : c2 = chain'
    OBVIOUS
  <2>2. n \in 1 .. Len(c) /\ c2 = Append(SubSeq(c, 1, n - 1), rows)
    BY <1>1, <1>3, <1>4, <2>1
  <2>3. /\ c2 \in Seq(Changes) /\ Len(c2) = n /\ c2[n] = rows
        /\ \A m \in 1 .. n - 1 : c2[m] = c[m]
    BY <2>2, ForkedChain
  <2> QED
    BY <2>1, <2>3
<1>6. PICK e : e = UndoFrom(d, n)
  OBVIOUS
<1>7. /\ d.revision >= n /\ DbOk(e, c, r, final)
      /\ Numbered(e) /\ e.revision = n - 1 /\ e.committed = d.committed
  <2>1. UndoneAt(c, r, final, d, n, e)
    BY <1>1, <1>2, <1>4, <1>6 DEF UndoneAt
  <2>2. Undone(c, r, final, d, n, e)
    BY <2>1, UndoneDatabase
  <2> QED
    BY <2>2 DEF Undone
<1>8. Aligned(n) = d
  <2>1. d.revision \in Nat
    BY <1>1, HeadFacts
  <2> QED
    BY <1>1, <1>4, <1>7, <2>1 DEF Aligned
<1>9. SameUpTo(c, c2, n - 1) /\ SameUpTo(c, c2, final) /\ final <= n - 1 /\ n - 1 \in Nat
  BY <1>1, <1>2, <1>4, <1>5 DEF SameUpTo
<1>10. DbOk(e, c2, r, final)
  <2>1. \A k \in e.committed .. e.revision : e.at[k].head = k
    BY <1>7 DEF Numbered
  <2>2. e.committed \in Nat
    BY <1>7 DEF DbOk, IsDatabase
  <2>3. \A k \in e.committed .. e.revision : e.at[k].head \in 0 .. n - 1
    BY <1>4, <1>7, <2>1, <2>2
  <2>4. PICK h \in Nat : h = n - 1
    BY <1>9
  <2>5. Len(c2) \in Nat /\ h <= Len(c2) /\ SameUpTo(c, c2, h)
    BY <1>4, <1>5, <1>9, <2>4
  <2>6. \A k \in e.committed .. e.revision : e.at[k].head \in 0 .. h
    BY <2>3, <2>4
  <2> QED
    BY <1>7, <2>5, <2>6, DbPrefix
<1>11. NothingLoaded \in CacheType /\ LoadedOk(NothingLoaded, Tables(e).abi)
  BY DEF NothingLoaded, CacheType, LoadedOk
<1>12. PICK cache : cache = NothingLoaded
  OBVIOUS
<1>13. BeforeBlock(e, cache, c2, n, r, lib)
  BY <1>1, <1>7, <1>10, <1>11, <1>12 DEF BeforeBlock
<1>14. StoreBlock(n, c2[n], e, cache)
  BY <1>3, <1>5, <1>6, <1>8, <1>12
<1>15. lib \in 0 .. Len(c2) /\ n \in 1 .. Len(c2) /\ Len(c2) <= MaxBlock
  BY <1>1, <1>4, <1>5, <1>9
<1>16. /\ lib' \in lib .. Len(c2) /\ AfterBlock(db', loaded', c2, n, r, lib')
       /\ e.committed <= db'.committed
  BY <1>5, <1>13, <1>14, <1>15, BlockStep
<1>17. PICK L, d2, cache2 : L = lib' /\ d2 = db' /\ cache2 = loaded'
  OBVIOUS
<1>18. L \in 0 .. Len(c2) /\ L \in Nat /\ final <= L /\ AfterBlock(d2, cache2, c2, n, r, L)
  BY <1>1, <1>4, <1>5, <1>16, <1>17
<1>19. Store(c2, L, d2, cache2, r) /\ Tables(d2).head = n
  BY <1>5, <1>15, <1>18, AfterStore
<1>20. head' = n
  BY <1>17, <1>19 DEF head, Tables
<1> QED
  BY <1>1, <1>4, <1>5, <1>7, <1>9, <1>16, <1>17, <1>18, <1>19, <1>20

-------------------------------------------------------------------------------
(* Restarts and the first start.                                             *)

\* Reverting what can be undone (load_state, write_snapshot).
LEMMA UndoneStore ==
    ASSUME NEW c, NEW final, NEW d, NEW cache, NEW r, Store(c, final, d, cache, r)
    PROVE  /\ Store(c, final, UndoAll(d), NothingLoaded, r)
           /\ Tables(UndoAll(d)) = d.at[d.committed]
           /\ Tables(UndoAll(d)).head <= final
           /\ UndoAll(d).committed = d.committed
<1>1. /\ c \in Seq(Changes) /\ DbOk(d, c, r, final) /\ IsDatabase(d, AbiTables)
      /\ d.committed \in Nat /\ d.revision \in Nat /\ d.committed <= d.revision
  BY DEF Store, DbOk, IsDatabase
<1>2. PICK e : /\ e = UndoAll(d)
               /\ IsDatabase(e, AbiTables)
               /\ e.committed = d.committed /\ e.revision = d.committed
               /\ e.at[d.committed] = d.at[d.committed]
               /\ Tables(e) = d.at[d.committed]
  BY <1>1, UndoAllDatabase
<1>3. /\ d.committed \in d.committed .. d.revision
      /\ \A k \in e.committed .. e.revision : k = d.committed
  BY <1>1, <1>2
<1>4. Numbered(e) \/ NewOne(e)
  BY <1>1, <1>2, <1>3 DEF DbOk, Numbered, NewOne
<1>5. d.at[d.committed].head <= final /\ TablesOk(d.at[d.committed], c, r)
  BY <1>1, <1>3 DEF DbOk
<1>6. DbOk(e, c, r, final)
  BY <1>2, <1>3, <1>4, <1>5 DEF DbOk
<1>7. NothingLoaded \in CacheType /\ LoadedOk(NothingLoaded, Tables(e).abi)
  BY DEF NothingLoaded, CacheType, LoadedOk
<1> QED
  BY <1>2, <1>5, <1>6, <1>7 DEF Store

\* A new database agrees with the empty chain.
LEMMA StoreStarts == StoreInit => Store(chain, lib, db, loaded, 0)
<1> SUFFICES ASSUME StoreInit PROVE Store(chain, lib, db, loaded, 0)
  OBVIOUS
<1> DEFINE t == [head |-> 0, irreversible |-> 0, abi |-> NothingLoaded, history |-> {}]
<1>1. /\ chain = <<>> /\ lib = 0 /\ forks = 0 /\ stops = 0
      /\ db = NewDatabase(t) /\ loaded = NothingLoaded
  BY DEF StoreInit
<1>2. <<>> \in Seq(Changes) /\ Len(<<>>) = 0
  OBVIOUS
<1>3. NothingLoaded \in CacheType /\ \A a \in Accounts : NothingLoaded[a] = NoAbi
  BY DEF NothingLoaded, CacheType
<1>4. t \in AbiTables /\ t.head = 0 /\ t.history = {} /\ t.abi = NothingLoaded
  BY <1>3, AbiFacts DEF AbiTables, CacheType
<1>5. \A a : ChainChanges(<<>>, a, 0) = {} /\ HistoryChanges({}, a, 0) = {}
  <2>1. \A x \in (1 .. 0) \X Values : FALSE
    OBVIOUS
  <2> QED
    BY <2>1 DEF ChainChanges, HistoryChanges
<1>6. Good({}) = {} /\ Kept({}) = {} /\ Usable(NoAbi) = NoAbi
  BY DEF Good, Kept, Usable
<1> HIDE DEF t
<1>7. TablesOk(t, <<>>, 0)
  <2>1. \A a \in Accounts : t.abi[a] = NoAbi /\ Usable(Latest({})) = NoAbi
    BY <1>3, <1>4, <1>6, LatestNone
  <2>2. UsesLatest(t, <<>>) /\ NothingToRemove(t, <<>>)
    BY <1>4, <1>5, <1>6, <2>1, LatestNone DEF UsesLatest, NothingToRemove
  <2>3. KeepsChanges(t, <<>>)
    BY <1>4, <1>5 DEF KeepsChanges
  <2>4. HistoryAgrees(t, <<>>, 0)
    BY <1>4 DEF HistoryAgrees
  <2>5. Current(t, <<>>)
    BY <1>2, <1>4, <2>2, <2>3 DEF Current
  <2>6. Exact(t, <<>>)
    <3>1. \A h \in HistoryRows : ~(h.block <= 0)
      BY AbiFacts DEF HistoryRows
    <3> QED
      BY <1>4, <3>1 DEF Exact
  <2> QED
    BY <2>4, <2>5, <2>6 DEF TablesOk
<1>8. PICK d : /\ d = NewDatabase(t) /\ IsDatabase(d, AbiTables)
               /\ d.committed = 0 /\ d.revision = 0 /\ d.at[0] = t
               /\ \A k \in d.committed .. d.revision : k = 0
  <2>1. PICK u \in AbiTables : u = t
    BY <1>4
  <2>2. PICK d : d = NewDatabase(u)
    OBVIOUS
  <2>3. /\ IsDatabase(d, AbiTables)
        /\ d.committed = 0 /\ d.revision = 0 /\ d.at[0] = u
        /\ \A k \in d.committed .. d.revision : k = 0
    BY <2>2 DEF NewDatabase, IsDatabase
  <2> QED
    BY <2>1, <2>2, <2>3
<1>9. DbOk(d, <<>>, 0, 0)
  BY <1>4, <1>7, <1>8 DEF DbOk, NewOne
<1>10. LoadedOk(NothingLoaded, Tables(d).abi)
  BY <1>3 DEF LoadedOk
<1>11. Store(<<>>, 0, d, NothingLoaded, 0)
  BY <1>2, <1>3, <1>9, <1>10, AbiFacts DEF Store
<1> QED
  BY <1>1, <1>8, <1>11

\* What a store says of its head, in the words of the properties.
LEMMA StoreHead ==
    ASSUME NEW r, Store(chain, lib, db, loaded, r)
    PROVE  /\ ScanUsesLatest
           /\ \A a \in Accounts, n \in 1 .. head :
                 HistoryAbi(a, n) = Usable(Latest(ChangesOf(a, n))) \/ BareIn(chain, r, a, n)
<1>0. PICK c \in Seq(Changes) : c = chain
  BY DEF Store
<1>1. PICK d, t :
         /\ c = chain /\ d = db /\ t = Tables(d) /\ DbOk(d, c, r, lib)
         /\ LoadedOk(loaded, t.abi)
  BY <1>0 DEF Store
<1>2. TablesOk(t, c, r)
  <2>1. d.committed \in Nat /\ d.revision \in Nat /\ d.committed <= d.revision
    BY <1>1, HeadFacts
  <2>2. d.revision \in d.committed .. d.revision /\ t = d.at[d.revision]
    BY <1>1, <2>1 DEF Tables
  <2> QED
    BY <1>1, <2>2 DEF DbOk
<1>3. head = t.head /\ Tables(db) = t
  BY <1>1 DEF head, Tables
<1>4. ASSUME NEW a \in Accounts
      PROVE  /\ t.abi[a] = Latest({x \in ChangesOf(a, head) : x[2] # BadAbi})
             /\ loaded[a] \in {NoAbi, t.abi[a]}
  <2>1. ChangesOf(a, head) = ChainChanges(c, a, t.head)
    BY <1>1, <1>3 DEF ChangesOf, ChainChanges
  <2>2. t.abi[a] = Latest(Good(ChainChanges(c, a, t.head)))
    BY <1>2 DEF TablesOk, Current, UsesLatest
  <2> QED
    BY <1>1, <2>1, <2>2 DEF Good, LoadedOk
<1>5. ASSUME NEW a \in Accounts, NEW n \in 1 .. head
      PROVE  HistoryAbi(a, n) = Usable(Latest(ChangesOf(a, n))) \/ BareIn(chain, r, a, n)
  <2>1. \/ Usable(Latest(HistoryChanges(t.history, a, n))) = Usable(Latest(ChainChanges(c, a, n)))
        \/ BareIn(c, r, a, n)
    BY <1>2, <1>3 DEF TablesOk, HistoryAgrees
  <2>2. ChangesOf(a, n) = ChainChanges(c, a, n)
    BY <1>1 DEF ChangesOf, ChainChanges
  <2>3. HistoryAbi(a, n) = Usable(Latest(HistoryChanges(t.history, a, n)))
    BY <1>3 DEF HistoryAbi, HistoryChanges
  <2> QED
    BY <1>1, <2>1, <2>2, <2>3
<1> QED
  BY <1>3, <1>4, <1>5 DEF ScanUsesLatest

-------------------------------------------------------------------------------
(* Scanning without snapshots: the history is exact.                          *)

ScanInv == Store(chain, lib, db, loaded, 0)

\* The invariant of a scan at its start.
LEMMA ScanInitInv == StoreInit => ScanInv
BY StoreStarts DEF ScanInv

\* Every step of a scan keeps the invariant.
LEMMA ScanStepInv == ScanInv /\ [StoreNext]_storeVars => ScanInv'
<1> SUFFICES ASSUME ScanInv, [StoreNext]_storeVars PROVE ScanInv'
  OBVIOUS
<1>1. PICK r \in Nat : r = 0
  OBVIOUS
<1>2. Store(chain, lib, db, loaded, r)
  BY <1>1 DEF ScanInv
<1>3. CASE ReceiveBlock
  <2>1. Store(chain', lib', db', loaded', r)
    BY <1>2, <1>3, ReceiveBlockStep
  <2> QED
    BY <1>1, <2>1 DEF ScanInv
<1>4. ASSUME NEW n \in 1 .. MaxBlock, ReceiveFork(n) PROVE ScanInv'
  <2>1. Store(chain', lib', db', loaded', r)
    BY <1>2, <1>4, ReceiveForkStep
  <2> QED
    BY <1>1, <2>1 DEF ScanInv
<1>5. CASE Restart
  <2>1. Store(chain, lib, UndoAll(db), NothingLoaded, r)
    BY <1>2, UndoneStore
  <2> QED
    BY <1>1, <1>5, <2>1 DEF ScanInv, Restart, chainVars
<1>6. CASE UNCHANGED storeVars
  BY <1>6 DEF ScanInv, storeVars, chainVars
<1> QED
  BY <1>3, <1>4, <1>5, <1>6 DEF StoreNext

\* Without a restore the history agrees with the chain.
LEMMA ScanHistory == ScanInv => HistoryMatchesChain
<1> SUFFICES ASSUME ScanInv PROVE HistoryMatchesChain
  OBVIOUS
<1>1. PICK r : r = 0
  OBVIOUS
<1>2. \A a \in Accounts, n \in 1 .. head :
         HistoryAbi(a, n) = Usable(Latest(ChangesOf(a, n))) \/ BareIn(chain, r, a, n)
  BY <1>1, StoreHead DEF ScanInv
<1>3. \A a, n : ~BareIn(chain, r, a, n)
  BY <1>1 DEF BareIn
<1> QED
  BY <1>2, <1>3 DEF HistoryMatchesChain

\* For every block read and every account the history has the ABI the chain had
\* then, whatever forks and restarts came in between (save_contract_abi_history,
\* clear_contract_abi).
THEOREM HistoryIsExact == StoreSpec => []HistoryMatchesChain
BY ScanInitInv, ScanStepInv, ScanHistory, PTL DEF StoreSpec

-------------------------------------------------------------------------------
(* Snapshots: any number of them saved and restored between the scans.        *)

\* A snapshot has the tables of a final block.
FileOk(t, c, final) ==
    t # NoFile =>
       /\ t \in AbiTables /\ t.head > 0 /\ t.head <= final
       /\ Current(t, c)
       /\ \A h \in t.history : h.abi # NoAbi

\* The inductive invariant.
SnapshotInv ==
    /\ Store(chain, lib, db, loaded, restoredAt)
    /\ FileOk(file, chain, lib)
    /\ forks \in 0 .. MaxForks /\ stops \in 0 .. MaxStops
    /\ file \in AbiTables \cup {NoFile}
    /\ restoredAt \in 0 .. MaxBlock /\ exported \in 0 .. MaxBlock

-------------------------------------------------------------------------------
(* What is saved and what is restored.                                       *)

\* A snapshot of tables that agree with the chain (write_snapshot).
LEMMA RowsCurrent ==
    ASSUME NEW t \in AbiTables, NEW c, Current(t, c)
    PROVE  /\ Rows(t) \in AbiTables /\ Current(Rows(t), c)
           /\ Rows(t).head = t.head
           /\ \A h \in Rows(t).history : h.abi # NoAbi
<1> DEFINE u == Rows(t)
<1>1. /\ u.head = t.head /\ u.abi = t.abi /\ u.irreversible = t.irreversible
      /\ u.history = {h \in t.history : h.abi # NoAbi}
      /\ u \in AbiTables
  BY DEF Rows, AbiTables
<1> HIDE DEF u
<1>2. ASSUME NEW a \in Accounts
      PROVE  Kept(HistoryChanges(u.history, a, u.head)) = Kept(HistoryChanges(t.history, a, t.head))
  <2> DEFINE S == {g \in t.history : g.account = a /\ g.block <= t.head}
             U == {g \in u.history : g.account = a /\ g.block <= t.head}
  <2>1. U = {g \in S : g.abi # NoAbi}
    BY <1>1
  <2>2. {x \in {<<h.block, h.abi>> : h \in U} : x[2] # NoAbi}
        = {x \in {<<h.block, h.abi>> : h \in S} : x[2] # NoAbi}
    <3> HIDE DEF S, U
    <3>1. \A h \in S : <<h.block, h.abi>>[2] = h.abi
      OBVIOUS
    <3> QED
      BY <2>1, <3>1
  <2> QED
    BY <1>1, <2>2 DEF Kept, HistoryChanges
<1>3. Current(u, c)
  <2>1. UsesLatest(u, c) /\ NothingToRemove(u, c)
    BY <1>1 DEF Current, UsesLatest, NothingToRemove
  <2>2. KeepsChanges(u, c)
    BY <1>1, <1>2 DEF Current, KeepsChanges
  <2> QED
    BY <1>1, <2>1, <2>2 DEF Current
<1> QED
  BY <1>1, <1>3 DEF u

\* Restored from a snapshot, the history agrees with the chain but for contracts
\* without an ABI (read_snapshot).
LEMMA RestoredAgrees ==
    ASSUME NEW t \in AbiTables, NEW c \in Seq(Changes), Current(t, c),
           t.head > 0, t.head \in Nat,
           \A h \in t.history : h.abi # NoAbi
    PROVE  HistoryAgrees(t, c, t.head)
<1> SUFFICES ASSUME NEW a \in Accounts, NEW n \in 1 .. t.head,
                    ~BareIn(c, t.head, a, n)
             PROVE  Usable(Latest(HistoryChanges(t.history, a, n)))
                    = Usable(Latest(ChainChanges(c, a, n)))
  BY DEF HistoryAgrees
<1> DEFINE S == ChainChanges(c, a, n)
           U == HistoryChanges(t.history, a, n)
<1>1. n \in Nat /\ n \in 0 .. t.head /\ t.history \in SUBSET HistoryRows
  BY DEF AbiTables
<1>2. Latest(S) # NoAbi
  <2>1. ASSUME Latest(S) = NoAbi PROVE FALSE
    <3>1. \A m \in 1 .. n : m = n \/ m >= t.head => m = n
      OBVIOUS
    <3> QED
      BY <2>1, <3>1 DEF BareIn
  <2> QED
    BY <2>1
<1>3. /\ S \in SUBSET ((1 .. n) \X Values)
      /\ \A x \in S : x[1] \in Nat /\ x = <<x[1], x[2]>>
  BY DEF ChainChanges
<1>4. U = Kept(S)
  <2>1. Kept(HistoryChanges(t.history, a, t.head)) = Kept(ChainChanges(c, a, t.head))
    BY DEF Current, KeepsChanges
  <2>2. HistoryChanges(t.history, a, t.head) = Kept(HistoryChanges(t.history, a, t.head))
    BY DEF HistoryChanges, Kept
  <2>3. /\ S = UpTo(ChainChanges(c, a, t.head), n)
        /\ U = UpTo(HistoryChanges(t.history, a, t.head), n)
    <3>1. PICK H \in Nat, history \in SUBSET HistoryRows : H = t.head /\ history = t.history
      BY <1>1
    <3>2. n \in 0 .. H
      BY <1>1, <3>1
    <3>3. /\ ChainChanges(c, a, n) = UpTo(ChainChanges(c, a, H), n)
          /\ HistoryChanges(history, a, n) = UpTo(HistoryChanges(history, a, H), n)
      <4>1. ChainChanges(c, a, n) = UpTo(ChainChanges(c, a, H), n)
        BY <3>2, LowerChanges
      <4>2. HistoryChanges(history, a, n) = UpTo(HistoryChanges(history, a, H), n)
        BY <3>2, LowerHistory
      <4> QED
        BY <4>1, <4>2
    <3> QED
      BY <3>1, <3>3
  <2> HIDE DEF S, U
  <2> QED
    BY <2>1, <2>2, <2>3 DEF Kept, UpTo
<1>5. S # {}
  BY <1>2, LatestNone
<1> HIDE DEF S, U
<1>6. PICK x \in S : \A d \in S : d[1] <= x[1]
  BY <1>1, <1>3, <1>5, HighestChange
<1>7. PICK y : /\ y = CHOOSE z \in S : \A d \in S : d[1] <= z[1]
               /\ Latest(S) = y[2]
  BY <1>5 DEF Latest
<1>8. y \in S /\ \A d \in S : d[1] <= y[1]
  BY <1>6, <1>7
<1>9. y[2] # NoAbi /\ y \in U
  BY <1>2, <1>4, <1>7, <1>8 DEF Kept
<1>10. PICK z : /\ z = CHOOSE w \in U : \A d \in U : d[1] <= w[1]
                /\ Latest(U) = z[2]
  BY <1>9 DEF Latest
<1>11. \A d \in U : d \in S
  BY <1>4 DEF Kept
<1>12. z \in U /\ \A d \in U : d[1] <= z[1]
  BY <1>8, <1>9, <1>10, <1>11
<1>13. z \in S /\ z[1] = y[1]
  BY <1>3, <1>8, <1>9, <1>11, <1>12
<1>14. n \in 1 .. Len(c) /\ y[1] \in 1 .. n /\ y[1] \in 1 .. Len(c)
  BY <1>1, <1>3, <1>8 DEF Current
<1>15. z[2] = y[2]
  <2>1. PICK rows \in Changes : rows = c[y[1]]
    BY <1>14
  <2>2. /\ \E i \in DOMAIN rows : rows[i] = <<a, y[2]>>
        /\ \E i \in DOMAIN rows : rows[i] = <<a, z[2]>>
    BY <1>8, <1>13, <2>1 DEF S, ChainChanges
  <2>3. DOMAIN rows = 1 .. Len(rows)
    BY ChangesFacts
  <2>4. HasRow(rows, a, y[2]) /\ HasRow(rows, a, z[2])
    BY <2>2, <2>3 DEF HasRow
  <2> QED
    BY <2>4, RowCases
<1>16. Latest(U) = Latest(S)
  BY <1>7, <1>10, <1>15
<1> QED
  BY <1>16 DEF S, U

\* So does a snapshot, when its blocks stay.
LEMMA FilePrefix ==
    ASSUME NEW c, NEW c2, NEW final \in Nat, Len(c2) \in Nat, NEW final2 \in Nat,
           final <= Len(c2), final <= final2, SameUpTo(c, c2, final),
           NEW t, FileOk(t, c, final)
    PROVE  FileOk(t, c2, final2)
<1> SUFFICES ASSUME t # NoFile
             PROVE  /\ t \in AbiTables /\ t.head > 0 /\ t.head <= final2
                    /\ Current(t, c2)
                    /\ \A h \in t.history : h.abi # NoAbi
  BY DEF FileOk
<1>1. /\ t \in AbiTables /\ t.head > 0 /\ t.head <= final
      /\ Current(t, c)
      /\ \A h \in t.history : h.abi # NoAbi
  BY DEF FileOk
<1>2. t.head \in Nat
  BY <1>1, AbiFacts DEF AbiTables
<1>3. Current(t, c2)
  BY <1>1, <1>2, PrefixKeeps
<1> QED
  BY <1>1, <1>2, <1>3

-------------------------------------------------------------------------------
(* The steps.                                                                *)

\* A block with the snapshot beside it.
LEMMA ScanBlockStep ==
    ASSUME SnapshotInv, ScanBlock
    PROVE  SnapshotInv'
<1>1. /\ Store(chain, lib, db, loaded, restoredAt) /\ FileOk(file, chain, lib)
      /\ restoredAt \in Nat /\ lib \in Nat
  BY AbiFacts DEF SnapshotInv, Store
<1>2. ReceiveBlock /\ exported' = head' /\ UNCHANGED <<file, restoredAt, forks, stops>>
  BY DEF ScanBlock, ReceiveBlock
<1>3. PICK r \in Nat : r = restoredAt
  BY <1>1
<1>4. /\ Store(chain', lib', db', loaded', r)
      /\ head' \in 1 .. MaxBlock
      /\ lib <= lib' /\ lib <= Len(chain') /\ SameUpTo(chain, chain', lib)
  BY <1>1, <1>2, <1>3, ReceiveBlockStep
<1>5. FileOk(file, chain', lib')
  <2>1. PICK t, c, final, c2, final2 :
           t = file /\ c = chain /\ final = lib /\ c2 = chain' /\ final2 = lib'
    OBVIOUS
  <2>2. Len(c2) \in Nat /\ final2 \in Nat /\ final \in Nat
    BY <1>1, <1>4, <2>1 DEF Store
  <2> QED
    BY <1>1, <1>4, <2>1, <2>2, FilePrefix
<1> QED
  BY <1>2, <1>3, <1>4, <1>5, AbiFacts DEF SnapshotInv

\* A fork: the snapshot is of final blocks, which stay.
LEMMA ScanForkStep ==
    ASSUME SnapshotInv, NEW n \in 1 .. MaxBlock, ScanFork(n)
    PROVE  SnapshotInv'
<1>1. /\ Store(chain, lib, db, loaded, restoredAt) /\ FileOk(file, chain, lib)
      /\ restoredAt \in Nat /\ lib \in Nat
  BY AbiFacts DEF SnapshotInv, Store
<1>2. /\ ReceiveFork(n) /\ exported' = head' /\ UNCHANGED <<file, restoredAt, stops>>
      /\ forks < MaxForks /\ forks' = forks + 1
  BY DEF ScanFork, ReceiveFork
<1>3. PICK r \in Nat : r = restoredAt
  BY <1>1
<1>4. /\ Store(chain', lib', db', loaded', r)
      /\ head' \in 1 .. MaxBlock
      /\ lib <= lib' /\ lib <= Len(chain') /\ SameUpTo(chain, chain', lib)
  BY <1>1, <1>2, <1>3, ReceiveForkStep
<1>5. FileOk(file, chain', lib')
  <2>1. PICK t, c, final, c2, final2 :
           t = file /\ c = chain /\ final = lib /\ c2 = chain' /\ final2 = lib'
    OBVIOUS
  <2>2. Len(c2) \in Nat /\ final2 \in Nat /\ final \in Nat
    BY <1>1, <1>4, <2>1 DEF Store
  <2> QED
    BY <1>1, <1>4, <2>1, <2>2, FilePrefix
<1>6. forks' \in 0 .. MaxForks
  BY <1>2, AbiFacts DEF SnapshotInv
<1> QED
  BY <1>2, <1>3, <1>4, <1>5, <1>6, AbiFacts DEF SnapshotInv

\* A restart (load_state).
LEMMA ScanRestartStep ==
    ASSUME SnapshotInv, ScanRestart
    PROVE  SnapshotInv'
<1>1. /\ UNCHANGED <<chain, lib, forks, file, restoredAt>>
      /\ db' = UndoAll(db) /\ loaded' = NothingLoaded
      /\ stops < MaxStops /\ stops' = stops + 1
      /\ exported' = head' \/ exported' = exported
  BY DEF ScanRestart, Restart, chainVars
<1>2. /\ Store(chain, lib, UndoAll(db), NothingLoaded, restoredAt)
      /\ Tables(UndoAll(db)).head <= lib
  BY UndoneStore DEF SnapshotInv
<1>3. head' \in 0 .. MaxBlock
  <2>1. PICK e, c, final : e = UndoAll(db) /\ c = chain /\ final = lib
    OBVIOUS
  <2>2. c \in Seq(Changes) /\ Len(c) <= MaxBlock /\ DbOk(e, c, restoredAt, final)
    BY <1>2, <2>1 DEF Store
  <2>3. Tables(e).head \in 0 .. Len(c) /\ Len(c) \in Nat
    BY <2>2, HeadFacts
  <2>4. head' = Tables(e).head
    BY <1>1, <2>1 DEF head, Tables
  <2> QED
    BY <2>2, <2>3, <2>4, AbiFacts
<1>4. stops' \in 0 .. MaxStops /\ exported' \in 0 .. MaxBlock
  BY <1>1, <1>3, AbiFacts DEF SnapshotInv
<1> QED
  BY <1>1, <1>2, <1>4 DEF SnapshotInv

\* write_snapshot: of final blocks only, for all that is left to undo is undone.
LEMMA SaveSnapshotStep ==
    ASSUME SnapshotInv, SaveSnapshot
    PROVE  SnapshotInv'
<1>1. /\ UNCHANGED <<chain, lib, forks, restoredAt>>
      /\ db' = UndoAll(db) /\ loaded' = NothingLoaded
      /\ stops < MaxStops /\ stops' = stops + 1
      /\ exported' = 0 \/ exported' = exported
      /\ file' = IF head' > 0 THEN Rows(Tables(db')) ELSE NoFile
  BY DEF SaveSnapshot, chainVars, Reverted
<1>2. /\ Store(chain, lib, UndoAll(db), NothingLoaded, restoredAt)
      /\ Tables(UndoAll(db)).head <= lib
  BY UndoneStore DEF SnapshotInv
<1>3. stops' \in 0 .. MaxStops /\ exported' \in 0 .. MaxBlock
  BY <1>1, AbiFacts DEF SnapshotInv
<1>4. file' \in AbiTables \cup {NoFile} /\ FileOk(file', chain, lib)
  <2>1. PICK e, c, final, t, g :
           e = UndoAll(db) /\ c = chain /\ final = lib /\ t = Tables(e) /\ g = file'
    OBVIOUS
  <2>2. c \in Seq(Changes) /\ DbOk(e, c, restoredAt, final) /\ t.head <= final
    BY <1>2, <2>1 DEF Store
  <2>3. /\ t \in AbiTables /\ Current(t, c)
    <3>1. /\ e.committed \in Nat /\ e.revision \in Nat /\ e.committed <= e.revision
          /\ \A k \in e.committed .. e.revision : e.at[k] \in AbiTables /\ Current(e.at[k], c)
      BY <2>2, HeadFacts
    <3>2. e.revision \in e.committed .. e.revision /\ t = e.at[e.revision]
      BY <2>1, <3>1 DEF Tables
    <3> QED
      BY <3>1, <3>2
  <2>4. /\ Rows(t) \in AbiTables /\ Current(Rows(t), c) /\ Rows(t).head = t.head
        /\ \A h \in Rows(t).history : h.abi # NoAbi
    BY <2>3, RowsCurrent
  <2>5. head' = t.head /\ Tables(db') = t
    BY <1>1, <2>1 DEF head, Tables
  <2>6. g = IF t.head > 0 THEN Rows(t) ELSE NoFile
    BY <1>1, <2>1, <2>5
  <2>7. g \in AbiTables \cup {NoFile} /\ FileOk(g, c, final)
    <3>1. CASE t.head > 0
      BY <2>2, <2>4, <2>6, <3>1 DEF FileOk
    <3>2. CASE ~(t.head > 0)
      BY <2>6, <3>2 DEF FileOk
    <3> QED
      BY <3>1, <3>2
  <2> QED
    BY <2>1, <2>7
<1> QED
  BY <1>1, <1>2, <1>3, <1>4 DEF SnapshotInv

\* read_snapshot.
LEMMA RestoreSnapshotStep ==
    ASSUME SnapshotInv, RestoreSnapshot
    PROVE  SnapshotInv'
<1>1. /\ UNCHANGED <<chain, lib, forks, file, exported>>
      /\ file # NoFile /\ db' = NewDatabase(file) /\ loaded' = NothingLoaded
      /\ stops < MaxStops /\ stops' = stops + 1 /\ restoredAt' = file.head
  BY DEF RestoreSnapshot, chainVars
<1>2. PICK c \in Seq(Changes) :
         /\ c = chain /\ Len(c) <= MaxBlock /\ lib \in 0 .. Len(c) /\ FileOk(file, c, lib)
  BY DEF SnapshotInv, Store
<1>3. PICK t, final, e : t = file /\ final = lib /\ e = NewDatabase(t)
  OBVIOUS
<1>4. final \in 0 .. Len(c) /\ FileOk(t, c, final)
  BY <1>2, <1>3
<1>5. /\ t \in AbiTables /\ t.head > 0 /\ t.head <= final /\ Current(t, c)
      /\ \A h \in t.history : h.abi # NoAbi
  BY <1>1, <1>4, <1>3 DEF FileOk
<1>6. t.head \in Nat /\ t.head \in 0 .. MaxBlock
  BY <1>5, AbiFacts DEF AbiTables
<1>7. HistoryAgrees(t, c, t.head)
  BY <1>5, <1>6, RestoredAgrees
<1>8. /\ IsDatabase(e, AbiTables) /\ e.committed = 0 /\ e.revision = 0 /\ e.at[0] = t
      /\ \A k \in e.committed .. e.revision : k = 0
  BY <1>3, <1>5 DEF NewDatabase, IsDatabase
<1>9. NewOne(e)
  BY <1>5, <1>8, <1>6 DEF NewOne
<1>10. DbOk(e, c, t.head, final)
  BY <1>5, <1>7, <1>8, <1>9 DEF DbOk, TablesOk
<1>11. NothingLoaded \in CacheType /\ LoadedOk(NothingLoaded, Tables(e).abi)
  BY DEF NothingLoaded, CacheType, LoadedOk
<1>12. Store(c, final, e, NothingLoaded, t.head)
  BY <1>2, <1>4, <1>10, <1>11 DEF Store
<1>13. stops' \in 0 .. MaxStops
  BY <1>1, AbiFacts DEF SnapshotInv
<1> QED
  BY <1>1, <1>2, <1>3, <1>4, <1>6, <1>12, <1>13 DEF SnapshotInv

\* The invariant at the first start.
LEMMA SnapshotInitInv == SnapshotInit => SnapshotInv
<1> SUFFICES ASSUME SnapshotInit PROVE SnapshotInv
  OBVIOUS
<1>1. /\ StoreInit /\ forks = 0 /\ stops = 0
      /\ file = NoFile /\ restoredAt = 0 /\ exported = 0
  BY DEF SnapshotInit, StoreInit
<1>2. Store(chain, lib, db, loaded, restoredAt)
  BY <1>1, StoreStarts
<1>3. FileOk(file, chain, lib)
  BY <1>1 DEF FileOk
<1> QED
  BY <1>1, <1>2, <1>3, AbiFacts DEF SnapshotInv

\* Every step of a scan, a save or a restore keeps the invariant.
LEMMA SnapshotStepInv == SnapshotInv /\ [SnapshotNext]_snapshotVars => SnapshotInv'
<1> SUFFICES ASSUME SnapshotInv, [SnapshotNext]_snapshotVars PROVE SnapshotInv'
  OBVIOUS
<1>1. CASE ScanBlock
  BY <1>1, ScanBlockStep
<1>2. ASSUME NEW n \in 1 .. MaxBlock, ScanFork(n) PROVE SnapshotInv'
  BY <1>2, ScanForkStep
<1>3. CASE ScanRestart
  BY <1>3, ScanRestartStep
<1>4. CASE SaveSnapshot
  BY <1>4, SaveSnapshotStep
<1>5. CASE RestoreSnapshot
  BY <1>5, RestoreSnapshotStep
<1>6. CASE UNCHANGED snapshotVars
  BY <1>6 DEF SnapshotInv, snapshotVars, storeVars, chainVars
<1> QED
  BY <1>1, <1>2, <1>3, <1>4, <1>5, <1>6 DEF SnapshotNext

\* The invariant of the scanner with its snapshots: every revision of the database,
\* and the snapshot, agree with the chain up to their head (receive_deltas,
\* save_contract_abi_history, write_snapshot, read_snapshot).
THEOREM SnapshotInvariance == SnapshotSpec => []SnapshotInv
BY SnapshotInitInv, SnapshotStepInv, PTL DEF SnapshotSpec

\* Every variable keeps its type, through save_contract_abi and read_snapshot too.
THEOREM SnapshotTypeCorrect == SnapshotSpec => []SnapshotTypeOK
<1>1. SnapshotInv => SnapshotTypeOK
  BY DEF SnapshotInv, Store, SnapshotTypeOK, AbiTypeOK, DbOk, CacheType
<1> QED
  BY <1>1, SnapshotInvariance, PTL

-------------------------------------------------------------------------------
(* The properties.                                                           *)

\* The ABIs in use are the chain's latest, after forks, restarts and restores, in
\* the database and in the memory of the decoder (save_contract_abi,
\* clear_contract_abi, init_contract_abi_ctxt).
THEOREM LatestInUse == SnapshotSpec => []ScanUsesLatest
<1>1. SnapshotInv => ScanUsesLatest
  BY StoreHead DEF SnapshotInv
<1> QED
  BY <1>1, SnapshotInvariance, PTL

\* What a restored history says of every block is what the chain says, but for a
\* contract whose removed ABI the snapshot has lost (write_snapshot,
\* read_snapshot, clear_contract_abi).
THEOREM HistoryRestored == SnapshotSpec => []HistoryAfterRestore
<1>1. ASSUME SnapshotInv PROVE HistoryAfterRestore
  <2>1. ASSUME NEW a \in Accounts, NEW n \in 1 .. head, BareIn(chain, restoredAt, a, n)
        PROVE  Bare(a, n)
    <3>1. \A m : ChangesOf(a, m) = ChainChanges(chain, a, m)
      BY DEF ChangesOf, ChainChanges
    <3> QED
      BY <2>1, <3>1 DEF BareIn, Bare
  <2>2. \A a \in Accounts, n \in 1 .. head :
           HistoryAbi(a, n) = Usable(Latest(ChangesOf(a, n))) \/ BareIn(chain, restoredAt, a, n)
    BY <1>1, StoreHead DEF SnapshotInv
  <2> QED
    BY <2>1, <2>2 DEF HistoryAfterRestore
<1> QED
  BY <1>1, SnapshotInvariance, PTL

\* A snapshot has final blocks only and their ABIs, now and for ever
\* (write_snapshot, which reverts what is not committed).
THEOREM SnapshotsFinal == SnapshotSpec => []SnapshotIsFinal
<1>1. ASSUME SnapshotInv PROVE SnapshotIsFinal
  <2> SUFFICES ASSUME file # NoFile
               PROVE  /\ file.head <= lib
                      /\ \A a \in Accounts : file.abi[a] =
                            Latest({x \in ChangesOf(a, file.head) : x[2] # BadAbi})
    BY DEF SnapshotIsFinal
  <2>1. file.head <= lib /\ Current(file, chain)
    BY <1>1 DEF SnapshotInv, FileOk
  <2>2. \A a : ChangesOf(a, file.head) = ChainChanges(chain, a, file.head)
    BY DEF ChangesOf, ChainChanges
  <2>3. \A a \in Accounts : file.abi[a] = Latest(Good(ChainChanges(chain, a, file.head)))
    BY <2>1 DEF Current, UsesLatest
  <2> QED
    BY <2>1, <2>2, <2>3 DEF Good
<1> QED
  BY <1>1, SnapshotInvariance, PTL
===============================================================================
