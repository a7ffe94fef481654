--------------------------- MODULE InteractiveProofs ---------------------------
(***************************************************************************)
(* An interactive process beside a scanning one, for any contracts, ABIs,  *)
(* chain, forks and restarts.                                              *)
(***************************************************************************)
EXTENDS InteractiveMode, AbiProofs

FoundType == UNION {[S -> Values] : S \in SUBSET Accounts}

\* The stream is the rest of a request, up to its end.
RestOf(blocks, end) ==
    \A i \in 1 .. Len(blocks) : blocks[i] = end - Len(blocks) + i - 1

RequestsOk(queue, pending, end, blocks) ==
    /\ queue \in Seq(Requests)
    /\ pending \in BOOLEAN
    /\ end \in 0 .. MaxBlock + 1
    /\ blocks \in Seq(1 .. MaxBlock)
    /\ pending <=> blocks # <<>>
    /\ RestOf(blocks, end)

DecodingOk(cache, n, names, looked, out) ==
    /\ cache \in FoundType
    /\ n \in 0 .. MaxBlock /\ names \subseteq Accounts
    /\ names # {} => n \in 1 .. MaxBlock
    /\ looked # {} => names # {}
    /\ \A f \in looked : DOMAIN f \subseteq Accounts /\ Range(f) \subseteq HistoryRows
    /\ out \subseteq [account : Accounts, block : 1 .. MaxBlock, abi : Abis \cup {NoAbi}]

\* The inductive type invariant of both processes.
InteractiveInv ==
    /\ ScanInv
    /\ forks \in 0 .. MaxForks /\ stops \in 0 .. MaxStops
    /\ RequestsOk(interactive_req_queue, interactive_req_pending, end_block_num, stream)
    /\ DecodingOk(found, at, undecoded, rows, output)

-------------------------------------------------------------------------------
(* Requests.                                                                 *)

\* The head of a sequence.
LEMMA HeadOfSeq ==
    ASSUME NEW S, NEW s \in Seq(S), s # <<>>
    PROVE  Len(s) \in Nat /\ Len(s) >= 1 /\ Head(s) = s[1] /\ Tail(s) \in Seq(S)
OBVIOUS

\* The blocks of a request are its range.
LEMMA RangeOfRequest ==
    ASSUME NEW req \in Requests
    PROVE  LET blocks == <<>> \o [i \in 1 .. req[2] - req[1] |-> req[1] + i - 1]
           IN  /\ blocks \in Seq(1 .. MaxBlock) /\ Len(blocks) = req[2] - req[1]
               /\ blocks # <<>> /\ RestOf(blocks, req[2])
               /\ req[2] \in 0 .. MaxBlock + 1
<1>1. PICK s \in 1 .. MaxBlock, e \in 2 .. MaxBlock + 1 : req[1] = s /\ req[2] = e /\ s < e
  BY DEF Requests
<1>2. /\ MaxBlock \in Nat /\ s \in Nat /\ e \in Nat /\ e - s \in Nat /\ e - s >= 1
      /\ e \in 0 .. MaxBlock + 1
  BY <1>1, AbiFacts
<1>3. PICK b : b = [i \in 1 .. e - s |-> s + i - 1]
  OBVIOUS
<1>4. \A i \in 1 .. e - s : s + i - 1 \in 1 .. MaxBlock
  BY <1>1, <1>2
<1>5. b \in Seq(1 .. MaxBlock) /\ Len(b) = e - s /\ \A i \in 1 .. e - s : b[i] = s + i - 1
  BY <1>2, <1>3, <1>4
<1>6. <<>> \o b = b
  BY <1>5
<1>7. b # <<>>
  BY <1>2, <1>5
<1>8. RestOf(b, e)
  BY <1>2, <1>5 DEF RestOf
<1> QED
  BY <1>1, <1>2, <1>3, <1>5, <1>6, <1>7, <1>8

\* process_interactive_reqs, called when nothing of a request that has ended is left.
LEMMA ProcessRequestsOk ==
    ASSUME NEW queue, NEW pending, NEW rest,
           RequestsOk(queue, pending, end_block_num, rest), ProcessRequests(queue, pending, rest)
    PROVE  RequestsOk(interactive_req_queue', interactive_req_pending', end_block_num', stream')
<1>1. CASE Begins(queue, pending)
  <2>1. ~pending /\ queue # <<>> /\ queue \in Seq(Requests) /\ rest = <<>>
    BY <1>1 DEF Begins, RequestsOk
  <2>2. Head(queue) \in Requests /\ Tail(queue) \in Seq(Requests)
    BY <2>1
  <2>3. PICK req \in Requests : req = Head(queue)
    BY <2>2
  <2>4. PICK blocks : blocks = <<>> \o [i \in 1 .. req[2] - req[1] |-> req[1] + i - 1]
    OBVIOUS
  <2>5. /\ blocks \in Seq(1 .. MaxBlock) /\ blocks # <<>> /\ RestOf(blocks, req[2])
        /\ req[2] \in 0 .. MaxBlock + 1
    BY <2>4, RangeOfRequest
  <2>6. /\ interactive_req_queue' = Tail(queue) /\ interactive_req_pending' = TRUE
        /\ end_block_num' = req[2] /\ stream' = blocks
    BY <1>1, <2>1, <2>3, <2>4 DEF ProcessRequests
  <2> QED
    BY <2>2, <2>5, <2>6 DEF RequestsOk
<1>2. CASE ~Begins(queue, pending)
  BY <1>2 DEF ProcessRequests, RequestsOk
<1> QED
  BY <1>1, <1>2

\* A block taken from the stream leaves the rest of the request (receive_result).
LEMMA RestAfterHead ==
    ASSUME NEW end \in Nat, NEW blocks \in Seq(1 .. MaxBlock), blocks # <<>>, RestOf(blocks, end)
    PROVE  /\ Head(blocks) \in 1 .. MaxBlock /\ Tail(blocks) \in Seq(1 .. MaxBlock)
           /\ RestOf(Tail(blocks), end)
           /\ Head(blocks) # end - 1 <=> Tail(blocks) # <<>>
<1>1. /\ Len(blocks) \in Nat /\ Len(blocks) >= 1 /\ Head(blocks) = blocks[1]
      /\ Tail(blocks) \in Seq(1 .. MaxBlock)
  <2>1. PICK S : S = 1 .. MaxBlock /\ blocks \in Seq(S)
    OBVIOUS
  <2> QED
    BY <2>1, HeadOfSeq
<1>2. PICK t \in Seq(1 .. MaxBlock) : t = Tail(blocks)
  BY <1>1
<1>3. Len(t) = Len(blocks) - 1 /\ \A i \in 1 .. Len(t) : t[i] = blocks[i + 1]
  BY <1>2
<1>4. blocks[1] = end - Len(blocks) /\ blocks[1] \in 1 .. MaxBlock
  <2>1. 1 \in 1 .. Len(blocks)
    BY <1>1
  <2>2. blocks[1] = end - Len(blocks) + 1 - 1
    BY <2>1 DEF RestOf
  <2>3. blocks[1] \in 1 .. MaxBlock
    BY <2>1, ElementOfSeq
  <2> QED
    BY <1>1, <2>2, <2>3
<1>5. RestOf(t, end)
  <2> SUFFICES ASSUME NEW i \in 1 .. Len(t) PROVE t[i] = end - Len(t) + i - 1
    BY DEF RestOf
  <2>1. i + 1 \in 1 .. Len(blocks) /\ i \in Int
    BY <1>1, <1>3
  <2>2. blocks[i + 1] = end - Len(blocks) + (i + 1) - 1
    BY <2>1 DEF RestOf
  <2> QED
    BY <1>1, <1>3, <2>1, <2>2
<1>6. t # <<>> <=> Len(blocks) # 1
  BY <1>1, <1>3
<1>7. Len(blocks) = 1 <=> blocks[1] = end - 1
  <2>1. PICK k, b : k \in Nat /\ k = Len(blocks) /\ b = blocks[1] /\ b = end - k
    BY <1>1, <1>4
  <2>2. k = 1 <=> end - k = end - 1
    BY <2>1
  <2> QED
    BY <2>1, <2>2
<1> QED
  BY <1>1, <1>2, <1>4, <1>5, <1>6, <1>7

-------------------------------------------------------------------------------
(* Decoding.                                                                 *)

\* A history row is found in the history.
LEMMA RowFound ==
    ASSUME ScanInv, NEW cache, NEW names \in SUBSET Accounts, NEW n
    PROVE  LET f == LookedUp(cache, names, n)
           IN  /\ DOMAIN f \subseteq names
               /\ DOMAIN f = {a \in names \ DOMAIN cache : HistoryRow(a, n) # {}}
               /\ \A a \in DOMAIN f : /\ f[a] \in HistoryRow(a, n)
                                      /\ f[a] \in Tables(db).history
                                      /\ f[a] \in HistoryRows
<1>1. PICK f : f = LookedUp(cache, names, n)
  OBVIOUS
<1>2. DOMAIN f = {a \in names \ DOMAIN cache : HistoryRow(a, n) # {}}
  BY <1>1 DEF LookedUp
<1>3. ASSUME NEW a \in DOMAIN f PROVE f[a] \in HistoryRow(a, n)
  <2>1. HistoryRow(a, n) # {} /\ f[a] = CHOOSE h \in HistoryRow(a, n) : TRUE
    BY <1>1, <1>2 DEF LookedUp
  <2> QED
    BY <2>1
<1>4. \A a : HistoryRow(a, n) \subseteq Tables(db).history
  BY DEF HistoryRow
<1>5. Tables(db).history \subseteq HistoryRows
  <2>1. PICK t : t = Tables(db) /\ t \in AbiTables
    <3>1. IsDatabase(db, AbiTables)
      BY DEF ScanInv, Store, DbOk
    <3>2. db.revision \in db.committed .. db.revision
      BY <3>1 DEF IsDatabase
    <3> QED
      BY <3>1, <3>2 DEF IsDatabase, Tables
  <2> QED
    BY <2>1 DEF AbiTables
<1> QED
  BY <1>1, <1>2, <1>3, <1>4, <1>5

\* The cache of an interactive process is of its type when it has looked ABIs up.
LEMMA FoundMore ==
    ASSUME NEW cache \in FoundType, NEW S \in SUBSET Accounts, NEW abis \in [S -> Values]
    PROVE  /\ Imported(cache, abis) \in FoundType
           /\ DOMAIN Imported(cache, abis) = DOMAIN cache \cup S
           /\ \A a \in DOMAIN cache : Imported(cache, abis)[a] = cache[a]
           /\ \A a \in S : a \notin DOMAIN cache => Imported(cache, abis)[a] = abis[a]
<1>1. PICK T \in SUBSET Accounts : cache \in [T -> Values]
  BY DEF FoundType
<1>2. PICK g : g = Imported(cache, abis)
  OBVIOUS
<1>3. g = [a \in T \cup S |-> IF a \in T THEN cache[a] ELSE abis[a]]
  BY <1>1, <1>2 DEF Imported
<1>4. g \in [T \cup S -> Values]
  BY <1>1, <1>3
<1> QED
  BY <1>1, <1>2, <1>3, <1>4 DEF FoundType

\* An empty cache (process_interactive_reqs).
LEMMA NothingFoundType == NothingFound \in FoundType /\ DOMAIN NothingFound = {}
BY DEF NothingFound, FoundType

\* Decoding with what was found stays well-formed.
LEMMA DecodingKept ==
    ASSUME NEW cache, NEW n, NEW names, NEW out, NEW S \in SUBSET Accounts,
           NEW abis \in [S -> Values], DecodingOk(cache, n, names, {}, out)
    PROVE  DecodingOk(Imported(cache, abis), n, names, {}, out)
BY FoundMore DEF DecodingOk

\* on_block_req.
LEMMA RequestInv ==
    ASSUME InteractiveInv, NEW s \in 1 .. MaxBlock, NEW e \in 2 .. MaxBlock + 1, Request(s, e)
    PROVE  InteractiveInv'
<1>1. PICK queue : queue = Append(interactive_req_queue, <<s, e>>)
  OBVIOUS
<1>2. <<s, e>> \in Requests
  BY DEF Request, Requests
<1>3. queue \in Seq(Requests)
  BY <1>1, <1>2 DEF InteractiveInv, RequestsOk
<1>4. RequestsOk(queue, interactive_req_pending, end_block_num, stream)
  BY <1>3 DEF InteractiveInv, RequestsOk
<1>5. /\ ProcessRequests(queue, interactive_req_pending, stream)
      /\ found' = CacheAfter(queue, interactive_req_pending)
      /\ UNCHANGED <<storeVars, at, undecoded, rows, output>>
  BY <1>1 DEF Request
<1>6. RequestsOk(interactive_req_queue', interactive_req_pending', end_block_num', stream')
  BY <1>4, <1>5, ProcessRequestsOk
<1>7. found' \in FoundType
  BY <1>5, NothingFoundType DEF CacheAfter, InteractiveInv, DecodingOk
<1>8. DecodingOk(found', at', undecoded', rows', output')
  BY <1>5, <1>7 DEF InteractiveInv, DecodingOk
<1> QED
  BY <1>5, <1>6, <1>8 DEF InteractiveInv, ScanInv, storeVars, chainVars

\* A step that reads ABIs reads what the type allows.
LEMMA ReadValues ==
    ASSUME NEW f, NEW abis \in Read(f)
    PROVE  abis \in [DOMAIN f -> Values]
BY DEF Read

\* receive_result with a block of a request.
LEMMA InteractiveBlockInv ==
    ASSUME InteractiveInv, ReceiveInteractiveBlock
    PROVE  InteractiveInv'
<1>1. stream \in Seq(1 .. MaxBlock) /\ stream # <<>> /\ end_block_num \in Nat
      /\ RestOf(stream, end_block_num) /\ undecoded = {} /\ rows = {}
      /\ interactive_req_pending
  BY AbiFacts DEF ReceiveInteractiveBlock, InteractiveInv, RequestsOk, DecodingOk
<1>2. PICK n, rest : n = Head(stream) /\ rest = Tail(stream)
  OBVIOUS
<1>3. n \in 1 .. MaxBlock /\ rest \in Seq(1 .. MaxBlock) /\ RestOf(rest, end_block_num)
      /\ (n # end_block_num - 1 <=> rest # <<>>)
  BY <1>1, <1>2, RestAfterHead
<1>4. PICK pending : pending = (interactive_req_pending /\ ~LastOfRequest(n))
  OBVIOUS
<1>5. RequestsOk(interactive_req_queue, pending, end_block_num, rest)
  BY <1>1, <1>3, <1>4 DEF LastOfRequest, InteractiveInv, RequestsOk
<1>6. PICK cache : cache = CacheAfter(interactive_req_queue, pending)
  OBVIOUS
<1>7. /\ ProcessRequests(interactive_req_queue, pending, rest)
      /\ at' = n /\ undecoded' \in SUBSET Accounts \ {{}}
      /\ \E decoded \in SUBSET undecoded' :
            \E abis \in Read(LookedUp(cache, decoded, n)) : found' = Imported(cache, abis)
      /\ UNCHANGED <<storeVars, rows, output>>
  BY <1>2, <1>4, <1>6 DEF ReceiveInteractiveBlock
<1>8. RequestsOk(interactive_req_queue', interactive_req_pending', end_block_num', stream')
  BY <1>5, <1>7, ProcessRequestsOk
<1>9. DecodingOk(cache, n, undecoded', {}, output)
  BY <1>1, <1>3, <1>6, <1>7, NothingFoundType, AbiFacts DEF CacheAfter, InteractiveInv, DecodingOk
<1>10. PICK decoded, f, abis :
          /\ decoded \in SUBSET Accounts
          /\ f = LookedUp(cache, decoded, n) /\ abis \in Read(f)
          /\ found' = Imported(cache, abis)
  BY <1>7
<1>11. DOMAIN f \subseteq Accounts /\ abis \in [DOMAIN f -> Values]
  BY <1>10, RowFound, ReadValues DEF InteractiveInv
<1>12. DecodingOk(found', n, undecoded', {}, output)
  BY <1>9, <1>10, <1>11, DecodingKept
<1>13. DecodingOk(found', at', undecoded', rows', output')
  BY <1>1, <1>7, <1>12
<1> QED
  BY <1>7, <1>8, <1>13 DEF InteractiveInv, ScanInv, storeVars, chainVars

\* The decoder looks its history rows up.
LEMMA LookUpInv == ASSUME InteractiveInv, LookUp PROVE InteractiveInv'
<1>1. PICK f : f = LookedUp(found, undecoded, at)
  OBVIOUS
<1>2. undecoded # {} /\ rows' = {f}
      /\ UNCHANGED <<storeVars, requestVars, found, at, undecoded, output>>
  BY <1>1 DEF LookUp
<1>3. DOMAIN f \subseteq Accounts /\ \A a \in DOMAIN f : f[a] \in HistoryRows
  BY <1>1, RowFound DEF InteractiveInv, DecodingOk
<1>4. Range(f) \subseteq HistoryRows
  BY <1>3 DEF Range
<1>5. DecodingOk(found', at', undecoded', rows', output')
  BY <1>2, <1>3, <1>4 DEF InteractiveInv, DecodingOk
<1> QED
  BY <1>2, <1>5 DEF InteractiveInv, ScanInv, storeVars, chainVars, requestVars

\* The decoder reads the binaries and decodes.
LEMMA DecodeInv == ASSUME InteractiveInv, Decode PROVE InteractiveInv'
<1>1. PICK f, abis : f \in rows /\ abis \in Read(f) /\ found' = Imported(found, abis)
  BY DEF Decode
<1>2. /\ output' = {[account |-> a, block |-> at,
                     abi |-> IF a \in DOMAIN found' THEN Usable(found'[a]) ELSE NoAbi] :
                    a \in undecoded}
      /\ undecoded' = {} /\ rows' = {}
      /\ UNCHANGED <<storeVars, requestVars, at>>
  BY DEF Decode
<1>3. DOMAIN f \subseteq Accounts /\ abis \in [DOMAIN f -> Values]
  BY <1>1, ReadValues DEF InteractiveInv, DecodingOk
<1>4. found \in FoundType
  BY DEF InteractiveInv, DecodingOk
<1>5. found' \in FoundType
  BY <1>1, <1>3, <1>4, FoundMore
<1>6. \A a \in DOMAIN found' : Usable(found'[a]) \in Abis \cup {NoAbi}
  BY <1>5 DEF FoundType, Usable, Values
<1>7. undecoded \subseteq Accounts /\ at \in 0 .. MaxBlock /\ (undecoded # {} => at \in 1 .. MaxBlock)
  BY DEF InteractiveInv, DecodingOk
<1>8. output' \subseteq [account : Accounts, block : 1 .. MaxBlock, abi : Abis \cup {NoAbi}]
  <2> SUFFICES ASSUME NEW o \in output'
               PROVE  o \in [account : Accounts, block : 1 .. MaxBlock, abi : Abis \cup {NoAbi}]
    OBVIOUS
  <2>1. PICK a, v : /\ a \in undecoded /\ o = [account |-> a, block |-> at, abi |-> v]
                  /\ v \in Abis \cup {NoAbi}
    BY <1>2, <1>6
  <2> QED
    BY <1>7, <2>1
<1>9. DecodingOk(found', at', undecoded', rows', output')
  BY <1>2, <1>5, <1>7, <1>8 DEF DecodingOk
<1> QED
  BY <1>2, <1>9 DEF InteractiveInv, ScanInv, storeVars, chainVars, requestVars

\* The scanning process takes a step.
LEMMA ScanningInv ==
    ASSUME InteractiveInv, StoreNext, UNCHANGED interactiveVars PROVE InteractiveInv'
<1>1. ScanInv'
  BY ScanStepInv DEF InteractiveInv
<1>2. forks' \in 0 .. MaxForks /\ stops' \in 0 .. MaxStops
  <2>1. CASE ReceiveBlock
    BY <2>1 DEF ReceiveBlock, InteractiveInv
  <2>2. ASSUME NEW n, ReceiveFork(n) PROVE forks' \in 0 .. MaxForks /\ stops' \in 0 .. MaxStops
    BY <2>2, AbiFacts DEF ReceiveFork, InteractiveInv
  <2>3. CASE Restart
    BY <2>3, AbiFacts DEF Restart, chainVars, InteractiveInv
  <2> QED
    BY <2>1, <2>2, <2>3 DEF StoreNext
<1> QED
  BY <1>1, <1>2 DEF InteractiveInv, interactiveVars, requestVars

\* Both processes at their start.
LEMMA InteractiveInit == Init => InteractiveInv
<1> SUFFICES ASSUME Init PROVE InteractiveInv
  OBVIOUS
<1>1. ScanInv
  BY ScanInitInv DEF Init
<1>2. forks = 0 /\ stops = 0
  BY DEF Init, StoreInit
<1>3. RequestsOk(interactive_req_queue, interactive_req_pending, end_block_num, stream)
  <2>1. <<>> \in Seq(Requests) /\ <<>> \in Seq(1 .. MaxBlock)
    OBVIOUS
  <2>2. RestOf(<<>>, 0)
    <3>1. 1 .. Len(<<>>) = {}
      OBVIOUS
    <3> QED
      BY <3>1 DEF RestOf
  <2>3. 0 \in 0 .. MaxBlock + 1
    BY AbiFacts
  <2> QED
    BY <2>1, <2>2, <2>3 DEF Init, RequestsOk
<1>4. DecodingOk(found, at, undecoded, rows, output)
  BY NothingFoundType, AbiFacts DEF Init, DecodingOk
<1> QED
  BY <1>1, <1>2, <1>3, <1>4, AbiFacts DEF InteractiveInv

\* Every step of the two processes keeps the invariant.
LEMMA InteractiveStepInv == InteractiveInv /\ [Next]_vars => InteractiveInv'
<1> SUFFICES ASSUME InteractiveInv, [Next]_vars PROVE InteractiveInv'
  OBVIOUS
<1>1. CASE StoreNext /\ UNCHANGED interactiveVars
  BY <1>1, ScanningInv
<1>2. CASE InteractiveStep
  BY <1>2, RequestInv, InteractiveBlockInv, LookUpInv, DecodeInv DEF InteractiveStep
<1>3. CASE UNCHANGED vars
  BY <1>3 DEF vars, interactiveVars, requestVars, storeVars, chainVars, InteractiveInv, ScanInv
<1> QED
  BY <1>1, <1>2, <1>3 DEF Next

\* Everything has its type, and a request is pending exactly as long as nodeos
\* has blocks of it to send (process_interactive_reqs, receive_result).
THEOREM InteractiveTypeCorrect == Spec => []InteractiveTypeOK
<1>1. ASSUME InteractiveInv PROVE InteractiveTypeOK
  <2>1. AbiTypeOK
    BY <1>1 DEF InteractiveInv, ScanInv, Store, DbOk, AbiTypeOK, CacheType
  <2> QED
    BY <1>1, <2>1 DEF InteractiveInv, RequestsOk, DecodingOk, FoundType, InteractiveTypeOK
<1> QED
  BY <1>1, InteractiveInit, InteractiveStepInv, PTL DEF Spec

\* The history agrees with the chain all along, and serving requests does not
\* disturb it (save_contract_abi_history, get_contract_abi_ready).
THEOREM HistoryStaysExact == Spec => []HistoryMatchesChain
<1>1. InteractiveInv => HistoryMatchesChain
  BY ScanHistory DEF InteractiveInv
<1> QED
  BY <1>1, InteractiveInit, InteractiveStepInv, PTL DEF Spec

-------------------------------------------------------------------------------
(* What a lookup finds.                                                      *)

Had(c, a, n) == \E x \in ChainChanges(c, a, n) : x[2] # NoAbi
RightAbi(c, a, n) == Usable(Latest(ChainChanges(c, a, n)))

\* The tables that queries see, and the committed block.
LEMMA ScanFacts ==
    ASSUME ScanInv
    PROVE  /\ chain \in Seq(Changes) /\ Len(chain) \in Nat /\ lib \in 0 .. Len(chain)
           /\ Tables(db) \in AbiTables /\ Current(Tables(db), chain)
           /\ Tables(db).head \in 0 .. Len(chain)
           /\ db.committed \in Nat /\ db.committed <= lib /\ db.committed <= Tables(db).head
           /\ Exact(Tables(db), chain)
<1>0. PICK c \in Seq(Changes) : c = chain
  BY DEF ScanInv, Store
<1>1. PICK d, r :
         c = chain /\ d = db /\ r = 0 /\ DbOk(d, c, r, lib) /\ lib \in 0 .. Len(c)
         /\ Len(c) \in Nat
  BY <1>0 DEF ScanInv, Store
<1>2. /\ d.committed \in Nat /\ d.revision \in Nat /\ d.committed <= d.revision
      /\ \A k \in d.committed .. d.revision :
            d.at[k] \in AbiTables /\ Current(d.at[k], c) /\ d.at[k].head \in 0 .. Len(c)
      /\ Tables(d) \in AbiTables /\ Tables(d).head \in 0 .. Len(c)
  BY <1>1, HeadFacts
<1>3. /\ d.revision \in d.committed .. d.revision /\ d.committed \in d.committed .. d.revision
      /\ Tables(d) = d.at[d.revision]
  BY <1>2 DEF Tables
<1>4. Current(Tables(d), c) /\ Exact(Tables(d), c)
  <2>1. TablesOk(d.at[d.revision], c, r)
    BY <1>1, <1>3 DEF DbOk
  <2> QED
    BY <1>1, <1>3, <2>1 DEF TablesOk
<1>5. d.committed <= Tables(d).head /\ d.committed <= d.at[d.committed].head
  <2>1. CASE Numbered(d)
    <3>1. d.at[d.revision].head = d.revision /\ d.at[d.committed].head = d.committed
      BY <1>3, <2>1 DEF Numbered
    <3> QED
      BY <1>2, <1>3, <3>1
  <2>2. CASE NewOne(d)
    BY <1>2, <1>3, <2>2 DEF NewOne
  <2> QED
    BY <1>1, <2>1, <2>2 DEF DbOk
<1>6. d.committed <= lib
  <2>1. d.at[d.committed].head <= lib /\ d.at[d.committed].head \in Nat /\ lib \in Nat
    BY <1>1, <1>2, <1>3 DEF DbOk
  <2> QED
    BY <1>2, <1>5, <2>1
<1> QED
  BY <1>1, <1>2, <1>4, <1>5, <1>6

\* The history is exact up to the committed block at least, before and after a step.
ExactAboveCommitted ==
    /\ Exact(Tables(db), chain) /\ db.committed \in Nat
    /\ db.committed <= Tables(db).head /\ Tables(db).head \in Nat

\* As a state predicate.
LEMMA ScanExact == ScanInv => ExactAboveCommitted
BY ScanFacts DEF ExactAboveCommitted

\* And in the state after a step.
LEMMA ScanExactNext == ScanInv' => ExactAboveCommitted'
BY ScanExact, PTL

\* Rows of one account and block are one row.
LEMMA OneRow ==
    ASSUME NEW c \in Seq(Changes), NEW t, t.head \in 0 .. Len(c), Exact(t, c),
           NEW g \in HistoryRows, NEW h \in HistoryRows, g \in t.history, h \in t.history,
           g.account = h.account, g.block = h.block
    PROVE  g = h
<1>1. PICK a \in Accounts, n \in 1 .. MaxBlock : a = g.account /\ n = g.block /\ n <= t.head
  BY DEF Exact, HistoryRows
<1>2. n \in 1 .. Len(c)
  BY <1>1, AbiFacts
<1>3. PICK row \in Changes : row = c[n]
  BY <1>2, ElementOfSeq
<1>4. DOMAIN row = 1 .. Len(row)
  BY <1>3, ChangesFacts
<1>5. /\ <<n, g.abi>> \in ChainChanges(c, a, n)
      /\ <<n, h.abi>> \in ChainChanges(c, a, n)
  BY <1>1 DEF Exact
<1>6. HasRow(row, a, g.abi) /\ HasRow(row, a, h.abi)
  BY <1>3, <1>4, <1>5 DEF ChainChanges, HasRow
<1>7. g.abi = h.abi
  BY <1>3, <1>6, RowCases
<1> QED
  BY <1>7 DEF HistoryRows

\* An account that had an ABI has a history row, and a highest one.
LEMMA HighestRow ==
    ASSUME NEW c \in Seq(Changes), NEW t \in AbiTables, t.head \in 0 .. Len(c),
           Current(t, c), NEW a \in Accounts, NEW n \in 1 .. t.head, Had(c, a, n)
    PROVE  \E g \in t.history :
              /\ g.account = a /\ g.block <= n
              /\ \A h \in t.history : h.account = a /\ h.block <= n => h.block <= g.block
<1>1. PICK H, his : H \in Nat /\ H = t.head /\ his = t.history /\ his \in SUBSET HistoryRows
  BY DEF AbiTables
<1>2. n \in 0 .. H /\ n \in Nat /\ H \in 0 .. H
  BY <1>1
<1>3. /\ ChainChanges(c, a, n) = UpTo(ChainChanges(c, a, H), n)
      /\ HistoryChanges(his, a, n) = UpTo(HistoryChanges(his, a, H), n)
  BY <1>1, <1>2, LowerChanges, LowerHistory
<1>4. Kept(HistoryChanges(his, a, H)) = Kept(ChainChanges(c, a, H))
  BY <1>1 DEF Current, KeepsChanges
<1>5. PICK x \in ChainChanges(c, a, n) : x[2] # NoAbi
  BY DEF Had
<1>6. x \in HistoryChanges(his, a, n)
  BY <1>3, <1>4, <1>5 DEF Kept, UpTo
<1>7. HistoryChanges(his, a, n) \in SUBSET ((1 .. n) \X Values)
  <2> SUFFICES ASSUME NEW h \in his, h.block <= n PROVE h.block \in 1 .. n /\ h.abi \in Values
    BY DEF HistoryChanges
  <2>1. h.block \in 1 .. MaxBlock /\ h.abi \in Values
    BY <1>1 DEF HistoryRows
  <2> QED
    BY <1>2, <2>1, AbiFacts
<1>8. PICK y \in HistoryChanges(his, a, n) : \A d \in HistoryChanges(his, a, n) : d[1] <= y[1]
  BY <1>2, <1>6, <1>7, HighestChange
<1>9. PICK g \in his : g.account = a /\ g.block <= n /\ y = <<g.block, g.abi>>
  BY <1>8 DEF HistoryChanges
<1>10. ASSUME NEW h \in his, h.account = a, h.block <= n PROVE h.block <= g.block
  <2>1. <<h.block, h.abi>> \in HistoryChanges(his, a, n)
    BY <1>10 DEF HistoryChanges
  <2> QED
    BY <1>8, <1>9, <2>1
<1> QED
  BY <1>1, <1>9, <1>10

\* lower_bound finds the highest row, and no other.
LEMMA LowerBound ==
    ASSUME ScanInv, NEW a \in Accounts, NEW n \in Nat,
           NEW g \in Tables(db).history, g.account = a, g.block <= n,
           \A h \in Tables(db).history : h.account = a /\ h.block <= n => h.block <= g.block
    PROVE  HistoryRow(a, n) = {g}
<1>1. PICK c, t : /\ c = chain /\ t = Tables(db) /\ c \in Seq(Changes) /\ t \in AbiTables
                  /\ t.head \in 0 .. Len(c) /\ Exact(t, c)
  BY ScanFacts
<1>2. PICK his \in SUBSET HistoryRows : his = t.history
  BY <1>1 DEF AbiTables
<1>3. \A h \in his : h.account \in Nat /\ h.block \in Nat
  <2>1. Accounts \subseteq Nat
    BY AbiAssumption
  <2>2. SUFFICES ASSUME NEW h \in his PROVE h.account \in Nat /\ h.block \in Nat
    OBVIOUS
  <2>3. h \in HistoryRows
    BY <1>2
  <2>4. h.account \in Accounts /\ h.block \in 1 .. MaxBlock
    BY <2>3 DEF HistoryRows
  <2>5. h.account \in Nat
    BY <2>1, <2>4
  <2> QED
    BY <2>4, <2>5
<1>4. PICK later : later = {h \in his : AtOrAfter(a, n, h)}
  OBVIOUS
<1>5. HistoryRow(a, n) = {r \in later : \A h \in later \ {r} : Before(r, h)}
  BY <1>1, <1>2, <1>4 DEF HistoryRow
<1>6. g \in later /\ a \in Nat /\ g.account = a
  BY <1>1, <1>2, <1>3, <1>4 DEF AtOrAfter
<1>7. ASSUME NEW h \in later, h # g PROVE Before(g, h) /\ ~Before(h, g)
  <2>1. h \in his /\ AtOrAfter(a, n, h)
    BY <1>4
  <2>2. CASE h.account > a
    BY <1>3, <1>6, <2>1, <2>2 DEF Before
  <2>3. CASE h.account = a /\ h.block <= n
    <3>1. h.block <= g.block
      BY <1>1, <1>2, <2>1, <2>3
    <3>2. h.block # g.block
      BY <1>1, <1>2, <1>7, <2>1, <2>3, OneRow
    <3> QED
      BY <1>1, <1>2, <1>3, <1>6, <2>1, <2>3, <3>1, <3>2 DEF Before
  <2> QED
    BY <2>1, <2>2, <2>3 DEF AtOrAfter
<1>8. ASSUME NEW r \in HistoryRow(a, n) PROVE r = g
  <2>1. r \in later /\ \A h \in later \ {r} : Before(r, h)
    BY <1>5
  <2>2. r # g => Before(r, g)
    BY <1>6, <2>1
  <2> QED
    BY <1>7, <2>1, <2>2
<1>9. g \in HistoryRow(a, n)
  BY <1>5, <1>6, <1>7
<1> QED
  BY <1>8, <1>9

\* Where the contract ever had an ABI, the row found for block n has the one it
\* had at block n.
LEMMA LookupRight ==
    ASSUME ScanInv, NEW a \in Accounts, NEW n \in 1 .. Tables(db).head, Had(chain, a, n)
    PROVE  \E g \in Tables(db).history :
              /\ HistoryRow(a, n) = {g} /\ g.account = a /\ g.block <= n
              /\ Usable(g.abi) = RightAbi(chain, a, n)
<1>1. PICK c, t : /\ c = chain /\ t = Tables(db) /\ c \in Seq(Changes) /\ t \in AbiTables
                  /\ t.head \in 0 .. Len(c) /\ Exact(t, c) /\ Current(t, c)
  BY ScanFacts
<1>2. n \in 1 .. t.head /\ n \in Nat
  BY <1>1
<1>3. PICK g \in t.history :
         /\ g.account = a /\ g.block <= n
         /\ \A h \in t.history : h.account = a /\ h.block <= n => h.block <= g.block
  BY <1>1, <1>2, HighestRow
<1>4. HistoryRow(a, n) = {g}
  BY <1>1, <1>2, <1>3, LowerBound
<1>5. g.block \in Nat /\ \A h \in t.history : h.block \in Nat /\ h \in HistoryRows
  BY <1>1, AbiFacts DEF AbiTables, HistoryRows
<1>6. Latest(HistoryChanges(t.history, a, n)) = g.abi
  <2>1. PICK S, m, v : S = HistoryChanges(t.history, a, n) /\ m = g.block /\ v = g.abi
    OBVIOUS
  <2>2. <<m, v>> \in S
    BY <1>3, <2>1 DEF HistoryChanges
  <2>3. ASSUME NEW x \in S PROVE x = <<m, v>> \/ (x[1] \in Nat /\ x[1] < m)
    <3>1. PICK h \in t.history : h.account = a /\ h.block <= n /\ x = <<h.block, h.abi>>
      BY <2>1, <2>3 DEF HistoryChanges
    <3>2. h.block <= m /\ h.block \in Nat /\ m \in Nat
      BY <1>3, <1>5, <2>1, <3>1
    <3>3. h.block = m => h = g
      BY <1>1, <1>3, <1>5, <2>1, <3>1, OneRow
    <3> QED
      BY <2>1, <3>1, <3>2, <3>3
  <2>4. m \in Nat
    BY <1>5, <2>1
  <2>5. Latest(S) = v
    BY <2>2, <2>3, <2>4, LatestIs
  <2> QED
    BY <2>1, <2>5
<1>7. Usable(Latest(HistoryChanges(t.history, a, n))) = RightAbi(c, a, n)
  <2>1. PICK r : r = 0 /\ TablesOk(t, c, r)
    <3>1. DbOk(db, c, 0, lib) /\ db.revision \in db.committed .. db.revision
      BY <1>1 DEF ScanInv, Store, DbOk, IsDatabase
    <3> QED
      BY <1>1, <3>1 DEF DbOk, Tables
  <2>2. ~BareIn(c, r, a, n)
    BY <2>1 DEF BareIn
  <2> QED
    BY <1>2, <2>1, <2>2 DEF TablesOk, HistoryAgrees, RightAbi
<1> QED
  BY <1>1, <1>3, <1>4, <1>6, <1>7

-------------------------------------------------------------------------------
(* One block per request, committed by the scanning process.                 *)

\* Rows looked up for block n, and the cache at block n, are of the chain.
RowOk(c, t, g, a, n) ==
    /\ g \in t.history /\ g.account = a /\ g.block <= n
    /\ Usable(g.abi) = RightAbi(c, a, n)
LookedOk(c, t, f, n) ==
    \A a \in DOMAIN f : a \in Accounts /\ (Had(c, a, n) => RowOk(c, t, f[a], a, n))
FoundOk(c, cache, n) ==
    \A a \in DOMAIN cache : Had(c, a, n) => Usable(cache[a]) = RightAbi(c, a, n)

\* Nothing is left out of names that ever had an ABI.
Covers(c, names, S, n) == \A a \in names : Had(c, a, n) => a \in S

SingleBlock(d, blocks, cache, names) ==
    blocks # <<>> =>
       /\ Len(blocks) = 1 /\ blocks[1] \in 1 .. d.committed
       /\ cache = NothingFound /\ names = {}

SingleDecoding(c, d, cache, n, names, looked) ==
    /\ names # {} => n \in 1 .. d.committed /\ FoundOk(c, cache, n)
    /\ \A f \in looked :
          LookedOk(c, Tables(d), f, n) /\ Covers(c, names, DOMAIN f \cup DOMAIN cache, n)

\* A request of one committed block is served with an empty cache.
Single ==
    /\ interactive_req_queue = <<>>
    /\ SingleBlock(db, stream, found, undecoded)
    /\ SingleDecoding(chain, db, found, at, undecoded, rows)

\* What had an ABI up to block n, and which, is a matter of the chain up to n.
LEMMA PrefixHad ==
    ASSUME NEW c, NEW c2, NEW h \in Nat, SameUpTo(c, c2, h), NEW a, NEW n \in 0 .. h
    PROVE  (Had(c2, a, n) <=> Had(c, a, n)) /\ RightAbi(c2, a, n) = RightAbi(c, a, n)
BY PrefixChanges DEF Had, RightAbi

\* A history row of a block that is not replaced stays.
LEMMA RowStays ==
    ASSUME NEW c, NEW c2, NEW h \in Nat, SameUpTo(c, c2, h), NEW t, NEW t2,
           Exact(t, c), Exact(t2, c2), h <= t2.head, t2.head \in Nat,
           NEW g \in HistoryRows, g \in t.history, g.block <= h
    PROVE  g \in t2.history
<1>1. g.block \in 1 .. h /\ g.block \in 0 .. h /\ g.block - 1 \in 0 .. h /\ g.block <= t2.head
  <2>1. g.block \in 1 .. MaxBlock
    BY DEF HistoryRows
  <2> QED
    BY <2>1, AbiFacts
<1>2. PICK a, n, m : a = g.account /\ n = g.block /\ m = g.block - 1
  OBVIOUS
<1>3. /\ <<n, g.abi>> \in ChainChanges(c, a, n)
      /\ Recorded(g.abi, Latest(Good(ChainChanges(c, a, m))))
  BY <1>2 DEF Exact
<1>4. /\ ChainChanges(c2, a, n) = ChainChanges(c, a, n)
      /\ ChainChanges(c2, a, m) = ChainChanges(c, a, m)
  BY <1>1, <1>2, PrefixChanges
<1> QED
  BY <1>1, <1>2, <1>3, <1>4 DEF Exact

\* A step of the scanning process neither replaces nor uncommits a committed block.
LEMMA ScanKeepsCommitted ==
    ASSUME ScanInv, StoreNext
    PROVE  ScanInv' /\ db.committed <= db'.committed /\ SameUpTo(chain, chain', lib)
<1>1. PICK r \in Nat : r = 0 /\ Store(chain, lib, db, loaded, r)
  BY DEF ScanInv
<1>2. ScanInv'
  BY ScanStepInv
<1>3. CASE ReceiveBlock
  BY <1>1, <1>2, <1>3, ReceiveBlockStep
<1>4. ASSUME NEW n \in 1 .. MaxBlock, ReceiveFork(n)
      PROVE  db.committed <= db'.committed /\ SameUpTo(chain, chain', lib)
  BY <1>1, <1>4, ReceiveForkStep
<1>5. CASE Restart
  <2>1. UndoAll(db).committed = db.committed /\ db.committed \in Nat
    BY <1>1, UndoneStore, ScanFacts
  <2> QED
    BY <1>2, <1>5, <2>1 DEF Restart, chainVars, SameUpTo
<1> QED
  BY <1>2, <1>3, <1>4, <1>5 DEF StoreNext

\* The rows looked up and the cache stay right while the scanning process goes on.
LEMMA SingleWhileScanning ==
    ASSUME InteractiveInv, Single, StoreNext, UNCHANGED interactiveVars
    PROVE  Single'
<1>1. /\ db.committed <= db'.committed /\ SameUpTo(chain, chain', lib) /\ ScanInv /\ ScanInv'
      /\ UNCHANGED <<interactive_req_queue, stream, found, at, undecoded, rows>>
  BY ScanKeepsCommitted DEF InteractiveInv, interactiveVars, requestVars
<1>2. PICK c, t, h : /\ c = chain /\ t = Tables(db) /\ h = db.committed
                     /\ Exact(t, c) /\ h \in Nat /\ h <= lib /\ lib \in Nat
  BY <1>1, ScanFacts
<1>3. PICK c2, t2, h2 : /\ c2 = chain' /\ t2 = Tables(db') /\ h2 = db'.committed
                        /\ Exact(t2, c2) /\ h2 \in Nat /\ h2 <= t2.head /\ t2.head \in Nat
  <2>1. /\ Exact(Tables(db'), chain') /\ db'.committed \in Nat
        /\ db'.committed <= Tables(db').head /\ Tables(db').head \in Nat
    BY <1>1, ScanExactNext DEF ExactAboveCommitted
  <2> QED
    BY <2>1
<1>4. SameUpTo(c, c2, h) /\ h <= h2 /\ h <= t2.head
  BY <1>1, <1>2, <1>3 DEF SameUpTo
<1>5. SingleBlock(db', stream, found, undecoded)
  BY <1>2, <1>3, <1>4 DEF Single, SingleBlock
<1>6. SingleDecoding(chain', db', found, at, undecoded, rows)
  <2>1. CASE undecoded = {}
    BY <2>1 DEF InteractiveInv, DecodingOk, SingleDecoding
  <2>2. CASE undecoded # {}
    <3>1. PICK n \in 1 .. h : n = at
      BY <1>2, <2>2 DEF Single, SingleDecoding
    <3>2. n \in 0 .. h /\ n \in 1 .. h2
      BY <1>2, <1>3, <1>4
    <3>3. \A a : (Had(c2, a, n) <=> Had(c, a, n)) /\ RightAbi(c2, a, n) = RightAbi(c, a, n)
      BY <1>2, <1>4, <3>2, PrefixHad
    <3>4. FoundOk(c2, found, n)
      BY <1>2, <2>2, <3>1, <3>3 DEF Single, SingleDecoding, FoundOk
    <3>5. ASSUME NEW f \in rows
          PROVE  LookedOk(c2, t2, f, n) /\ Covers(c2, undecoded, DOMAIN f \cup DOMAIN found, n)
      <4>1. LookedOk(c, t, f, n) /\ Covers(c, undecoded, DOMAIN f \cup DOMAIN found, n)
        BY <1>2, <3>1, <3>5 DEF Single, SingleDecoding
      <4>2. ASSUME NEW a \in DOMAIN f, Had(c2, a, n) PROVE RowOk(c2, t2, f[a], a, n)
        <5>1. RowOk(c, t, f[a], a, n)
          BY <3>3, <4>1, <4>2 DEF LookedOk
        <5>2. f[a] \in HistoryRows
          BY DEF InteractiveInv, DecodingOk, Range
        <5>3. f[a].block <= h
          <6>1. f[a].block \in 1 .. MaxBlock
            BY <5>2 DEF HistoryRows
          <6> QED
            BY <1>2, <3>2, <5>1, <6>1, AbiFacts DEF RowOk
        <5>4. f[a] \in t2.history
          BY <1>2, <1>3, <1>4, <5>1, <5>2, <5>3, RowStays DEF RowOk
        <5> QED
          BY <3>3, <5>1, <5>4 DEF RowOk
      <4> QED
        BY <3>3, <4>1, <4>2 DEF LookedOk, Covers
    <3> QED
      BY <1>3, <3>1, <3>2, <3>4, <3>5 DEF SingleDecoding
  <2> QED
    BY <2>1, <2>2
<1> QED
  BY <1>1, <1>5, <1>6 DEF Single

\* A consumer that waits for a block to be complete asks for one committed block
\* at a time.
OneCommittedBlock == OneAtATime /\ MaxRange = 1 /\ RequestUpTo = "committed"

\* on_block_req: the request is sent at once, with an empty cache.
LEMMA SingleRequest ==
    ASSUME OneCommittedBlock, InteractiveInv, Single,
           NEW s \in 1 .. MaxBlock, NEW e \in 2 .. MaxBlock + 1, Request(s, e)
    PROVE  Single'
<1>1. /\ e = s + 1 /\ s <= db.committed /\ s \in Nat /\ s >= 1
      /\ ~interactive_req_pending /\ undecoded = {} /\ rows = {}
  <2>1. /\ s < e /\ e - s <= 1 /\ e <= db.committed + 1
        /\ ~interactive_req_pending /\ undecoded = {} /\ rows = {}
    BY DEF Request, OneCommittedBlock, Limit
  <2>2. s \in Nat /\ s >= 1 /\ e \in Nat /\ db.committed \in Nat
    BY ScanFacts, AbiFacts DEF InteractiveInv
  <2> QED
    BY <2>1, <2>2
<1>2. stream = <<>>
  BY <1>1 DEF InteractiveInv, RequestsOk
<1>3. PICK queue, pending, req :
         /\ queue = Append(interactive_req_queue, req) /\ pending = interactive_req_pending
         /\ req = <<s, e>>
         /\ ProcessRequests(queue, pending, stream) /\ found' = CacheAfter(queue, pending)
         /\ UNCHANGED <<storeVars, at, undecoded, rows, output>>
  BY DEF Request
<1>4. queue = <<req>> /\ queue # <<>> /\ Head(queue) = req /\ Tail(queue) = <<>>
  BY <1>3 DEF Single
<1>5. Begins(queue, pending) /\ req[1] = s /\ req[2] = e
  BY <1>1, <1>3, <1>4 DEF Begins
<1>6. PICK blocks : blocks = <<>> \o [i \in 1 .. e - s |-> s + i - 1]
  OBVIOUS
<1>7. blocks # <<>> /\ Len(blocks) = 1 /\ blocks[1] = s
  <2>1. PICK b : b = [i \in 1 .. 1 |-> s + i - 1]
    OBVIOUS
  <2>2. b \in Seq(Nat) /\ Len(b) = 1 /\ b[1] = s
    BY <1>1, <2>1
  <2>3. e - s = 1 /\ [i \in 1 .. e - s |-> s + i - 1] = b
    BY <1>1, <2>1
  <2>4. <<>> \o b = b
    BY <2>2
  <2> QED
    BY <1>6, <2>2, <2>3, <2>4
<1>8. interactive_req_queue' = <<>> /\ stream' = blocks /\ found' = NothingFound
  BY <1>2, <1>3, <1>4, <1>5, <1>6 DEF ProcessRequests, CacheAfter
<1>9. SingleBlock(db', stream', found', undecoded')
  <2>1. s \in 1 .. db.committed
    BY <1>1, ScanFacts DEF InteractiveInv
  <2> QED
    BY <1>1, <1>3, <1>7, <1>8, <2>1 DEF SingleBlock, storeVars
<1>10. SingleDecoding(chain', db', found', at', undecoded', rows')
  BY <1>1, <1>3 DEF SingleDecoding
<1> QED
  BY <1>8, <1>9, <1>10 DEF Single

\* What is looked up at once for a committed block is of the chain, and nothing
\* that ever had an ABI is left out.
LEMMA LookedUpOk ==
    ASSUME ScanInv, NEW n \in 1 .. db.committed, NEW cache, NEW names \in SUBSET Accounts
    PROVE  LET f == LookedUp(cache, names, n)
           IN  /\ LookedOk(chain, Tables(db), f, n)
               /\ Covers(chain, names, DOMAIN f \cup DOMAIN cache, n)
<1>1. PICK f : f = LookedUp(cache, names, n)
  OBVIOUS
<1>2. n \in 1 .. Tables(db).head
  BY ScanFacts
<1>3. /\ DOMAIN f \subseteq names
      /\ DOMAIN f = {a \in names \ DOMAIN cache : HistoryRow(a, n) # {}}
      /\ \A a \in DOMAIN f : f[a] \in HistoryRow(a, n)
  BY <1>1, RowFound
<1>4. ASSUME NEW a \in Accounts, Had(chain, a, n)
      PROVE  /\ HistoryRow(a, n) # {}
             /\ \A g \in HistoryRow(a, n) : RowOk(chain, Tables(db), g, a, n)
  BY <1>2, <1>4, LookupRight DEF RowOk
<1>5. LookedOk(chain, Tables(db), f, n)
  BY <1>3, <1>4 DEF LookedOk
<1>6. Covers(chain, names, DOMAIN f \cup DOMAIN cache, n)
  BY <1>3, <1>4 DEF Covers
<1> QED
  BY <1>1, <1>5, <1>6

\* Reading rows that are still in the database.
LEMMA ReadFound ==
    ASSUME NEW n, NEW f, LookedOk(chain, Tables(db), f, n), NEW abis \in Read(f),
           NEW cache \in FoundType, FoundOk(chain, cache, n)
    PROVE  /\ FoundOk(chain, Imported(cache, abis), n)
           /\ DOMAIN Imported(cache, abis) = DOMAIN f \cup DOMAIN cache
<1>1. /\ abis \in [DOMAIN f -> Values]
      /\ \A a \in DOMAIN f : f[a] \in Tables(db).history => abis[a] = f[a].abi
  BY DEF Read
<1>2. PICK T \in SUBSET Accounts : cache \in [T -> Values]
  BY DEF FoundType
<1>3. PICK g : g = Imported(cache, abis)
  OBVIOUS
<1>4. g = [a \in T \cup DOMAIN f |-> IF a \in T THEN cache[a] ELSE abis[a]]
  BY <1>1, <1>2, <1>3 DEF Imported
<1>5. DOMAIN g = DOMAIN f \cup DOMAIN cache
  BY <1>2, <1>4
<1>6. ASSUME NEW a \in DOMAIN g, Had(chain, a, n) PROVE Usable(g[a]) = RightAbi(chain, a, n)
  <2>1. CASE a \in T
    BY <1>2, <1>4, <1>6, <2>1 DEF FoundOk
  <2>2. CASE a \notin T
    <3>1. a \in DOMAIN f /\ g[a] = abis[a]
      BY <1>2, <1>4, <1>5, <2>2
    <3>2. RowOk(chain, Tables(db), f[a], a, n)
      BY <1>6, <3>1 DEF LookedOk
    <3> QED
      BY <1>1, <3>1, <3>2 DEF RowOk
  <2> QED
    BY <2>1, <2>2
<1> QED
  BY <1>3, <1>5, <1>6 DEF FoundOk

\* receive_result with the only block of a request.
LEMMA SingleInteractiveBlock ==
    ASSUME InteractiveInv, Single, ReceiveInteractiveBlock
    PROVE  Single'
<1>1. /\ stream \in Seq(1 .. MaxBlock) /\ stream # <<>> /\ end_block_num \in Nat
      /\ RestOf(stream, end_block_num) /\ undecoded = {} /\ rows = {}
      /\ ScanInv /\ interactive_req_queue = <<>>
      /\ Len(stream) = 1 /\ stream[1] \in 1 .. db.committed /\ found = NothingFound
  BY AbiFacts DEF ReceiveInteractiveBlock, InteractiveInv, RequestsOk, DecodingOk, Single, SingleBlock
<1>2. PICK n, rest : n = Head(stream) /\ rest = Tail(stream)
  OBVIOUS
<1>3. n = stream[1] /\ rest = <<>>
  <2>1. PICK S : S = 1 .. MaxBlock /\ stream \in Seq(S)
    BY <1>1
  <2>2. stream # <<>> /\ Len(stream) = 1 /\ Head(stream) = stream[1]
    BY <1>1, <2>1, HeadOfSeq
  <2>3. Tail(stream) \in Seq(S) /\ Len(Tail(stream)) = 0
    BY <2>1, <2>2, HeadTailProperties
  <2>4. Tail(stream) = <<>>
    BY <2>3, EmptySeq
  <2> QED
    BY <1>2, <2>2, <2>4
<1>4. n \in 1 .. db.committed
  BY <1>1, <1>3
<1>5. PICK pending, cache : /\ pending = (interactive_req_pending /\ ~LastOfRequest(n))
                            /\ cache = CacheAfter(interactive_req_queue, pending)
  OBVIOUS
<1>6. ~Begins(interactive_req_queue, pending) /\ cache = NothingFound
  BY <1>1, <1>5 DEF Begins, CacheAfter
<1>7. /\ ProcessRequests(interactive_req_queue, pending, rest)
      /\ at' = n /\ undecoded' \in SUBSET Accounts \ {{}}
      /\ \E decoded \in SUBSET undecoded' :
            \E abis \in Read(LookedUp(cache, decoded, n)) : found' = Imported(cache, abis)
      /\ UNCHANGED <<storeVars, rows, output>>
  BY <1>2, <1>5 DEF ReceiveInteractiveBlock
<1>8. interactive_req_queue' = <<>> /\ stream' = <<>>
  BY <1>1, <1>3, <1>6, <1>7 DEF ProcessRequests
<1>9. PICK decoded, f, abis :
         /\ decoded \in SUBSET Accounts
         /\ f = LookedUp(cache, decoded, n) /\ abis \in Read(f)
         /\ found' = Imported(cache, abis)
  BY <1>7
<1>10. LookedOk(chain, Tables(db), f, n)
  BY <1>1, <1>4, <1>9, LookedUpOk
<1>11. FoundOk(chain, cache, n) /\ cache \in FoundType
  BY <1>6, NothingFoundType DEF FoundOk
<1>12. FoundOk(chain, found', n)
  BY <1>9, <1>10, <1>11, ReadFound
<1>13. SingleDecoding(chain', db', found', at', undecoded', rows')
  BY <1>1, <1>4, <1>7, <1>12 DEF SingleDecoding, storeVars, chainVars
<1> QED
  BY <1>8, <1>13 DEF Single, SingleBlock

\* The decoder looks its history rows up.
LEMMA SingleLookUp == ASSUME InteractiveInv, Single, LookUp PROVE Single'
<1>1. PICK f : f = LookedUp(found, undecoded, at)
  OBVIOUS
<1>2. undecoded # {} /\ rows' = {f}
      /\ UNCHANGED <<storeVars, requestVars, found, at, undecoded, output>>
  BY <1>1 DEF LookUp
<1>3. at \in 1 .. db.committed /\ FoundOk(chain, found, at)
  BY <1>2 DEF Single, SingleDecoding
<1>4. /\ LookedOk(chain, Tables(db), f, at)
      /\ Covers(chain, undecoded, DOMAIN f \cup DOMAIN found, at)
  BY <1>1, <1>3, LookedUpOk DEF InteractiveInv, DecodingOk
<1>5. SingleDecoding(chain', db', found', at', undecoded', rows')
  BY <1>2, <1>3, <1>4 DEF SingleDecoding, storeVars, chainVars
<1>6. SingleBlock(db', stream', found', undecoded')
  BY <1>2 DEF Single, SingleBlock, storeVars, chainVars, requestVars
<1> QED
  BY <1>2, <1>5, <1>6 DEF Single, requestVars

\* The decoding that the consumer gets, of block n of chain c.
OutputOk(c, out) == \A d \in out : Had(c, d.account, d.block) =>
                                      d.abi = RightAbi(c, d.account, d.block)

\* The decoder decodes with the ABIs of the chain.
LEMMA SingleDecode ==
    ASSUME InteractiveInv, Single, Decode
    PROVE  Single' /\ OutputOk(chain, output')
<1>1. PICK f, abis : f \in rows /\ abis \in Read(f) /\ found' = Imported(found, abis)
  BY DEF Decode
<1>2. /\ output' = {[account |-> a, block |-> at,
                     abi |-> IF a \in DOMAIN found' THEN Usable(found'[a]) ELSE NoAbi] :
                    a \in undecoded}
      /\ undecoded' = {} /\ rows' = {}
      /\ UNCHANGED <<storeVars, requestVars, at>>
  BY DEF Decode
<1>3. undecoded # {} /\ found \in FoundType
  BY <1>1 DEF InteractiveInv, DecodingOk
<1>4. /\ FoundOk(chain, found, at) /\ LookedOk(chain, Tables(db), f, at)
      /\ Covers(chain, undecoded, DOMAIN f \cup DOMAIN found, at)
  BY <1>1, <1>3 DEF Single, SingleDecoding
<1>5. FoundOk(chain, found', at) /\ DOMAIN found' = DOMAIN f \cup DOMAIN found
  BY <1>1, <1>3, <1>4, ReadFound
<1>6. OutputOk(chain, output')
  <2> SUFFICES ASSUME NEW d \in output', Had(chain, d.account, d.block)
               PROVE  d.abi = RightAbi(chain, d.account, d.block)
    BY DEF OutputOk
  <2>1. PICK a \in undecoded :
           /\ d.account = a /\ d.block = at
           /\ d.abi = IF a \in DOMAIN found' THEN Usable(found'[a]) ELSE NoAbi
    BY <1>2
  <2>2. a \in DOMAIN found'
    BY <1>4, <1>5, <2>1 DEF Covers
  <2> QED
    BY <1>5, <2>1, <2>2 DEF FoundOk
<1>7. SingleDecoding(chain', db', found', at', undecoded', rows')
  BY <1>2 DEF SingleDecoding
<1>8. stream = <<>>
  BY <1>3 DEF Single, SingleBlock
<1>9. SingleBlock(db', stream', found', undecoded')
  BY <1>2, <1>8 DEF SingleBlock, requestVars
<1> QED
  BY <1>2, <1>6, <1>7, <1>9 DEF Single, requestVars

\* When one committed block is requested at a time, every block served is decoded
\* with the ABI its contract had then, where it ever had one, whatever the
\* scanning process does in between (process_interactive_reqs,
\* get_contract_abi_ready).
THEOREM SingleBlocksDecoded == OneCommittedBlock => (Spec => DecodedLatest)
<1> SUFFICES ASSUME OneCommittedBlock PROVE Spec => DecodedLatest
  OBVIOUS
<1> DEFINE Served == \A d \in output' : HadAbi(d.account, d.block) =>
                        d.abi = Usable(Latest(ChangesOf(d.account, d.block)))
<1>1. Init => Single
  BY DEF Init, Single, SingleBlock, SingleDecoding
<1>2. InteractiveInv /\ Single /\ [Next]_vars => Single' /\ [Served]_output
  <2> SUFFICES ASSUME InteractiveInv, Single, [Next]_vars PROVE Single' /\ [Served]_output
    OBVIOUS
  <2>1. CASE StoreNext /\ UNCHANGED interactiveVars
    BY <2>1, SingleWhileScanning DEF interactiveVars
  <2>2. ASSUME NEW s \in 1 .. MaxBlock, NEW e \in 2 .. MaxBlock + 1, Request(s, e)
        PROVE  Single' /\ [Served]_output
    BY <2>2, SingleRequest DEF Request
  <2>3. CASE ReceiveInteractiveBlock
    BY <2>3, SingleInteractiveBlock DEF ReceiveInteractiveBlock
  <2>4. CASE LookUp
    BY <2>4, SingleLookUp DEF LookUp
  <2>5. CASE Decode
    <3>1. Single' /\ OutputOk(chain, output')
      BY <2>5, SingleDecode
    <3>2. \A a, n : ChangesOf(a, n) = ChainChanges(chain, a, n)
      BY DEF ChangesOf, ChainChanges
    <3> QED
      BY <3>1, <3>2 DEF OutputOk, HadAbi, Had, RightAbi
  <2>6. CASE UNCHANGED vars
    BY <2>6 DEF vars, storeVars, chainVars, interactiveVars, requestVars,
                Single, SingleBlock, SingleDecoding
  <2> QED
    BY <2>1, <2>2, <2>3, <2>4, <2>5, <2>6 DEF Next, InteractiveStep
<1> QED
  BY <1>1, <1>2, InteractiveInit, InteractiveStepInv, PTL DEF Spec, DecodedLatest

===============================================================================
