--------------------------- MODULE InteractiveMode ---------------------------
(***************************************************************************)
(* A second receiver process in interactive mode: it serves requests for   *)
(* ranges of blocks and decodes them with the ABI history in the database  *)
(* that the scanning process of AbiStore writes at the same time.          *)
(*                                                                         *)
(* Every access to the shared database holds a mutex (ProcessStart), so it *)
(* is one step, but the ABI of a row is read after the mutex was released. *)
(* nodeos streams the blocks of its present chain.  Left out: the receiver *)
(* pausing (FlowControl) and the interactive process stopping.             *)
(*                                                                         *)
(* Which blocks a consumer asks for, and when, is up to it: on_block_req   *)
(* only compares them with the head.  OneAtATime and RequestUpTo are       *)
(* assumptions on it.                                                      *)
(***************************************************************************)
EXTENDS AbiStore, Functions

CONSTANTS
    MaxRange,   \* bound: blocks of one request
    MaxQueue,   \* bound: requests waiting behind the one that is pending
    OneAtATime, \* TRUE: the consumer waits for the last BLOCK_COMPLETED of a
                \* request; chronicle-ws-interactive.pl sends all of them at once
    RequestUpTo \* blocks the consumer asks for: up to the "head" of the scanning
                \* receiver, as that script may, the "irreversible" block, the last
                \* one that the documentation offers, or the "committed" one

ASSUME InteractiveAssumption ==
    /\ {MaxRange, MaxQueue} \subseteq Nat
    /\ OneAtATime \in BOOLEAN
    /\ RequestUpTo \in {"head", "irreversible", "committed"}

VARIABLES
    interactive_req_queue,
    interactive_req_pending,
    end_block_num,  \* of the last request sent to nodeos
    stream,         \* the blocks that nodeos is about to send
    found,          \* contract_abi_imported: account |-> the row's binary
    at,             \* head, the block being served
    undecoded,      \* the accounts of that block whose events wait for the decoder
    rows,           \* the history rows looked up for them, as a function, {}: not yet
    output          \* the last block's decoding, a set of [account, block, abi]

requestVars == <<interactive_req_queue, interactive_req_pending, end_block_num, stream>>
interactiveVars == <<requestVars, found, at, undecoded, rows, output>>
vars == <<storeVars, interactiveVars>>

Requests == {req \in (1 .. MaxBlock) \X (2 .. MaxBlock + 1) : req[1] < req[2]}
NothingFound == [a \in {} |-> NoAbi]

InteractiveTypeOK ==
    /\ AbiTypeOK
    /\ interactive_req_queue \in Seq(Requests)
    /\ interactive_req_pending \in BOOLEAN
    /\ end_block_num \in 0 .. MaxBlock + 1
    /\ stream \in Seq(1 .. MaxBlock)
    /\ interactive_req_pending <=> stream # <<>>
    /\ found \in UNION {[S -> Values] : S \in SUBSET Accounts}
    /\ at \in 0 .. MaxBlock /\ undecoded \subseteq Accounts
    /\ \A f \in rows : DOMAIN f \subseteq Accounts /\ Range(f) \subseteq HistoryRows
    /\ output \subseteq [account : Accounts, block : 1 .. MaxBlock, abi : Abis \cup {NoAbi}]

Init ==
    /\ StoreInit
    /\ interactive_req_queue = <<>> /\ interactive_req_pending = FALSE
    /\ end_block_num = 0 /\ stream = <<>>
    /\ found = NothingFound /\ at = 0 /\ undecoded = {} /\ output = {}
    /\ rows = {}

-------------------------------------------------------------------------------
(* Requests.                                                                 *)

\* process_interactive_reqs: the next request is sent if none is pending, and
\* the ABI cache starts empty.
Begins(queue, pending) == ~pending /\ queue # <<>>

ProcessRequests(queue, pending, rest) ==
    IF Begins(queue, pending)
    THEN LET s == Head(queue)[1]
             e == Head(queue)[2]
         IN  /\ interactive_req_queue' = Tail(queue)
             /\ interactive_req_pending' = TRUE
             /\ end_block_num' = e
             /\ stream' = rest \o [i \in 1 .. e - s |-> s + i - 1]
    ELSE /\ interactive_req_queue' = queue
         /\ interactive_req_pending' = pending
         /\ stream' = rest
         /\ UNCHANGED end_block_num

CacheAfter(queue, pending) == IF Begins(queue, pending) THEN NothingFound ELSE found

Limit == CASE RequestUpTo = "head" -> head
           [] RequestUpTo = "irreversible" -> Tables(db).irreversible
           [] RequestUpTo = "committed" -> db.committed

\* on_block_req: both ends are compared with the head of the scanning receiver.
Request(s, e) ==
    /\ s < e /\ e - s <= MaxRange /\ e <= Limit + 1
    /\ IF OneAtATime THEN ~interactive_req_pending /\ undecoded = {}
       ELSE Len(interactive_req_queue) < MaxQueue
    /\ rows = {}
    /\ head > 0 /\ s <= head /\ e <= head
    /\ LET queue == Append(interactive_req_queue, <<s, e>>)
       IN  /\ ProcessRequests(queue, interactive_req_pending, stream)
           /\ found' = CacheAfter(queue, interactive_req_pending)
    /\ UNCHANGED <<storeVars, at, undecoded, rows, output>>

-------------------------------------------------------------------------------
(* Decoding with the history.                                                *)

\* The index by_name_and_block_rev: names ascending, blocks descending.
Before(g, h) == g.account < h.account \/ (g.account = h.account /\ g.block > h.block)

AtOrAfter_Below(a, n, h) == h.account > a \/ (h.account = a /\ h.block < n)
AtOrAfter(a, n, h) == h.account > a \/ (h.account = a /\ h.block <= n)

\* lower_bound(account, head): the first row not before (a, n), which is a row
\* of the next account when `a' has none.
HistoryRow(a, n) ==
    LET later == {h \in Tables(db).history : AtOrAfter(a, n, h)}
    IN  {g \in later : \A h \in later \ {g} : Before(g, h)}

\* get_contract_abi_ready: the rows of the decoded accounts of block n that are
\* not in the cache.
LookedUp(cache, decoded, n) ==
    [a \in {a \in decoded \ DOMAIN cache : HistoryRow(a, n) # {}} |->
        CHOOSE h \in HistoryRow(a, n) : TRUE]

\* What is read from a row that the scanning process has removed since is anything.
Read(found_rows) ==
    {abis \in [DOMAIN found_rows -> Values] :
        \A a \in DOMAIN abis : found_rows[a] \in Tables(db).history => abis[a] = found_rows[a].abi}

\* Importing ABIs adds their accounts to the cache.
Imported(cache, abis) ==
    [a \in DOMAIN cache \cup DOMAIN abis |-> IF a \in DOMAIN cache THEN cache[a] ELSE abis[a]]

LastOfRequest_Late(n) == n = end_block_num
LastOfRequest(n) == n = end_block_num - 1

\* receive_result: the end of a request is noticed, and the next one begins,
\* before the last block is handled.  Table rows look their ABI up at once.
ReceiveInteractiveBlock ==
    /\ stream # <<>> /\ undecoded = {}
    /\ Head(stream) <= Len(chain)
    /\ LET n       == Head(stream)
           pending == interactive_req_pending /\ ~LastOfRequest(n)
           cache   == CacheAfter(interactive_req_queue, pending)
       IN  /\ ProcessRequests(interactive_req_queue, pending, Tail(stream))
           /\ at' = n
           /\ undecoded' \in SUBSET Accounts \ {{}}
           /\ \E decoded \in SUBSET undecoded' :
                 \E abis \in Read(LookedUp(cache, decoded, n)) : found' = Imported(cache, abis)
    /\ UNCHANGED <<storeVars, rows, output>>

LookUp ==
    /\ undecoded # {} /\ rows = {}
    /\ rows' = {LookedUp(found, undecoded, at)}
    /\ UNCHANGED <<storeVars, requestVars, found, at, undecoded, output>>

Decode ==
    /\ \E f \in rows : \E abis \in Read(f) : found' = Imported(found, abis)
    /\ output' = {[account |-> a, block |-> at,
                   abi |-> IF a \in DOMAIN found' THEN Usable(found'[a]) ELSE NoAbi] :
                  a \in undecoded}
    /\ undecoded' = {} /\ rows' = {}
    /\ UNCHANGED <<storeVars, requestVars, at>>

InteractiveStep ==
    \/ \E s \in 1 .. MaxBlock, e \in 2 .. MaxBlock + 1 : Request(s, e)
    \/ ReceiveInteractiveBlock
    \/ LookUp
    \/ Decode

Next ==
    \/ StoreNext /\ UNCHANGED interactiveVars
    \/ InteractiveStep

Spec == Init /\ [][Next]_vars

-------------------------------------------------------------------------------
(* Properties.                                                               *)

HadAbi(a, n) == \E c \in ChangesOf(a, n) : c[2] # NoAbi

\* A block served for a request is decoded with the ABI that its contract had at
\* the end of that block, where the contract ever had one, although the scanning
\* process changes the database in between (process_interactive_reqs,
\* receive_result, get_contract_abi_ready).  An ABI set in the block itself counts,
\* as it does in scan mode, where the deltas of a block come before its traces.
DecodedLatest ==
    [][\A d \in output' : HadAbi(d.account, d.block) =>
          d.abi = Usable(Latest(ChangesOf(d.account, d.block)))]_output

\* The same with either reading of "below the requested block": a change in the
\* block itself may count or not, an earlier one must (process_interactive_reqs,
\* get_contract_abi_ready).
DecodedFromBelow ==
    [][\A d \in output' : HadAbi(d.account, d.block - 1) =>
          d.abi \in {Usable(Latest(ChangesOf(d.account, n))) : n \in {d.block - 1, d.block}}]_output

\* Data of a contract that never had an ABI is not decoded
\* (get_contract_abi_ready).
DecodedOnlyWithOwnAbi ==
    [][\A d \in output' : ~HadAbi(d.account, d.block) => d.abi = NoAbi]_output

===============================================================================
