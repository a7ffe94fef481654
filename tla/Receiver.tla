------------------------------- MODULE Receiver -------------------------------
(***************************************************************************)
(* The receiver plugin in scan mode: it reads the state history block by   *)
(* block, keeps head and LIB in an undo database, publishes events to one  *)
(* exporter and commits what is irreversible and acknowledged.             *)
(*                                                                         *)
(* An action is one handler of the appbase queue: the handlers run one at  *)
(* a time on one thread, so a stop falls between two of them (after an     *)
(* abnormal end chainbase refuses the database).  All that a handler       *)
(* publishes for a block is one "block" event here, complete when the      *)
(* block's BLOCK_COMPLETED is published and incomplete when the handler    *)
(* threw before that.                                                      *)
(*                                                                         *)
(* Abstracted: slowdown_requested and the queue size (pauses, here the     *)
(* freedom not to read), block contents, ABIs, reports.                    *)
(***************************************************************************)
EXTENDS StateHistory, Chainbase, Sequences

CONSTANTS
    WillAck,           \* exporter_will_ack: the exporter called exporter_will_ack_blocks
    MaxUnconfirmed,    \* exporter_max_unconfirmed
    StartBlock,        \* the start-block the operator gives, 0 for genesis
    EndBlocks,         \* values of end-block the operator may start with
    IrreversibleOnly   \* irreversible-only

ASSUME ReceiverAssumption ==
    /\ WillAck \in BOOLEAN
    /\ MaxUnconfirmed \in Nat \ {0}
    /\ StartBlock \in 0 .. InitialLib + 1
    /\ EndBlocks \subseteq Nat
    /\ IrreversibleOnly \in BOOLEAN

VARIABLES
    db,                    \* the chainbase database (persistent)
    pc,                    \* state of the process and its connection
    head, head_id,         \* the block last received
    irreversible,
    forked_at_block,       \* block of the FORK whose acknowledgement is awaited, or 0
    exporter_acked_block,
    start_block_num, end_block_num,
    events                 \* published and not yet taken by the exporter

memory == <<head, head_id, irreversible, forked_at_block, exporter_acked_block,
            start_block_num, end_block_num>>
receiverVars == <<db, pc, memory, events>>
vars == <<shipVars, receiverVars>>

-------------------------------------------------------------------------------
(* The tables of the database: the state_object singleton (saved: it exists) *)
(* and the received_block rows.                                              *)

TableContents ==
    [saved : BOOLEAN, head : Nat, head_id : Versions, irreversible : Nat,
     received : SUBSET BlockIds]

EmptyTables ==
    [saved |-> FALSE, head |-> 0, head_id |-> 0, irreversible |-> 0, received |-> {}]

ForkEvent(n, reason) == [type |-> "fork", num |-> n, reason |-> reason]
BlockEvent(n, v, l)  == [type |-> "block", num |-> n, id |-> v, lib |-> l]
PartialEvent(n)      == [type |-> "partial", num |-> n]

Events ==
    [type : {"fork"}, num : Nat, reason : {"network", "restart", "resync"}]
    \cup [type : {"block"}, num : BlockNums, id : Versions, lib : Nat]
    \cup [type : {"partial"}, num : BlockNums]

ProcessStates ==
    {"down",        \* no process
     "connecting",  \* load_state done, blocks not yet requested
     "reading",     \* blocks requested, a read is outstanding
     "paused",      \* blocks requested, the pause timer is running
     "quitting",    \* aborted; a result already read may still be handled
     "closed"}      \* connection closed, the process lives on until it is stopped

Running == pc # "down"

TypeOK ==
    /\ ChainTypeOK
    /\ IsDatabase(db, TableContents)
    /\ pc \in ProcessStates
    /\ head \in Nat /\ head_id \in Versions /\ irreversible \in Nat
    /\ forked_at_block \in Nat /\ exporter_acked_block \in Nat
    /\ start_block_num \in Nat /\ end_block_num \in Nat
    /\ events \in Seq(Events)

Init ==
    /\ ChainInit
    /\ db = NewDatabase(EmptyTables)
    /\ pc = "down"
    /\ head = 0 /\ head_id = 0 /\ irreversible = 0
    /\ forked_at_block = 0 /\ exporter_acked_block = 0
    /\ start_block_num = 0 /\ end_block_num = 0
    /\ events = <<>>

-------------------------------------------------------------------------------
(* Starting: load_state.                                                     *)

\* Variants (here and below): the definition as a plausible mistake would leave it.
ResumeHead_NoGenesis(tables) ==
    IF tables.saved THEN tables.head ELSE StartBlock - 1

ResumeHead_AtIrreversible(tables) ==
    IF tables.saved THEN tables.irreversible ELSE IF StartBlock > 0 THEN StartBlock - 1 ELSE 0

ResumeHead(tables) ==
    IF tables.saved THEN tables.head
    ELSE IF StartBlock > 0 THEN StartBlock - 1 ELSE 0

StartEvents(tables, depth) ==
    LET n == ResumeHead(tables) + 1 IN
       (IF tables.saved THEN <<>> ELSE <<ForkEvent(n, "resync")>>)
    \o (IF depth > 0 THEN <<ForkEvent(n, "restart")>> ELSE <<>>)

Start(end) ==
    /\ pc = "down"
    /\ LET tables == Tables(UndoAll(db)) IN
       /\ ResumeHead(tables) < end
       /\ db' = UndoAll(db)
       /\ head' = ResumeHead(tables)
       /\ head_id' = tables.head_id
       /\ irreversible' = tables.irreversible
       /\ start_block_num' = IF tables.saved THEN 0 ELSE StartBlock
       /\ forked_at_block' = IF ~tables.saved \/ HasUndoSession(db)
                             THEN ResumeHead(tables) + 1 ELSE 0
       /\ exporter_acked_block' = IF WillAck THEN ResumeHead(tables) ELSE 0
       /\ events' = StartEvents(tables, UndoDepth(db))
    /\ end_block_num' = end
    /\ pc' = "connecting"
    /\ UNCHANGED shipVars

\* load_state throws after it has reverted the database: start-block given
\* although there is a saved state, or head at or past end-block.
StartRefused(startGiven, end) ==
    /\ pc = "down"
    /\ LET tables == Tables(UndoAll(db)) IN
       \/ startGiven > 0 /\ tables.saved
       \/ ResumeHead(tables) >= end
    /\ db' = UndoAll(db)
    /\ UNCHANGED <<shipVars, pc, memory, events>>

-------------------------------------------------------------------------------
(* Reading on or pausing, and the request for blocks once connected.         *)

CheckPause_OneEarly(h, forked, acked) ==
    \/ WillAck /\ forked > 0
    \/ WillAck /\ (acked > h \/ h - acked >= MaxUnconfirmed - 1)
    \/ h = end_block_num - 1

CheckPause(h, forked, acked) ==
    \/ WillAck /\ forked > 0
    \* h - acked in 32 bits: an acknowledgement above h makes it huge
    \/ WillAck /\ (acked > h \/ h - acked >= MaxUnconfirmed)
    \/ h = end_block_num - 1

EndReached(h, lastIrreversible, acked) ==
    /\ h = end_block_num - 1
    /\ lastIrreversible >= h
    /\ WillAck => acked = h

\* What continue_read leaves behind: an outstanding read, or the pause timer
\* (also when slowdown_requested or the queue is long), or the end.
ContinueRead(h, lastIrreversible, forked, acked) ==
    IF ~CheckPause(h, forked, acked) THEN {"reading", "paused"}
    ELSE IF EndReached(h, lastIrreversible, acked) THEN {"closed"}
    ELSE {"paused"}

CommitRevision_Acked(lastIrreversible, acked) ==
    IF WillAck THEN acked ELSE lastIrreversible

CommitRevision_Irreversible(lastIrreversible, acked) == lastIrreversible

CommitRevision(lastIrreversible, acked) ==
    IF WillAck /\ acked < lastIrreversible THEN acked ELSE lastIrreversible

PauseTimer ==
    /\ pc = "paused"
    /\ pc' \in ContinueRead(head, irreversible, forked_at_block, exporter_acked_block)
    /\ db' = IF pc' = "closed"
             THEN Commit(db, CommitRevision(irreversible, exporter_acked_block)) ELSE db
    /\ UNCHANGED <<shipVars, memory, events>>

Positions ==
    {p \in Tables(db).received : irreversible <= p[1] /\ p[1] <= head}

RequestBlocks ==
    /\ pc = "connecting"
    /\ OpenSession(head + 1, Positions)
    /\ pc' \in ContinueRead(head, irreversible, forked_at_block, exporter_acked_block)
    /\ UNCHANGED <<db, memory, events>>

-------------------------------------------------------------------------------
(* Receiving the block `next' of the session: receive_result.               *)

CanRead ==
    /\ pc \in {"reading", "quitting"}
    /\ next <= (IF IrreversibleOnly THEN lib ELSE tip)
    /\ next < end_block_num

PrevMatches == head + 1 = next /\ branch[head] = head_id

RevisionBehind == db.revision < next - 1

ForkDetected == next > lib /\ next <= head

Rejected ==
    \/ lib < irreversible
    \/ RevisionBehind /\ SetRevisionThrows(db)
    \/ next > lib /\ next > head /\ head > 0 /\ head > start_block_num /\ ~PrevMatches

\* The database and the acknowledged block after the checks and the rollback
\* of a fork, before the new block is stored.
AlignedDb == IF RevisionBehind THEN SetRevision(db, next - 1) ELSE db

PreparedDb_NoUndo == AlignedDb

PreparedDb == IF ForkDetected THEN UndoFrom(AlignedDb, next) ELSE AlignedDb

PreparedAck ==
    IF ForkDetected /\ WillAck /\ exporter_acked_block > next - 1
    THEN next - 1 ELSE exporter_acked_block

PreparedEvents_NoFork == events

PreparedEvents_OneLate ==
    IF ForkDetected THEN Append(events, ForkEvent(next + 1, "network")) ELSE events

PreparedEvents ==
    IF ForkDetected THEN Append(events, ForkEvent(next, "network")) ELSE events

\* receive_result throws in its checks, and catch_and_close closes the
\* connection.
RejectResult ==
    /\ CanRead
    /\ Rejected
    /\ db' = IF lib < irreversible \/ SetRevisionThrows(db) THEN db ELSE AlignedDb
    /\ pc' = "closed"
    /\ next' = next + 1
    /\ UNCHANGED <<chainVars, memory, events>>

AcceptResult ==
    /\ CanRead
    /\ ~Rejected
    /\ ForkDetected => UndoTerminates(AlignedDb, next) /\ PreparedDb.revision > 0
    /\ head' = next
    /\ head_id' = branch[next]
    /\ irreversible' = lib
    /\ forked_at_block' = IF ForkDetected THEN next ELSE forked_at_block
    /\ exporter_acked_block' = PreparedAck
    /\ next' = next + 1
    /\ UNCHANGED <<chainVars, start_block_num, end_block_num>>

\* The received_block rows after block `next': the block itself if it is not
\* irreversible, and then no row below the LIB.
ReceivedRows ==
    LET rows == Tables(PreparedDb).received IN
    IF next > lib
    THEN {p \in rows \cup {<<next, branch[next]>>} : p[1] >= lib}
    ELSE rows

\* block_index is unique: creating a second row for the same number throws.
RowExists ==
    next > lib /\ \E p \in Tables(PreparedDb).received : p[1] = next

SavedTables_OldHead ==
    [saved |-> TRUE, head |-> head, head_id |-> head_id, irreversible |-> lib,
     received |-> ReceivedRows]

SavedTables ==
    [saved |-> TRUE, head |-> next, head_id |-> branch[next], irreversible |-> lib,
     received |-> ReceivedRows]

StoreBlock ==
    /\ AcceptResult
    /\ ~RowExists
    /\ db' = Commit(PushRevision(PreparedDb, SavedTables), CommitRevision(lib, PreparedAck))

ReceiveBlock ==
    /\ StoreBlock
    /\ events' = Append(PreparedEvents, BlockEvent(next, branch[next], lib))
    /\ pc' \in IF pc = "quitting" THEN {"closed"}
              ELSE ContinueRead(next, lib, forked_at_block', PreparedAck)

\* The handler throws after the head has moved: a row that exists, deltas that
\* cannot be decoded, a full database.  The open undo session is reverted.
ReceiveBlockFails ==
    /\ AcceptResult
    /\ db' = PreparedDb
    /\ events' = Append(PreparedEvents, PartialEvent(next))
    /\ pc' = "closed"

\* The handler throws in receive_traces, after the block was stored.
ReceiveTracesFails ==
    /\ StoreBlock
    /\ events' = Append(PreparedEvents, PartialEvent(next))
    /\ pc' = "closed"

-------------------------------------------------------------------------------
(* Acknowledgements of the exporter, and the end of the process.             *)

\* abort_receiver: a read that is outstanding may have its result already.
Aborted == IF pc \in {"reading", "quitting"} THEN "quitting" ELSE "closed"

AckAccepted(n) ==
    IF forked_at_block > 0 THEN n <= forked_at_block - 1 ELSE n >= exporter_acked_block

AckTooLow(n) == forked_at_block = 0 /\ n < exporter_acked_block

AckEffect(n) ==
    /\ exporter_acked_block' = IF AckAccepted(n) THEN n ELSE exporter_acked_block
    /\ forked_at_block' = IF n = forked_at_block - 1 THEN 0 ELSE forked_at_block
    /\ pc' = IF AckTooLow(n) THEN Aborted ELSE pc

ack_block(n) ==
    /\ Running /\ WillAck
    /\ AckEffect(n)
    /\ UNCHANGED <<shipVars, db, head, head_id, irreversible, start_block_num,
                   end_block_num, events>>

\* The exporter takes the next event.
TakeEvent ==
    /\ Running
    /\ events # <<>>
    /\ events' = Tail(events)
    /\ UNCHANGED <<shipVars, db, pc, memory>>

\* abort_receiver from elsewhere: a websocket error, the exporter, a signal.
Abort ==
    /\ pc \in {"connecting", "reading", "paused"}
    /\ pc' = Aborted
    /\ UNCHANGED <<shipVars, db, memory, events>>

\* The process ends: what is in memory and in its queues is lost.
Stop ==
    /\ pc \in {"quitting", "closed"}
    /\ pc' = "down"
    /\ events' = <<>>
    /\ head' = 0 /\ head_id' = 0 /\ irreversible' = 0
    /\ forked_at_block' = 0 /\ exporter_acked_block' = 0
    /\ start_block_num' = 0 /\ end_block_num' = 0
    /\ UNCHANGED <<shipVars, db>>

-------------------------------------------------------------------------------
(* The receiver with a chain and an exporter that takes events and sends any  *)
(* acknowledgement at any time.                                               *)

SessionOpen == pc \in {"reading", "paused", "quitting"}

ChainStep ==
    /\ \/ ProduceBlock
       \/ \E f \in BlockNums : SwitchFork(f, SessionOpen)
       \/ AdvanceLib(IF SessionOpen THEN head ELSE 0)
    /\ UNCHANGED receiverVars

ReceiverStep ==
    \/ \E end \in EndBlocks : Start(end)
    \/ \E given \in {0, StartBlock}, end \in EndBlocks : StartRefused(given, end)
    \/ RequestBlocks
    \/ PauseTimer
    \/ RejectResult
    \/ ReceiveBlock
    \/ ReceiveBlockFails
    \/ ReceiveTracesFails
    \/ Abort
    \/ Stop

ExporterStep ==
    \/ TakeEvent
    \/ \E n \in 0 .. MaxBlock : ack_block(n)

Next == ChainStep \/ ReceiverStep \/ ExporterStep

Spec == Init /\ [][Next]_vars

-------------------------------------------------------------------------------
(* Properties.                                                               *)

\* What a restart goes back to is final: the committed tables are those of an
\* irreversible block of the chain, whatever the exporter acknowledges and
\* wherever forks fall (commit_db, load_state).
CommittedFinal ==
    LET tables == db.at[db.committed] IN
    tables.saved => /\ tables.head = db.committed
                    /\ tables.head <= final
                    /\ tables.head_id = branch[tables.head]

\* While blocks are read the database revision is the head block number, every
\* revision of the undo stack holds the state of the block with its number,
\* and those below the session's cursor are blocks of the chain: undoing to a
\* fork's first block leaves exactly the common ancestor (receive_result).
UndoStackAligned ==
    SessionOpen /\ Tables(db).saved =>
        /\ db.revision = head
        /\ \A r \in db.committed .. db.revision :
              db.at[r].saved => /\ db.at[r].head = r
                                /\ r < next => db.at[r].head_id = branch[r]

\* The undo loop of a fork ends above the committed revision and above zero
\* (the while loop and the check after it in receive_result).
RollbackReachable ==
    CanRead /\ ForkDetected /\ ~Rejected =>
        UndoTerminates(AlignedDb, next) /\ PreparedDb.revision > 0

\* A block that is accepted never has a received_block row already, which the
\* unique index would refuse, and a session is never opened on positions that
\* the chain has left (receive_result, request_blocks).
ReceivedRowsSound ==
    /\ CanRead /\ ~Rejected => ~RowExists
    /\ pc = "connecting" => \A p \in Positions : branch[p[1]] = p[2]

\* What the database has committed is never announced again, neither as a
\* block nor as a FORK: the exporter may have made it final (load_state,
\* request_blocks, receive_result).
CommittedNotResent ==
    [][db.at[db.committed].saved =>
          \A i \in DOMAIN events' : i > Len(events) => events'[i].num > db.committed]_vars
===============================================================================
