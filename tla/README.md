# A TLA+ development of fio.chronicle

`chronicle-receiver` reads the state history of a FIO (Antelope) node block by
block, decodes it and hands it to one exporter.  It promises its consumer a
stream that can be stored: forks are announced, nothing is lost over a restart,
and nothing is committed before it is both irreversible and acknowledged.  The
modules in this directory say what the code does to keep that promise; TLC
checks them on small instances, and TLAPS proves the receiver, the pipeline to
its consumer, the flow control, the contract ABIs with their history, snapshots and
interactive mode, and the start of the processes, for every size of chain, number of
forks and processes, set of contracts, and set of options.

Paths below are relative to `src/`; `receiver` is
`chronicle-receiver/receiver_plugin.cpp`, `exp_ws` and `exp_relic` are the two
exporters next to it.

## 1. The system

### How it runs

Every plugin lives on one appbase thread with one priority queue: exporters and
their acknowledgements 60, the decoder's channels 55, the receiver's channels 50,
reads of the state history and the timers of the receiver 40.  Handlers
never interleave; what interleaves is their order in the queue, the network, the
consumer, a second process in interactive mode on the same database, and the end
of the process between two handlers.

| Component | State it keeps | Operations | Talks to |
|---|---|---|---|
| Receiver, scan mode (`receiver` 254-2030) | `state` and `received_block` tables in chainbase; in memory `head`, `head_id`, `irreversible`, `forked_at_block`, `exporter_acked_block`, `start_block_num`, `end_block_num`, the connection | start, load_state, request_blocks, receive_result, save_state, commit_db, check_pause, ack_block, abort, close | nodeos (request with have_positions, one result per block), channels to exporter and decoder, direct calls of the exporter |
| State database (chainbase, external) | tables, a stack of revisions | push, undo, commit, set_revision | receiver |
| nodeos (external) | chain, LIB, cursor of the session | blocks, forks | receiver |
| Flow control (`receiver` 529-606, `exp_ws` 274-335, 461-470) | `pause_time_msec`, `slowdown_requested`, `async_queue`, `stale_check_last_head` | check_pause, check_stale_head, async_send_events, async_read_acks | receiver, exporter, consumer |
| Contract ABIs (`receiver` 890-1205) | `contract_abi`, `contract_abi_hist` tables, `contract_abi_ctxt` | save, clear, history, get_contract_abi_ready | receiver, decoder |
| Interactive mode (`receiver` 651-700, 734-742, 1140-1205) | request queue, pending flag, cached history rows | requests, serving, decoding | the shared database, nodeos, consumer |
| Trace filters (`receiver` 1212-1285) | option sets | receive_traces | channels |
| Websocket exporter (`exp_ws`) | queue and its marks | events, writes, acknowledgements | consumer |
| Relic exporter (`exp_relic`) | queue, lists of removed rows, burnt addresses, a flag | one handler per message, SQL statements, acknowledgements | PostgreSQL (FIO.Relic) |
| Decoder (`decoder_plugin.cpp`) | none of its own | one JSON event per event | receiver's ABI context |
| Snapshots (`receiver` 1356-1660, `chronicle_portable_state.hpp`) | a file | write_snapshot, read_snapshot | database |
| Start of the process (`main.cpp`, `receiver` 1590-1670, 1840-1905) | `lock.bin` with a mutex, the database file, the plugins not yet started, `dependent_plugins` | plugin_initialize in five modes, plugin_startup, start_after_dependencies | the other process on the same directory, exporter, decoder |

### What is hard about it, and what must hold

*Receiver.*  Four numbers have to agree although they move at different times:
the number of the block, the database revision, what the consumer has stored and
what nodeos calls irreversible.  A fork undoes revisions in a loop that would
never end on an empty stack; a restart undoes all of them; acknowledgements come
between blocks and may answer something older.  Correct means: committed state is
final (`CommittedFinal`), revisions are block numbers (`UndoStackAligned`), every
rollback ends where it should (`RollbackReachable`), a block number has one
received row (`ReceivedRowsSound`), nothing committed is published again
(`CommittedNotResent`).

*The pipeline.*  The receiver's branch and what the consumer stored are joined by
a queue in each direction and by a database that outlives both.  Correct means:
stored blocks plus the events in flight are the receiver's branch
(`StreamMatchesDb`), nothing committed is missing at the consumer
(`NoLostBlocks`), the consumer sees a chain that grows and is cut as announced
(`ExportSpec`).

*Flow control.*  Two reasons to pause and two parties that wait for each other.
Correct means: no more blocks wait in the exporter than the window allows
(`WindowHolds`), no pause lasts (`ReadsOn`, `SlowdownEnds`), the end block stops
the receiver once it is acknowledged (`StopsAtEnd`) and a nodeos that falls silent
is given up (`SilenceEnds`).

*ABIs and interactive mode.*  A cache over a table that forks roll back, and a
second process that reads the history of that table while it changes.  Correct
means: decoding uses the ABI the chain had (`ScanUsesLatest`,
`HistoryMatchesChain`, `DecodedLatest`, `DecodedFromBelow`,
`DecodedOnlyWithOwnAbi`).

*Relic exporter.*  A block is dozens of SQL statements, none of them in one
transaction with another, and what a block burns is known only at its end.
Correct means: no row twice and none of a fork (`RowsOnce`), whole blocks
(`RowsFollowReceiver`), complete up to the committed one (`CommittedComplete`),
and in the end everything (`DatabaseCatchesUp`).

*Trace filters.*  The verdict on a trace of several actions
(`BlacklistAbsolute`).

*Snapshots.*  Saving and restoring are runs of their own between two scans, over a
database that has an undo stack and a file that has none.  Correct means: a
snapshot holds final blocks only (`SnapshotIsFinal`), a restored history is the
chain's (`HistoryAfterRestore`), and the consumer is told of every block that is
taken back (`BlocksFollow`).

*The start.*  Processes of the same program share a database and a mutex in a file
that the first of them creates, and within each the order of plugins is the order
of the options.  Correct means: one process at a time touches the database
(`MutualExclusion`), the receiver publishes nothing before its exporter and decoder
listen (`ReadyBeforeEvents`), who starts gets to run (`StartsOrEnds`) and who waits
for the mutex gets it (`WaitersServed`).

`PROJECT.json` lists the hazards line by line with the properties that would show
them go wrong.

## 2. The modules

| Module | Models | Composes |
|---|---|---|
| `StateHistory` | the chain (blocks, forks, LIB) and the cursor of a state history session; external | |
| `Chainbase` | the undo database as a record `committed`, `revision`, `at`; external | |
| `Receiver` | the receiver in scan mode | `StateHistory`, `Chainbase` |
| `BlockExport` | abstract: what a consumer that stores blocks is promised | |
| `Chronicle` | receiver, event queue, consumer, acknowledgements, restarts | `Receiver`; implements `BlockExport` |
| `RelicExporter` | receiver with the relic exporter and its database | `Receiver` |
| `FlowControl` | pauses, event queue, queue marks, end block, stale timer, the test consumer | |
| `AbiStore` | ABI tables, history, cache in scan mode | `Chainbase` |
| `Snapshot` | saving and restoring the state between scans | `AbiStore` |
| `InteractiveMode` | an interactive process beside a scanning one | `AbiStore` |
| `TraceFilter` | the loop of receive_traces | |
| `ProcessStart` | processes, `lock.bin`, opening the database, plugins and their dependencies | |
| `ChainbaseProofs`, `ReceiverProofs`, `ChronicleProofs`, `FlowControlProofs`, `ProcessStartProofs`, `AbiProofs`, `InteractiveProofs`, `RelicProofs` | lemmas and theorems | |
| `MC*` | instances: contents, symmetry, queue bounds | |

### State and actions against the code

A block is its number and the *version* of the chain it was produced on; a
version changes at every fork, so number and version name a block and its
ancestors as a block id does.  All a handler publishes for one block is one
`block` event (from BLOCK to BLOCK_COMPLETED), or a `partial` one when the
handler threw before the end.

`Receiver`:

| Action | Code |
|---|---|
| `Start`, `StartRefused` | start, revert_uncommitted_revisions, load_state; the refusals of start-block and end-block (399-470) |
| `RequestBlocks` | request_blocks with have_positions and the start position (622-656) |
| `ReceiveBlock` | receive_result for a block that is accepted: checks, fork, undo loop, FORK event, received_block rows, save_state, commit_db, receive_block, and the continue_read that follows (713-911) |
| `RejectResult` | a result that does not link to the head (783) |
| `ReceiveBlockFails`, `ReceiveTracesFails` | a handler throws before (820) or after (826) the block is stored |
| `PauseTimer` | the timer of a pause (546) |
| `ack_block` | acknowledgements (1907-1938) |
| `Abort`, `Stop` | abort_receiver and close, from anywhere, also between a read and its answer |
| `TakeEvent` | the exporter takes an event out of its queue |

`ReceiveBlock` is one action because the handler is one; `AlignedDb`,
`PreparedDb`, `PreparedAck`, `PreparedEvents`, `StoreBlock`, `SavedTables`,
`CommitRevision` are its steps, in the order of the code.

`Chronicle` adds the consumer of `docs/overview.md` and
`testing/chronicle-ws-dumper.pl`: it stores blocks, cuts at FORK and acknowledges
the block below, and acknowledges stored blocks in ascending order, all of them
(`AckPolicy = "processed"`) or those the last BLOCK_COMPLETED called irreversible
(`"irreversible"`).  `ProcessEnds` ends the receiver, loses what was in flight
both ways and keeps what is persistent.

`RelicExporter` handles one message at a time, before the receiver reads on
(priority 60 against 40), as the code does.  `rows[n]` is the list of statements
done for block `n`, each with the version of the block; a statement is the SQL
function and the object it is about.  `RelicActions` and `TokenActions` are the
branches of the long `if` over action names, grouped as the code groups them;
`ActionStatements` is the condition on ordinals around them
(a transaction's own actions, `instraces` for the others).  `StatementFails` stops
after any statement of any message: terminalerror, then the handler of the
exception.  A public key is "none", the actor's "own" or of an "other" account,
which decides on the account statements.  `KnownNames` are the names for which
upddomainburnt and updhandleburnt return 1; only their activity is inserted (441, 536).

`FlowControl`'s queue holds block numbers (BLOCK_COMPLETED), other messages and
RCVR_PAUSE.

| Action | Code |
|---|---|
| `ReceiveBlock` | a block's messages enter the exporter's queue, then `ContinueRead`: continue_read with check_pause, the pause announced to the exporter, or the end (529-587); the window is a variable, chosen at the start |
| `PauseTimer` | the timer of a pause calls continue_read again (562-584), whatever the exporter's queue holds: each time it adds a RCVR_PAUSE to it |
| `StaleTimer`, `FallSilent` | check_stale_head (589-606), and a nodeos that keeps the connection and sends nothing |
| `SendTimer`, `WriteDone` | async_send_events from its timer and from a finished write, with the two marks (`exp_ws` 309-346) |
| `AckArrives` | async_read_acks and ack_block (`exp_ws` 253-272) |
| `Consume`, part of `WriteDone` | the consumer: an acknowledgement every `AckEvery` blocks and at every pause (`testing/chronicle-ws-dumper.pl` 80-122) |

`AbiStore`'s state is the two tables and the cache; an ABI that abieos refuses is
`BadAbi`.  `Snapshot` adds `SaveSnapshot` (write_snapshot: the revert of the live
database at 1361, the rows that go to the file) and `RestoreSnapshot`
(read_snapshot into a new database).  `InteractiveMode` adds the request queue, the
stream of blocks and `found`, the cached rows; `ReceiveInteractiveBlock`, `LookUp`
and `Decode` are steps of their own, because the row that `LookUp` finds under the
mutex is read by `Decode` after the mutex was released (1165).  In `TraceFilter` an
action is the outcome of the three tests on it.

`ProcessStart` runs any number of processes from `Launch` to `Exit` or `Kill`.
`LockFile` is the creation of `lock.bin` in its four steps (1635-1655), `Lock`,
`OpenDatabase` and `Unlock` the critical sections, `CopyRows` the rows of a snapshot,
which are read or written outside of any (a process killed meanwhile leaves the database
dirty), `StartPlugin` and
`DependencyTimer` the order of plugins that appbase gives and
start_after_dependencies waits for; `Handle` is any later handler that takes the
mutex, `Clean` the operator who removes the directory after a dirty end.

## 3. What is checked

Bounds are constants in the `.cfg` files.  `MaxBlock`, `MaxForks`, `MaxStops`,
`MaxAcks`, `MaxChanges`, `MaxRange`, `MaxQueue`, `MaxActions`,
`ExtraMessages` bound the model only, and so do `Accounts`, `Abis` and `Procs`.
`MaxQueued` is the length of the exporter's queue up to which the pause timer adds to
it; it has to be above the queue's marks (below), or it would hide what the timer does.
`MaxUnacks` and `EndBlocks` are sets, of which the operator chooses one;
`AckEvery` and `AckLags` are the consumer's; the rest are options of the program.

| Run | Instance | Shows |
|---|---|---|
| `receiver_anyack` | 4 blocks, 2 forks, from genesis, end-block 3 or none, exporter acknowledges any number at any time, any number of restarts | the six properties of the receiver: they do not depend on a well-behaved exporter |
| `chronicle_irrev` | 4 blocks, 1 fork, 2 stops, end-block 3 or none, consumer acknowledges irreversible blocks, everything asynchronous | `StreamMatchesDb`, `NoLostBlocks`, and that the pipeline implements `BlockExport` |
| `relic_live` | 4 blocks, 1 fork, 2 stops, `max-unack` 2, burnt names of which the database knows one | the relic database: `RowsOnce`, `RowsFollowReceiver`, `CommittedComplete`, `DatabaseCatchesUp` |
| `flowcontrol_live` | 4 blocks, windows 1 and 2, queue limit 4 (marks 3 and 4), pauses added up to 5 messages, event queue 1, end-block 4 or beyond the chain, consumer that lags by 0 or 1 and keeps up | `WindowHolds`, `ReadsOn`, `SlowdownEnds`, `StopsAtEnd`, `SilenceEnds` |
| `snapshot_restore` | 2 accounts, 1 ABI and a refused one, 3 blocks, 1 change in a block, 1 fork, 2 restarts, saves or restores | `ScanUsesLatest` (also of every plain scan), `SnapshotIsFinal`, `HistoryAfterRestore` |
| `interactivemode_single` | 3 blocks, 2 ABIs, 1 fork, 1 restart, requests of one block of the committed part | `HistoryMatchesChain`, and `DecodedLatest` beside forks and restarts of the scanning process |
| `processstart_lock` | 2 processes in any modes, any order of plugins, ends and kills anywhere | `MutualExclusion`, `ReadyBeforeEvents`, `StartsOrEnds`, `WaitersServed` |
| `chronicle_staleack` | consumer acknowledges every stored block | violation, finding 1 |
| `snapshot_lostfork` | a snapshot saved or restored between two scans | violation, finding 2 |
| `interactivemode_range` | requests of up to three blocks | violation of `DecodedFromBelow`, finding 3 |
| `interactivemode_noabi` | a contract without ABI next to one with | violation, finding 4 |
| `tracefilter_blacklist` | traces of up to 3 actions | violation, finding 5 |

*Why the bounds are enough.*  Four blocks over an initial LIB of 1 leave room for a
committed block, a fork with two blocks to undo, and a block on top; two forks let
a fork happen while the acknowledgement of another is awaited, and a fork of a
fork; two stops let a restart meet what an earlier restart left.  A window of 2 or
3 is closed and opened several times over four blocks.  Two accounts are the
least for which a lower bound in the history can find another account's row, three
blocks let an ABI be set, removed and set again, with a fork or a restore in between;
that a block has several changes is left to `AbiProofs`, which is about any number.
The content of blocks
in `MCRelicExporter` has a domain burnt by burnexpired, a domain removed in a block
without burnexpired, and a block where burnexpired and burnaddress meet on the
handles of one list.  Four blocks and a queue limit of 4 let a slowdown begin and end
within the chain, with the window closed or open, an event queue limit of 1 is passed by
every block that has a message more, and the end block 4 is reached with each.  Pauses are
added up to one message above the high mark, so that the timer can hold the queue at either
mark and start a slowdown by itself; with `MaxQueued` 6 (and `MaxAcks` 1) the properties hold
too, and without `KeepsUp` they fail.  Two
processes are the least for a mutex, and each of them may be the third, fourth, ... one
that starts.

*Fairness.*  Only liveness uses it.  appbase runs every queued handler and every
timer that is not cancelled (weak fairness of the receiver's, the exporter's and
the timers' steps); the node goes on producing its LIB and sends what it has
(weak fairness of `ReceiveBlock` and of the LIB's step); the consumer reads its
socket, and in the end faster than the pause timer ticks (`KeepsUp`); and systemd starts a receiver that ended
(`systemd/chronicle_receiver@.service`: weak fairness of `Start` and of the end of
a process that aborts).  In `ProcessStart` a process that is not killed runs on (weak
fairness of `Work`), and the mutex is given to one that asks for it again and again
(strong fairness of `Lock`: between two sections of another process lies its reading
of the next block).  `StaleTimer` fires for ever (weak fairness); that nodeos falls
silent is a step without fairness.  Nothing is assumed of forks, failures and aborts, which
are only bounded in number.  `DatabaseCatchesUp` is about the chain after its last
bounded event, which is where "eventually" can be judged.

*Deadlock* is checked for `receiver_anyack`, where the exporter can always
acknowledge, and for `processstart_lock`, where a process can always be started, killed
or cleaned up after; the other models end when blocks, forks and stops are used up.

### Assumptions that a run makes explicit

- `PromptShip`: nodeos sends the first block of a fork before the LIB passes it.
  FALSE violates `StreamMatchesDb` in `chronicle_irrev` (section 6).  `AbiStore` has no
  LIB of its own to disagree and assumes it in `ReceiveFork`.
- `ConsumerKeepsUp`: from some moment on the consumer takes at least two messages, or all
  there are, between two ticks of the pause timer (`KeepsUp`).  It is about the speed of
  the consumer and nothing in the code ensures it: FALSE violates `SlowdownEnds`,
  `ReadsOn` and `SilenceEnds` (finding 6).
- `LosesForks`: with FALSE, failures after which the next start owes the consumer
  a FORK that it will not announce do not happen.  TRUE violates `RowsFollowReceiver`
  and `RowsOnce` in `relic_live` and `ExportSpec` in `chronicle_irrev` (section 6).
- `AckPolicy`: "processed" is finding 1.
- `OneAtATime`: the interactive consumer waits for its answers.  FALSE violates
  `DecodedLatest` (section 6).  It and the next one are assumptions on the consumer that
  neither the receiver nor the repository's client enforces:
  `testing/chronicle-ws-interactive.pl` sends all its requests at once, for any blocks.
- `RequestUpTo`: "committed", the blocks that no restart of the scanning process takes
  out of the database.  "irreversible" and "head" violate `DecodedLatest` (section 6).
- `FirstStartAlone`: the first process has created `lock.bin` before another one
  starts.  FALSE violates `MutualExclusion` (section 6).
- `RelicAnswers`: the relic database can be reached at the start.  FALSE violates
  `ReadyBeforeEvents` (section 6).

## 4. Findings

1. *An old acknowledgement is taken for the answer to a fork* (`receiver` 1919).
   ack_block waits for "fork-1 acknowledged", but cannot tell it from one sent
   before FORK arrived.  After it, acknowledgements of the old branch commit blocks
   of the new one which the consumer never stored (`NoLostBlocks`).
2. *A snapshot loses the FORK that the consumer is owed* (`receiver` 1361).
   write_snapshot undoes the uncommitted blocks of the live database in a process
   that exports nothing; the next scan has nothing left to undo, publishes no FORK,
   and sends blocks that the consumer holds.  So does a scan on a restored snapshot
   (`BlocksFollow`).
3. *Interactive requests of several blocks are decoded with the first block's ABI*
   (`receiver` 1152): the cache is emptied between requests, not between blocks.
   With a change two blocks back the answer is wrong under either reading of "below"
   (`DecodedFromBelow`; see 7).
4. *The history lookup can answer with another contract's ABI* (`receiver` 1161):
   lower_bound ends at the next name's rows and the name is not compared
   (`DecodedOnlyWithOwnAbi`).
5. *The blacklist is not absolute* (`receiver` 1231): an included action ends the
   loop before a blacklisted one is seen (`BlacklistAbsolute`).
6. *Announcing a pause can prolong it* (`receiver` 572).  Each tick of the pause timer
   puts a RCVR_PAUSE into the queue whose length keeps the receiver paused.  A consumer
   that takes one message per tick (50 to 500 ms) holds the queue at the low mark for
   ever and is sent no block; behind a slower one the queue grows.  The consumer does
   not work "at its own pace" (`docs/overview.md:30-32`).  `flowcontrol_live` passes under
   `KeepsUp`; with `ConsumerKeepsUp = FALSE` TLC shows the lasso for `SlowdownEnds`.
7. *An ABI that is set in the requested block is used for it* (`receiver` 1159), while
   `docs/overview.md:85-87` says the ABI is taken from a block below it.  `DecodedLatest`,
   which passes, states what the code does: the latest change up to and including the
   block; the reading of the document is its mutant.

The first five are runs; 6 and 7 name the passing run whose assumption or reading they are
about.  The quotations are in `PROJECT.json`.

## 5. What is proved

`ReceiverProofs` proves, for every `MaxBlock`, `MaxForks`, `InitialLib`,
`StartBlock`, window and set of end blocks that satisfies `ChainAssumption` and
`ReceiverAssumption`, and under `PromptShip`:

| Theorem | Property |
|---|---|
| `TypeCorrect` | `Spec => []TypeOK` |
| `CommitsOnlyFinal` | `Spec => []CommittedFinal` |
| `RevisionsAligned` | `Spec => []UndoStackAligned` |
| `RollbacksEnd` | `Spec => []RollbackReachable` |
| `RowsSound` | `Spec => []ReceivedRowsSound` |
| `NeverResent` | `Spec => CommittedNotResent` |
| `Invariance` | `Spec => []IInv`, which they all rest on |

None of the properties is inductive.  The undo loop ends because the stack has
a revision for every block above the committed one and a fork is above that one;
that is so because commits never pass the LIB, the LIB never passes a fork's first
block before it is sent, and everything below the session's cursor is the chain's.  `IInv` says exactly this, in parts:
`TypeOK`; `DbOk(db)`, the database has one revision per block above a final
committed one, each with the head of that number and its received rows;
`MemoryInv`, the variables in memory mirror the tables of the database while a
session is open; `SessionInv`, every block below the cursor `next` that the
database holds is the chain's, and the cursor is above the committed block.  The
proof has one lemma per action (`ReceiveBlock` in several, along its steps), each
with one step per part of `IInv` that the action can disturb.  `ChainbaseProofs`
has what is needed of the database: what undo, push, commit and set_revision
preserve.  `NeverResent` is an action property proved from `IInv` before the step.

Assumptions: those named ones and `PromptShip`, nothing else.

`ChronicleProofs` proves the pipeline, for every chain, window, number of restarts and
length of the queues in both directions, under `SafePipeline`: `PromptShip`, a
consumer that acknowledges irreversible blocks only (`WillAck`, `AckPolicy`), and
`~LosesForks`.  Without one of them the properties fail, as findings and section 6 say.

| Theorem | Property |
|---|---|
| `SystemTypeCorrect` | `SystemSpec => []SystemTypeOK` |
| `StreamMatches` | `SystemSpec => []StreamMatchesDb` |
| `NothingLost` | `SystemSpec => []NoLostBlocks` |
| `ExportImplemented` | `SystemSpec => ExportSpec`: initial states map to initial states, every step to a step or a stutter of `BlockExport` |
| `PipelineInvariance` | `SystemSpec => []SysInv`, which they all rest on |

`SysInv` extends `IInv` to the consumer.  `StreamInv` says that there is a sequence of
contents, from what the consumer has stored to what it will have stored after the last
event on its way, in which every event fits where it is applied (a block on top of
the one below it, a FORK not below an empty place) and whose last content is the
database's branch (`MatchInv`).  The fold over the queue is thus a witness that is
extended at the end when the receiver publishes and shortened at the front when the
consumer takes an event, which needs no induction over the queue.  `OrderInv` bounds the
numbers and irreversible numbers of the events on their way from both sides, so that what
the consumer calls irreversible is what the chain does; `RestartsFirst` and
`OwedForkInv` say that a FORK on its way is followed by nothing that it would remove,
and that it is still to be acknowledged; `ConsumerInv` that the
committed blocks are stored and stay so.  `AcksInv` is the heart of
`NoLostBlocks`: every acknowledgement on its way is one that, were it to arrive
now, could commit only blocks which the consumer has stored as the database has
them (`AckOk`), or one that ack_block will ignore because the answer to a FORK comes
first (`AckIgnored`).  It holds because an irreversible block is never forked away;
with acknowledgements of reversible blocks it fails, which is finding 1.

`FlowControlProofs` proves the flow control for every set of windows, queue limit, event queue
and chain, `ProcessStartProofs` the start for every number of processes:

| Theorem | Property |
|---|---|
| `FlowTypeCorrect` | `Spec => []FlowTypeOK` |
| `WindowAlwaysHolds` | `Spec => []WindowHolds` |
| `FlowInvariance` | the inductive invariant of both |
| `StartTypeCorrect` | `Spec => []StartTypeOK` |
| `OneInside` | `Spec => []MutualExclusion`, with `FirstStartAlone` |
| `ReceiverStartsLast` | `Spec => []ReadyBeforeEvents`, with `RelicAnswers` |

`WindowHolds` rests on an order that runs through the whole loop: what is
acknowledged, the acknowledgements on their way, what the consumer has, the blocks in
the queue and the head are ascending, so the queue's blocks are different numbers
between the acknowledged one and the head; and the receiver reads only when the
difference is below the window.  `MutualExclusion` needs that a process in a critical
section is the mutex's holder, and that no process is at a step of
`LockFile` that could overwrite the mutex while another one has gone past it;
`ReadyBeforeEvents` that the plugins still to be started come in an order in which the
decoder is before the exporter, and what is no longer to be started is ready.

`AbiProofs` and `InteractiveProofs` prove the contract ABIs for any
contracts, binaries, changes in a block, chain, forks, restarts and restores, from
`AbiAssumption` and what the table says:

| Theorem | Property |
|---|---|
| `HistoryIsExact` | `StoreSpec => []HistoryMatchesChain` |
| `SnapshotTypeCorrect` | `SnapshotSpec => []SnapshotTypeOK` |
| `LatestInUse` | `SnapshotSpec => []ScanUsesLatest` |
| `SnapshotsFinal` | `SnapshotSpec => []SnapshotIsFinal` |
| `HistoryRestored` | `SnapshotSpec => []HistoryAfterRestore` |
| `SnapshotInvariance` | the inductive invariant of the four above |
| `InteractiveTypeCorrect` | `Spec => []InteractiveTypeOK` (`InteractiveMode`) |
| `HistoryStaysExact` | `Spec => []HistoryMatchesChain` (`InteractiveMode`), with interactive requests in between |
| `SingleBlocksDecoded` | `Spec => DecodedLatest`, with `OneCommittedBlock`: a consumer that waits for its answers asks for one committed block at a time |

That the tables at the head agree with the chain is not inductive: a fork, a restart
or a restore brings older tables back.  The invariant `Store` therefore says it of
every revision in the database (`TablesOk`), each up to its own head, with the
revision's number being its block's (`Numbered`) unless the database is new or restored
(`NewOne`), and of the snapshot.  To be kept by the next block, agreement needs more
than the two properties: the history must have every change that is not a removal
(`KeepsChanges`), and an ABI that is not in use must not be one that the history still
has (`NothingToRemove`), because clear_contract_abi records a removal only of an ABI in
use; without a restore the history is exactly what has to be recorded (`Exact`).  After
a restore `BareIn` names the only difference: the contract's ABI was removed
before, and it has set none since.  The rows of one block are handled by a recursive
function; `RowsHandled` proves what it computes by induction over a prefix of the rows
(`Handled`), since a block has at most one row of an account.

`SingleBlocksDecoded` follows a request from on_block_req to the decoder: the cache is
empty, the block is committed, and while it is served the scanning process can neither
replace nor uncommit it (`ScanKeepsCommitted`), so a history row that was found stays in
the database until it is read (`RowStays`); `LookupRight` is that lower_bound finds the
right row where the contract ever had an ABI, whatever other contracts have.

`RelicProofs` proves the receiver with the relic exporter, for any messages, actions and
lists in the blocks, any chain, forks, window, failed statements, aborts and restarts,
from `ChainAssumption`, `ReceiverAssumption`, `RelicAssumption`, and under `PromptShip`
and `~LosesForks` (section 6 says what the code does without them):

| Theorem | Property |
|---|---|
| `RelicTypeCorrect` | `RelicSpec => []RelicTypeOK` |
| `StoredOnce` | `RelicSpec => []RowsOnce` |
| `StoredAsReceived` | `RelicSpec => []RowsFollowReceiver` |
| `CommittedStored` | `RelicSpec => []CommittedComplete` |
| `RelicInvariance` | `RelicSpec => []RInv`, which they all rest on |

Two things have to be shown.  The first is about the data: the statements of a block's
messages, one message after the other, are `ExpectedStatements`, which is defined from
the block's content as a whole.  Both are concatenations over sequences of any length, so
`FlattenProperties` first establishes what FlattenSeq gives for a sequence and its
prefixes; `SimpleTables` to `ActionStatementsType` go through the tables of actions;
`Done(n, k)` is then how many statements of block n are done after k messages, and
`BlockFollows`, `ContentFollows` and `CompletedFollows` say that BLOCK, each row or
transaction and BLOCK_COMPLETED do exactly those that follow.  The last one needs that the
lists of removed rows, the burnt addresses and the flag are at every message what the
messages of this block, and no other, have put there (`ListsAt`, `ListsStep`), from which
`AutoBurnsExpected` gives the burns.

The second is the invariant `RInv`, on top of the receiver's `IInv`.  A block's rows are a
beginning of one of its versions (`RowsBegin`); events wait for one block only, its forks
first (`OneBlock`); the block in work is stored up to the message handled and nothing is
stored above it (`InWork` in `WorkOk`); with nothing to do nothing is above the head
(`NothingAbove`); blocks that can still be undone, below those queued, are stored as the
database's revisions have them (`UndoableRows`), and committed ones as the chain has them
(`CommittedRows`).  The properties are not inductive because of what a crash leaves: rows
above the committed block of any version, which only the next FORK removes.  `ForksOwed`
says when there will be none (load_state announces a fork only when it has undone
something): then nothing is stored above the committed block, or only forks are queued, for
the block above it.  `AcksBehind` is why a commit is safe: acknowledged is only what is
handled, and the head only when it is committed.  `~LosesForks` is what `ForksOwed` needs:
without it a process may end between the undo and the handling of its FORK.

Only model-checked: all liveness (fairness and ENABLED are out of the prover's reach), so
of the relic exporter `DatabaseCatchesUp`.  `TraceFilter` and the four other runs with a violation are
counterexamples, which need no proof.

## 6. Further behaviour worth knowing

Not runs of their own; the constants named reproduce them.

- Acknowledgements are committed with the next block only, and a restart undoes
  the rest: it resumes further back than "the block number next after acknowledged
  or last known irreversible" (`docs/overview.md:22-24`).  The consumer gets a FORK
  and the blocks again.
- *The fork test depends on the LIB* (`receiver` 751).  A fork whose first block
  is irreversible by the time it is read, because nodeos was held up by backpressure,
  is stored without undo and FORK (`PromptShip = FALSE` in `chronicle_irrev` violates
  `StreamMatchesDb`).
- *A restart's FORK can be lost* (`receiver` 434).  load_state announces one only
  if it undid something.  A start that was refused after the revert, or a process
  that ended before its FORK was delivered, has already undone it (`LosesForks =
  TRUE`).
- Below `end-block` the receiver stops reading and waits until its last block is
  irreversible (`receiver` 554), which only another block could tell it: close to
  the head of the chain it waits for ever.  It also waits for the acknowledgement
  of exactly that block, which a consumer that acknowledges the block below, as
  `exp_relic` 570 and the test consumer do, never sends (`ack_lag = 1`: `StopsAtEnd`
  excludes it).
- With `exp-ws-max-queue` 1 or 2 the low mark is 0 or 1, no queue that has a message
  is below it, and a slowdown never ends (`exp_ws` 328, 464; `QueueHwm = 2`
  violates `SlowdownEnds`).
- `check_stale_head` (`receiver` 590) fires right after a pause has ended, before
  nodeos could answer: the abort says nothing of nodeos.  With no block received
  in the session (`received_blocks` 0) it never fires, however long nodeos is silent.
- A second interactive request that waits in the queue begins before the last
  block of the present one is decoded, and empties its cache (`receiver` 739;
  `OneAtATime = FALSE` violates `DecodedLatest`).
- on_block_req compares a request with the head, not with the LIB (`receiver` 667;
  `RequestUpTo = "head"`): reversible blocks are served and a fork in between is
  decoded with the other branch's ABIs, while `docs/overview.md:94` says "Only
  irreversible blocks are available for interactive mode".  Nor is irreversible
  enough (`RequestUpTo = "irreversible"`): a restart of the scanning process undoes
  blocks that are irreversible and not acknowledged yet, with their ABIs.
- The row of the history is read after the mutex was released (`receiver` 1165): the
  scanning process may undo it in between.  For committed blocks it cannot
  (`DecodedLatest`).
- An interactive receiver that is slowed down at the last block of a request takes
  it for the end block (`receiver` 554): it calls commit_db on the shared database,
  which it has opened read-only (1659), and stops.
- With `exporter_max_unconfirmed` 1 and a consumer that acknowledges the block
  below its last one, as `exp_relic` line 570 does, the window never opens again.
  `WindowCanOpen` excludes this pair; `ReadsOn` covers every other one, the window 1 with
  a consumer that acknowledges its last block among them.
- `exp_relic` 482 reads the addresses of a handle from BLOCK_COMPLETED instead of
  the removed row; in a release build the list is empty and every removed handle
  is burnt.  Two burnexpired transactions in a block give all burns the id of the
  last.  After a lost connection terminalerror and the exception handler both
  finish it.  async_send_events calls itself once per queued message.  The
  correction of renewdomain's expiration dates (`exp_relic` 102) moves 29 February to
  the next year only where that is a leap year; of the years after one it stays, and
  the database refuses it.
- A relic database that cannot be reached at the start leaves the exporter without
  subscriptions, and the receiver reads up to its window and waits for
  acknowledgements (`RelicAnswers = FALSE` violates `ReadyBeforeEvents`).
- The mutex in `lock.bin` is not a robust one: a process killed inside a critical
  section leaves it locked, and every other process, the next start too, waits until
  the file is removed (lock "orphan", which `StartsOrEnds` and `WaitersServed` exclude).
- A process killed after it has sized `lock.bin` and before it has constructed the mutex
  (`receiver` 1638-1650) leaves zeros, which the next start maps; the model calls them a free
  mutex, which they happen to be where a mutex is initialized with zeros.
- Two processes that create `lock.bin` at the same time (`receiver` 1635) can each
  construct the mutex, the second while the first holds it, or map a file that is
  still empty (`FirstStartAlone = FALSE` violates `MutualExclusion`).
- A mode string that is none of the five leaves the flags of the modes uninitialized
  (`receiver` 1612).
- The mutex is held while a snapshot is prepared (revert_uncommitted_revisions, 399-412),
  not while its rows are written or read (1363-1449, 1480 on): an interactive process may
  read a database that is half restored (`CopyRows`).
- A handler that throws at 820 undoes the block's session, while the ABI context in memory
  keeps what the block has set.  The process aborts, so nothing is decoded with it;
  `AbiStore` leaves the step out.
- read_snapshot creates its rows one by one without a session (`receiver` 1480): from a
  file that ends early a part of them remains, and the next scan accepts it.
- A snapshot leaves out rows of the history with an empty ABI (`receiver` 1434): after a
  restore an ABI that was removed before the snapshot is in use again for interactive
  requests, until the contract sets a new one; removing it again changes nothing, since
  clear_contract_abi records no removal of an ABI that is not in use.
  `HistoryAfterRestore` says that nothing else differs.
- Many of the relic's update statements carry no block number (upddomainowner,
  upddomainexp, delpubaddresses ...): that rbfork can undo them is an assumption on
  the database, which is not part of the repository.

## 7. Plan

Order: the receiver, its environment and its proofs first, since all else
depends on the stream it publishes; then the pipeline; then the parts with state
of their own.

| Step | State |
|---|---|
| `StateHistory`, `Chainbase`, `Receiver`; `receiver_anyack` | done |
| `ChainbaseProofs`, `ReceiverProofs`: type invariant, then the five safety properties | done |
| `BlockExport`, `Chronicle`, refinement; `ChronicleProofs` with the step refinement | done |
| `FlowControl`, liveness; event queue, end block, silent nodeos; `FlowControlProofs` | done |
| `AbiStore`, `InteractiveMode`, `TraceFilter` | done, except the slowdown of an interactive process |
| `RelicExporter` | done, except arguments and the connection |
| `Snapshot`; `ProcessStart` and `ProcessStartProofs` | done |
| `AbiProofs`, `InteractiveProofs`: ABIs, history, restores and lookups for every number of accounts, ABIs, forks and restarts | done |
| `RelicProofs`: every safety property of the relic database, for any content of the blocks | done |
| `ExpirationDate`: the correction of non-leap-year dates (`exp_relic` 41-118) as a pure operator against a calendar | open |

## 8. Not modelled, and why

- Table filters (`receiver` 955-961): two set lookups per row, nothing to interleave.
- The decoder's conversion: one event in, one event out on a channel of a higher
  priority, which keeps the order; its subscriptions are in `ProcessStart`, its only
  state, the receiver's ABI context, in `AbiStore` and `InteractiveMode`.
- The arguments of the relic's statements (`exp_relic` 41-118, `keyops.hpp`,
  `name.hpp`): conversions of dates, keys and names.
- The two message formats and the websocket handshake of `exp_ws`: conversion and
  I/O.  A broken websocket is `Abort`.
- `exp_dummy_plugin`, the printing of the test consumers, build, packaging and
  service files.
- The growing length of pauses: it changes how long, not whether, the receiver pauses.
- An abnormal end: chainbase marks the database dirty and refuses it, so the next
  start does not happen without an operator.

## 9. Running

```
tlc -config MCReceiver_anyack.cfg MCReceiver.tla
tlapm ReceiverProofs.tla
tlapm ChronicleProofs.tla
tlapm InteractiveProofs.tla
```
