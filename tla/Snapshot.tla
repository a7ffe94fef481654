------------------------------ MODULE Snapshot ------------------------------
(***************************************************************************)
(* Portable snapshots of the state database of AbiStore (write_snapshot    *)
(* and read_snapshot).  Saving and restoring are runs of the program of    *)
(* their own, between two scans, so each of them is a restart as well.     *)
(*                                                                         *)
(* A snapshot is restored into a new database: read_snapshot refuses one   *)
(* that has a state.  The file is whole.  The consumer is only the number  *)
(* of the last block it was sent and not told to forget, and events reach  *)
(* it at once; see Chronicle and RelicExporter for events that get lost.   *)
(***************************************************************************)
EXTENDS AbiStore

VARIABLES
    file,        \* the snapshot, or NoFile
    restoredAt,  \* the head of the last snapshot restored, 0: none was
    exported     \* the consumer's last block

snapshotVars == <<storeVars, file, restoredAt, exported>>

NoFile == [head |-> 0]

SnapshotInit ==
    /\ StoreInit
    /\ file = NoFile /\ restoredAt = 0 /\ exported = 0

SnapshotTypeOK ==
    /\ AbiTypeOK
    /\ file \in AbiTables \cup {NoFile}
    /\ restoredAt \in 0 .. MaxBlock
    /\ exported \in 0 .. MaxBlock

-------------------------------------------------------------------------------
(* Scanning.                                                                 *)

ScanBlock ==
    /\ ReceiveBlock
    /\ exported' = head'
    /\ UNCHANGED <<file, restoredAt>>

\* The FORK comes before the block.
ScanFork(n) ==
    /\ ReceiveFork(n)
    /\ exported' = head'
    /\ UNCHANGED <<file, restoredAt>>

\* load_state publishes a FORK when it undoes something or finds no state.
ScanRestart ==
    /\ Restart
    /\ exported' = IF HasUndoSession(db) \/ head' = 0 THEN head' ELSE exported
    /\ UNCHANGED <<file, restoredAt>>

-------------------------------------------------------------------------------
(* Snapshots.  The next scan starts at once: nothing is left to undo then.   *)

\* The rows that go to the file: those with an empty ABI stay behind.
Rows_NoBad(tables) ==
    [tables EXCEPT !.history = {h \in @ : h.abi \in Abis}]

Rows(tables) ==
    [tables EXCEPT !.history = {h \in @ : h.abi # NoAbi}]

Reverted_Not(d) == d
Reverted(d) == UndoAll(d)

\* write_snapshot throws when the database has no state row.
SaveSnapshot ==
    /\ stops < MaxStops /\ stops' = stops + 1
    /\ db' = Reverted(db)
    /\ file' = IF head' > 0 THEN Rows(Tables(db')) ELSE NoFile
    /\ loaded' = NothingLoaded
    /\ exported' = IF head' = 0 THEN 0 ELSE exported
    /\ UNCHANGED <<chainVars, restoredAt>>

\* read_snapshot creates the rows without an undo session, and publishes nothing.
RestoreSnapshot ==
    /\ stops < MaxStops /\ stops' = stops + 1
    /\ file # NoFile
    /\ db' = NewDatabase(file)
    /\ restoredAt' = file.head
    /\ loaded' = NothingLoaded
    /\ UNCHANGED <<chainVars, file, exported>>

SnapshotNext ==
    \/ ScanBlock \/ (\E n \in 1 .. MaxBlock : ScanFork(n)) \/ ScanRestart
    \/ SaveSnapshot \/ RestoreSnapshot

SnapshotSpec == SnapshotInit /\ [][SnapshotNext]_snapshotVars

-------------------------------------------------------------------------------
(* Properties.                                                               *)

\* Contract a has no ABI at block n, and has had none since the last restore.
Bare(a, n) ==
    /\ restoredAt > 0
    /\ \A m \in 1 .. n : m = n \/ m >= restoredAt => Latest(ChangesOf(a, m)) = NoAbi

\* A snapshot is of final blocks only, whatever the database had read when it was
\* saved and whatever forks came later: its ABIs are those the chain gives at its
\* head, now and for ever (write_snapshot).
SnapshotIsFinal ==
    file # NoFile =>
       /\ file.head <= lib
       /\ \A a \in Accounts :
             file.abi[a] = Latest({c \in ChangesOf(a, file.head) : c[2] # BadAbi})

\* The history of a restored database gives the ABI that the chain had at every
\* block, before and after the snapshot and over later forks.  Only a contract
\* whose ABI was removed before the snapshot, and as long as it sets no new one, may
\* be decoded with a removed one (write_snapshot, read_snapshot,
\* save_contract_abi_history, clear_contract_abi).
HistoryAfterRestore ==
    \A a \in Accounts, n \in 1 .. head :
       HistoryAbi(a, n) = Usable(Latest(ChangesOf(a, n))) \/ Bare(a, n)

\* "explicit fork on receiver restart": the consumer is never sent a block that it
\* holds, or holds another version of, without a FORK (load_state, write_snapshot).
BlocksFollow == [][head' = head + 1 => exported = head]_snapshotVars
===============================================================================
