------------------------------ MODULE Chainbase ------------------------------
(***************************************************************************)
(* The undo database the receiver keeps its state in (chainbase of leap    *)
(* 4.0, external to the repository), modelled from the calls that          *)
(* receiver_plugin.cpp makes: revision, set_revision, start_undo_session,  *)
(* push, undo, commit, undo_stack_revision_range.                          *)
(*                                                                         *)
(* A database is a record                                                  *)
(*   committed  the revision below which nothing can be undone             *)
(*   revision   the current revision                                       *)
(*   at         the tables as they were at each revision in between        *)
(* so the undo stack is at[committed] .. at[revision - 1] and the tables   *)
(* that queries see are at[revision].  The whole record is persistent.     *)
(***************************************************************************)
EXTENDS Integers

IsDatabase(db, T) ==
    /\ db.committed \in Nat
    /\ db.revision \in Nat
    /\ db.committed <= db.revision
    /\ db.at \in [db.committed .. db.revision -> T]

NewDatabase(tables) ==
    [committed |-> 0, revision |-> 0, at |-> [r \in 0 .. 0 |-> tables]]

Tables(db) == db.at[db.revision]

HasUndoSession(db) == db.committed < db.revision

UndoDepth(db) == db.revision - db.committed

\* The database that remains when the undo stack covers first .. last only.
Window(db, first, last) ==
    [committed |-> first, revision |-> last, at |-> [r \in first .. last |-> db.at[r]]]

\* while( index.has_undo_session() ) db->undo()
UndoAll(db) == Window(db, db.committed, db.committed)

\* while( db->revision() >= rev ) db->undo(): ends only when rev is above the
\* committed revision, because undo() does nothing on an empty stack.
UndoTerminates(db, rev) == db.revision >= rev => db.committed < rev
UndoFrom(db, rev) ==
    IF db.revision >= rev THEN Window(db, db.committed, rev - 1) ELSE db

\* start_undo_session(true), changes that lead to `tables', push()
PushRevision(db, tables) ==
    LET rev == db.revision + 1 IN
    [committed |-> db.committed,
     revision  |-> rev,
     at        |-> [r \in db.committed .. rev |-> IF r = rev THEN tables ELSE db.at[r]]]

\* commit(rev): forgets the undo information of the revisions up to rev.
Commit(db, rev) ==
    LET upto == IF rev < db.revision THEN rev ELSE db.revision IN
    IF upto > db.committed THEN Window(db, upto, db.revision) ELSE db

\* set_revision(rev) throws while there is something to undo.
SetRevisionThrows(db) == HasUndoSession(db)
SetRevision(db, rev) ==
    [committed |-> rev, revision |-> rev, at |-> [r \in rev .. rev |-> Tables(db)]]
==============================================================================
