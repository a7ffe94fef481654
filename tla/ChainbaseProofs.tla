--------------------------- MODULE ChainbaseProofs ---------------------------
(* What the operations of the undo database return, for any database.         *)
EXTENDS Chainbase, TLAPS

\* A window of the undo stack is a database with the same tables in it.
LEMMA WindowDatabase ==
    ASSUME NEW T, NEW d, IsDatabase(d, T),
           NEW a \in Nat, NEW b \in Nat, d.committed <= a, a <= b, b <= d.revision
    PROVE  /\ IsDatabase(Window(d, a, b), T)
           /\ Window(d, a, b).committed = a
           /\ Window(d, a, b).revision = b
           /\ \A r \in a .. b : Window(d, a, b).at[r] = d.at[r]
BY DEF IsDatabase, Window

\* Undoing everything leaves the committed tables alone in the database
\* (revert_uncommitted_revisions).
LEMMA UndoAllDatabase ==
    ASSUME NEW T, NEW d, IsDatabase(d, T)
    PROVE  /\ IsDatabase(UndoAll(d), T)
           /\ UndoAll(d).committed = d.committed
           /\ UndoAll(d).revision = d.committed
           /\ UndoAll(d).at[d.committed] = d.at[d.committed]
           /\ Tables(UndoAll(d)) = d.at[d.committed]
<1>1. d.committed \in Nat /\ d.revision \in Nat /\ d.committed <= d.revision
  BY DEF IsDatabase
<1> DEFINE w == Window(d, d.committed, d.committed)
<1>2. /\ IsDatabase(w, T) /\ w.committed = d.committed /\ w.revision = d.committed
      /\ \A r \in d.committed .. d.committed : w.at[r] = d.at[r]
  BY <1>1, WindowDatabase
<1> QED
  BY <1>1, <1>2 DEF UndoAll, Tables

\* Undoing down to a fork above the committed revision leaves the revision
\* below the fork's first block (receive_result).
LEMMA UndoFromDatabase ==
    ASSUME NEW T, NEW d, IsDatabase(d, T),
           NEW n \in Nat, d.committed < n, n <= d.revision
    PROVE  /\ IsDatabase(UndoFrom(d, n), T)
           /\ UndoFrom(d, n).committed = d.committed
           /\ UndoFrom(d, n).revision = n - 1
           /\ \A r \in d.committed .. n - 1 : UndoFrom(d, n).at[r] = d.at[r]
<1> DEFINE a == d.committed
           b == n - 1
<1>1. UndoFrom(d, n) = Window(d, a, b)
  BY DEF UndoFrom, IsDatabase
<1>2. a \in Nat /\ b \in Nat /\ d.committed <= a /\ a <= b /\ b <= d.revision
  BY DEF IsDatabase
<1>3. /\ IsDatabase(UndoFrom(d, n), T)
      /\ UndoFrom(d, n).committed = a /\ UndoFrom(d, n).revision = b
      /\ \A r \in a .. b : UndoFrom(d, n).at[r] = d.at[r]
  <2> HIDE DEF a, b
  <2>1. /\ IsDatabase(Window(d, a, b), T)
        /\ Window(d, a, b).committed = a /\ Window(d, a, b).revision = b
        /\ \A r \in a .. b : Window(d, a, b).at[r] = d.at[r]
    BY <1>2, WindowDatabase
  <2> QED
    BY <1>1, <2>1
<1> QED
  BY <1>3

\* A pushed session adds one revision with the new tables (receive_result).
LEMMA PushDatabase ==
    ASSUME NEW T, NEW d, IsDatabase(d, T), NEW t \in T
    PROVE  /\ IsDatabase(PushRevision(d, t), T)
           /\ PushRevision(d, t).committed = d.committed
           /\ PushRevision(d, t).revision = d.revision + 1
           /\ PushRevision(d, t).at[d.revision + 1] = t
           /\ \A r \in d.committed .. d.revision : PushRevision(d, t).at[r] = d.at[r]
BY DEF IsDatabase, PushRevision

\* Committing moves the committed revision up, to the given revision at most,
\* and keeps the tables of every revision from there on (commit_db).
LEMMA CommitDatabase ==
    ASSUME NEW T, NEW d, IsDatabase(d, T), NEW n \in Nat
    PROVE  /\ IsDatabase(Commit(d, n), T)
           /\ Commit(d, n).revision = d.revision
           /\ d.committed <= Commit(d, n).committed
           /\ Commit(d, n).committed \in d.committed .. d.revision
           /\ Commit(d, n).committed # d.committed => Commit(d, n).committed <= n
           /\ \A r \in Commit(d, n).committed .. d.revision : Commit(d, n).at[r] = d.at[r]
<1> DEFINE upto == IF n < d.revision THEN n ELSE d.revision
<1>1. /\ upto \in Nat /\ upto <= d.revision /\ upto <= n
      /\ d.committed \in Nat /\ d.revision \in Nat /\ d.committed <= d.revision
  BY DEF IsDatabase
<1>2. CASE upto > d.committed
  <2>1. Commit(d, n) = Window(d, upto, d.revision)
    BY <1>2 DEF Commit
  <2> DEFINE w == Window(d, upto, d.revision)
  <2>2. /\ IsDatabase(w, T) /\ w.committed = upto /\ w.revision = d.revision
        /\ \A r \in upto .. d.revision : w.at[r] = d.at[r]
    <3> HIDE DEF upto
    <3> QED
      BY <1>1, <1>2, WindowDatabase
  <2> QED
    BY <1>1, <1>2, <2>1, <2>2
<1>3. CASE ~(upto > d.committed)
  <2>1. Commit(d, n) = d
    BY <1>3 DEF Commit
  <2> QED
    BY <1>1, <2>1
<1> QED
  BY <1>2, <1>3

\* set_revision renumbers a database without undo stack (receive_result).
LEMMA SetRevisionDatabase ==
    ASSUME NEW T, NEW d, IsDatabase(d, T), NEW n \in Nat
    PROVE  /\ IsDatabase(SetRevision(d, n), T)
           /\ SetRevision(d, n).committed = n
           /\ SetRevision(d, n).revision = n
           /\ SetRevision(d, n).at[n] = Tables(d)
BY DEF IsDatabase, SetRevision, Tables
==============================================================================
