---------------------------- MODULE ReceiverProofs ----------------------------
(***************************************************************************)
(* What holds of Receiver for every chain, every pattern of forks, stops,  *)
(* failures and acknowledgements, provided that a session sends a fork's   *)
(* first block before the LIB passes it (PromptShip).                      *)
(***************************************************************************)
EXTENDS Receiver, ChainbaseProofs

\* The block a database without a saved state resumes from.
FirstHead == ResumeHead(EmptyTables)

OnChain(t) ==
    /\ t.head_id = branch[t.head]
    /\ \A p \in t.received : p[2] = branch[p[1]]

\* Revision r of database d holds the state after block r, or nothing yet.
RevisionHoldsBlock(d, r) ==
    LET t == d.at[r] IN
    IF t.saved
    THEN /\ r \in 1 .. tip
         /\ t.head = r
         /\ t.irreversible <= final
         /\ \A p \in t.received : p[1] <= r
    ELSE t = EmptyTables

\* The undo stack: one revision per block above the committed one, which is
\* final, or which is the block to resume from when nothing was saved.
DbOk(d) ==
    /\ d.revision <= MaxBlock
    /\ \A r \in d.committed .. d.revision : RevisionHoldsBlock(d, r)
    /\ \A r \in d.committed + 1 .. d.revision : d.at[r].saved
    /\ d.at[d.committed].saved => d.committed <= final /\ OnChain(d.at[d.committed])
    /\ ~d.at[d.committed].saved =>
          /\ d.committed <= FirstHead
          /\ d.committed < d.revision => d.committed = FirstHead

\* What the process remembers is what the database holds.
MemoryInv ==
    /\ pc = "connecting" => db.committed = db.revision
    /\ pc = "connecting" \/ SessionOpen =>
          /\ head = IF Tables(db).saved THEN db.revision ELSE FirstHead
          /\ head_id = Tables(db).head_id
          /\ irreversible = Tables(db).irreversible

\* The session's cursor is above what can no longer be undone, and what the
\* database holds below the cursor is the chain.
SessionInv ==
    SessionOpen =>
        /\ db.committed < next
        /\ next <= head + 1
        /\ next <= head => final < next /\ Tables(db).saved
        /\ \A r \in db.committed .. db.revision :
              db.at[r].saved /\ r < next => OnChain(db.at[r])

IInv ==
    /\ TypeOK
    /\ InitialLib <= final
    /\ DbOk(db)
    /\ MemoryInv
    /\ SessionInv

-------------------------------------------------------------------------------

\* The first block to resume from is final from the beginning (load_state).
LEMMA FirstHeadFinal == FirstHead \in 0 .. InitialLib /\ InitialLib \in 1 .. MaxBlock
BY ChainAssumption, ReceiverAssumption DEF FirstHead, ResumeHead, EmptyTables

\* The tables of a database without a state have the type of tables.
LEMMA EmptyTablesType == EmptyTables \in TableContents
BY ChainAssumption DEF EmptyTables, TableContents, Versions, BlockIds

\* The system begins in a state of the invariant (receiver_plugin_impl's
\* members, an empty database).
LEMMA InitInvariant == Init => IInv
<1> SUFFICES ASSUME Init PROVE IInv
  OBVIOUS
<1>1. /\ IsDatabase(db, TableContents)
      /\ db.committed = 0 /\ db.revision = 0 /\ db.at[0] = EmptyTables
  BY EmptyTablesType DEF Init, NewDatabase, IsDatabase
<1>2. TypeOK
  BY <1>1, ChainAssumption
  DEF Init, TypeOK, ChainInit, ChainTypeOK, BlockNums, Versions, ProcessStates
<1>3. DbOk(db)
  <2>1. ~db.at[0].saved /\ db.at[0] = EmptyTables
    BY <1>1 DEF EmptyTables
  <2>2. \A r \in db.committed .. db.revision : r = 0
    BY <1>1
  <2>3. db.revision <= MaxBlock /\ db.committed <= FirstHead
    BY <1>1, FirstHeadFinal, ChainAssumption
  <2> QED
    BY <1>1, <2>1, <2>2, <2>3 DEF DbOk, RevisionHoldsBlock
<1>4. MemoryInv /\ SessionInv
  BY DEF Init, MemoryInv, SessionInv, SessionOpen
<1>5. InitialLib <= final
  BY FirstHeadFinal DEF Init, ChainInit
<1> QED
  BY <1>2, <1>3, <1>4, <1>5 DEF IInv

-------------------------------------------------------------------------------

\* What a step of the chain leaves to the receiver: final blocks and blocks
\* below the session's cursor stay, and the cursor only goes back to a block
\* that is not final (SHIP's promise, with PromptShip).
ChainKeeps ==
    /\ ChainTypeOK'
    /\ final <= final' /\ tip <= tip'
    /\ \A n \in BlockNums : n <= final => branch'[n] = branch[n]
    /\ SessionOpen =>
          /\ next' <= next
          /\ next' # next => final' < next'
          /\ next' <= head => final' < next'
          /\ \A n \in BlockNums : n < next' /\ n <= tip => branch'[n] = branch[n]

\* A step of the chain leaves what is final alone, and the blocks below a fork
\* (StateHistory, as receive_result reads it).
LEMMA ChainStepKeeps ==
    ASSUME PromptShip, IInv, ChainStep PROVE ChainKeeps
<1>0. /\ MaxBlock \in Nat \ {0} /\ MaxForks \in Nat
      /\ tip \in 1 .. MaxBlock /\ branch \in [1 .. MaxBlock -> 0 .. MaxForks]
      /\ forks \in 0 .. MaxForks
      /\ final \in 1 .. tip /\ lib \in 1 .. final /\ next \in 1 .. MaxBlock + 1
      /\ head \in Nat
      /\ SessionOpen /\ next <= head => final < next
  BY ChainAssumption DEF IInv, SessionInv, TypeOK, ChainTypeOK, BlockNums, Versions
<1>1. CASE ProduceBlock
  BY <1>0, <1>1 DEF ProduceBlock, ChainKeeps, ChainTypeOK, BlockNums, Versions
<1>2. ASSUME NEW f \in BlockNums, SwitchFork(f, SessionOpen)
      PROVE  ChainKeeps
  BY <1>0, <1>2 DEF SwitchFork, ChainKeeps, ChainTypeOK, BlockNums, Versions
<1>3. CASE AdvanceLib(IF SessionOpen THEN head ELSE 0)
  BY <1>0, <1>3, PromptShip DEF AdvanceLib, ChainKeeps, ChainTypeOK, BlockNums, Versions
<1> QED
  BY <1>1, <1>2, <1>3 DEF ChainStep

\* A step of the chain preserves the invariant (StateHistory).
LEMMA ChainStepInvariant ==
    ASSUME PromptShip, IInv, ChainStep PROVE IInv'
<1>1. UNCHANGED <<db, pc, head, head_id, irreversible, forked_at_block,
                  exporter_acked_block, start_block_num, end_block_num, events>>
  BY DEF ChainStep, receiverVars, memory
<1>2. ChainKeeps
  BY ChainStepKeeps
<1>3. /\ MaxBlock \in Nat \ {0}
      /\ tip \in 1 .. MaxBlock /\ final \in 1 .. tip /\ next \in Nat
      /\ tip' \in 1 .. MaxBlock /\ final' \in 1 .. tip' /\ next' \in 1 .. MaxBlock + 1
      /\ db.committed \in Nat /\ db.revision \in Nat /\ db.committed <= db.revision
      /\ head \in Nat
      /\ \A r \in db.committed .. db.revision : db.at[r] \in TableContents
  BY <1>2, ChainAssumption
  DEF IInv, TypeOK, ChainKeeps, ChainTypeOK, IsDatabase, BlockNums
<1>4. TypeOK'
  BY <1>1, <1>2 DEF IInv, TypeOK, ChainKeeps
<1>5. (InitialLib <= final)'
  BY <1>2, <1>3, FirstHeadFinal DEF IInv, ChainKeeps
<1>6. ASSUME NEW r \in db.committed .. db.revision
      PROVE  RevisionHoldsBlock(db, r)'
  <2>1. RevisionHoldsBlock(db, r) /\ db.at[r] \in TableContents
    BY <1>3, <1>6 DEF IInv, DbOk
  <2> QED
    BY <1>1, <1>2, <1>3, <2>1 DEF RevisionHoldsBlock, ChainKeeps, TableContents
<1>7. ASSUME NEW r \in db.committed .. db.revision, db.at[r].saved, OnChain(db.at[r]),
             \A n \in BlockNums : n <= r => branch'[n] = branch[n]
      PROVE  OnChain(db.at[r])'
  <2>1. RevisionHoldsBlock(db, r) /\ db.at[r] \in TableContents
    BY <1>3 DEF IInv, DbOk
  <2>2. /\ r \in BlockNums /\ db.at[r].head = r
        /\ \A p \in db.at[r].received : p[1] \in BlockNums /\ p[1] <= r
    BY <1>3, <1>7, <2>1 DEF RevisionHoldsBlock, TableContents, BlockIds, BlockNums
  <2> QED
    BY <1>1, <1>3, <1>7, <2>2 DEF OnChain, BlockNums
<1>8. DbOk(db)'
  <2>1. (db.at[db.committed].saved => db.committed <= final /\ OnChain(db.at[db.committed]))'
    <3> SUFFICES ASSUME db.at[db.committed].saved
                 PROVE  db.committed <= final' /\ OnChain(db.at[db.committed])'
      BY <1>1
    <3>1. db.committed <= final /\ OnChain(db.at[db.committed])
      BY DEF IInv, DbOk
    <3>2. \A n \in BlockNums : n <= db.committed => branch'[n] = branch[n]
      BY <1>2, <1>3, <3>1 DEF ChainKeeps, BlockNums
    <3>3. db.committed \in db.committed .. db.revision
      BY <1>3
    <3>4. OnChain(db.at[db.committed])'
      <4>1. PICK r \in db.committed .. db.revision : r = db.committed
        BY <3>3
      <4>2. OnChain(db.at[r])'
        BY <1>7, <3>1, <3>2, <4>1
      <4> QED
        BY <1>1, <4>1, <4>2 DEF OnChain
    <3> QED
      BY <1>2, <1>3, <3>1, <3>4 DEF ChainKeeps
  <2> QED
    BY <1>1, <1>6, <2>1 DEF IInv, DbOk
<1>9. MemoryInv'
  BY <1>1 DEF IInv, MemoryInv, SessionOpen, Tables
<1>10. SessionInv'
  <2> SUFFICES ASSUME SessionOpen
               PROVE  /\ db.committed < next'
                      /\ next' <= head + 1
                      /\ next' <= head => final' < next' /\ Tables(db).saved
                      /\ \A r \in db.committed .. db.revision :
                            db.at[r].saved /\ r < next' => OnChain(db.at[r])'
    BY <1>1 DEF SessionInv, SessionOpen, Tables
  <2>1. db.committed <= final
    BY <1>3, FirstHeadFinal DEF IInv, DbOk
  <2>2. ~Tables(db).saved => head <= final
    BY <1>3, FirstHeadFinal DEF IInv, MemoryInv
  <2>3. /\ db.committed < next /\ next <= head + 1
        /\ next <= head => Tables(db).saved
        /\ \A r \in db.committed .. db.revision :
              db.at[r].saved /\ r < next => OnChain(db.at[r])
    BY DEF IInv, SessionInv
  <2>4. ASSUME NEW r \in db.committed .. db.revision, db.at[r].saved, r < next'
        PROVE  OnChain(db.at[r])'
    <3>1. r \in 1 .. tip /\ OnChain(db.at[r])
      BY <1>2, <1>3, <2>3, <2>4 DEF IInv, DbOk, RevisionHoldsBlock, ChainKeeps
    <3>2. \A n \in BlockNums : n <= r => branch'[n] = branch[n]
      BY <1>2, <1>3, <2>4, <3>1 DEF ChainKeeps, BlockNums
    <3> QED
      BY <1>7, <2>4, <3>1, <3>2
  <2> QED
    BY <1>2, <1>3, <2>1, <2>2, <2>3, <2>4 DEF ChainKeeps
<1> QED
  BY <1>4, <1>5, <1>8, <1>9, <1>10 DEF IInv

-------------------------------------------------------------------------------

\* The types of an invariant state, spelt out.
LEMMA InvariantFacts ==
    ASSUME IInv
    PROVE  /\ MaxBlock \in Nat \ {0} /\ MaxForks \in Nat
           /\ tip \in 1 .. MaxBlock /\ branch \in [1 .. MaxBlock -> 0 .. MaxForks]
           /\ final \in 1 .. tip /\ lib \in 1 .. final /\ next \in 1 .. MaxBlock + 1
           /\ FirstHead \in 0 .. final /\ ~EmptyTables.saved
           /\ IsDatabase(db, TableContents)
           /\ db.committed \in Nat /\ db.revision \in Nat /\ db.committed <= db.revision
           /\ \A r \in db.committed .. db.revision : db.at[r] \in TableContents
           /\ db.committed <= final
           /\ head \in Nat /\ irreversible \in Nat /\ exporter_acked_block \in Nat
           /\ forked_at_block \in Nat /\ WillAck \in BOOLEAN
<1>1. /\ FirstHead \in 0 .. InitialLib /\ InitialLib \in 1 .. MaxBlock /\ InitialLib <= final
  BY FirstHeadFinal DEF IInv
<1>2. /\ MaxBlock \in Nat \ {0} /\ MaxForks \in Nat
      /\ tip \in 1 .. MaxBlock /\ branch \in [1 .. MaxBlock -> 0 .. MaxForks]
      /\ final \in 1 .. tip /\ lib \in 1 .. final /\ next \in 1 .. MaxBlock + 1
      /\ head \in Nat /\ irreversible \in Nat /\ exporter_acked_block \in Nat
      /\ forked_at_block \in Nat /\ WillAck \in BOOLEAN
  BY ChainAssumption, ReceiverAssumption
  DEF IInv, TypeOK, ChainTypeOK, BlockNums, Versions
<1>3. /\ IsDatabase(db, TableContents)
      /\ db.committed \in Nat /\ db.revision \in Nat /\ db.committed <= db.revision
      /\ \A r \in db.committed .. db.revision : db.at[r] \in TableContents
  BY DEF IInv, TypeOK, IsDatabase
<1>4. db.committed <= final
  BY <1>1, <1>2, <1>3 DEF IInv, DbOk
<1>5. ~EmptyTables.saved
  BY DEF EmptyTables
<1> QED
  BY <1>1, <1>2, <1>3, <1>4, <1>5

\* The numbers of the invariant, without the database.
LEMMA Numbers ==
    ASSUME IInv
    PROVE  /\ MaxBlock \in Nat /\ tip \in 1 .. MaxBlock /\ tip \in Nat /\ lib <= tip
           /\ next \in Nat /\ lib \in Nat /\ final \in Nat /\ lib <= final /\ FirstHead \in Nat
           /\ branch \in [1 .. MaxBlock -> 0 .. MaxForks]
<1>1. /\ MaxBlock \in Nat \ {0} /\ tip \in 1 .. MaxBlock /\ final \in 1 .. tip
      /\ lib \in 1 .. final /\ next \in 1 .. MaxBlock + 1 /\ FirstHead \in 0 .. final
      /\ branch \in [1 .. MaxBlock -> 0 .. MaxForks]
  BY InvariantFacts
<1> QED
  BY <1>1

\* Reverting everything keeps the committed tables (revert_uncommitted_revisions).
LEMMA UndoAllOk ==
    ASSUME IInv
    PROVE  IsDatabase(UndoAll(db), TableContents) /\ DbOk(UndoAll(db))
<1> DEFINE u == UndoAll(db)
<1>1. /\ IsDatabase(u, TableContents)
      /\ u.committed = db.committed /\ u.revision = db.committed
      /\ u.at[db.committed] = db.at[db.committed]
  BY InvariantFacts, UndoAllDatabase
<1>2. /\ db.committed \in Nat /\ db.revision \in Nat /\ db.committed <= db.revision
      /\ MaxBlock \in Nat
  BY InvariantFacts
<1>3. \A r \in u.committed .. u.revision : r = db.committed
  BY <1>1, <1>2
<1>4. RevisionHoldsBlock(db, db.committed) /\ db.revision <= MaxBlock
  BY <1>2 DEF IInv, DbOk
<1>5. RevisionHoldsBlock(u, db.committed)
  BY <1>1, <1>4 DEF RevisionHoldsBlock
<1> HIDE DEF u
<1>6. DbOk(u)
  BY <1>1, <1>2, <1>3, <1>4, <1>5 DEF IInv, DbOk
<1> QED
  BY <1>1, <1>6 DEF u

\* Committing up to a block that is final and of the chain keeps the database
\* in order (commit_db).
LEMMA CommitOk ==
    ASSUME IInv, NEW d, IsDatabase(d, TableContents), DbOk(d),
           NEW n \in Nat, n <= final,
           \A r \in d.committed .. d.revision : d.at[r].saved /\ r <= n => OnChain(d.at[r])
    PROVE  IsDatabase(Commit(d, n), TableContents) /\ DbOk(Commit(d, n))
<1> DEFINE c == Commit(d, n)
<1>1. /\ IsDatabase(c, TableContents) /\ c.revision = d.revision
      /\ c.committed \in d.committed .. d.revision
      /\ c.committed # d.committed => c.committed <= n
      /\ \A r \in c.committed .. d.revision : c.at[r] = d.at[r]
  BY CommitDatabase
<1>2. /\ d.committed \in Nat /\ d.revision \in Nat /\ d.committed <= d.revision
      /\ final \in Nat /\ FirstHead \in Nat
  BY InvariantFacts DEF IsDatabase
<1> HIDE DEF c
<1>3. c.at[c.committed] = d.at[c.committed]
  BY <1>1, <1>2
<1>4. ASSUME NEW r \in c.committed .. c.revision
      PROVE  RevisionHoldsBlock(c, r)
  <2>1. r \in d.committed .. d.revision /\ c.at[r] = d.at[r]
    BY <1>1, <1>2
  <2>2. RevisionHoldsBlock(d, r)
    BY <2>1 DEF DbOk
  <2> QED
    BY <2>1, <2>2 DEF RevisionHoldsBlock
<1>5. \A r \in c.committed + 1 .. c.revision : c.at[r].saved
  BY <1>1, <1>2 DEF DbOk
<1>6. ASSUME c.committed = d.committed PROVE DbOk(c)
  BY <1>1, <1>2, <1>3, <1>4, <1>5, <1>6 DEF DbOk
<1>7. ASSUME c.committed # d.committed PROVE DbOk(c)
  <2>1. d.at[c.committed].saved /\ c.committed <= n
    BY <1>1, <1>2, <1>7 DEF DbOk
  <2>2. OnChain(c.at[c.committed]) /\ c.at[c.committed].saved
    BY <1>1, <1>2, <1>3, <2>1
  <2>3. c.committed <= final
    BY <1>1, <1>2, <2>1
  <2> QED
    BY <1>1, <1>4, <1>5, <2>2, <2>3 DEF DbOk
<1>8. DbOk(c)
  BY <1>6, <1>7
<1> QED
  BY <1>1, <1>8 DEF c

-------------------------------------------------------------------------------

\* With the chain unmoved a database is in order after a step if it was before.
LEMMA DbOkUnmoved ==
    ASSUME UNCHANGED chainVars, DbOk(db') PROVE DbOk(db)'
<1>1. tip' = tip /\ final' = final /\ branch' = branch
  BY DEF chainVars
<1> QED
  BY <1>1 DEF DbOk, RevisionHoldsBlock, OnChain

\* Steps that touch neither the database nor what it mirrors: the exporter's
\* (TakeEvent, ack_block), Abort and Stop.
LEMMA OutsideStepInvariant ==
    ASSUME IInv, TypeOK', UNCHANGED <<shipVars, db>>,
           (pc' = "connecting" \/ SessionOpen') => UNCHANGED <<head, head_id, irreversible>>,
           SessionOpen' => SessionOpen,
           pc' = "connecting" => pc = "connecting"
    PROVE  IInv'
<1>1. UNCHANGED <<tip, branch, forks, final, lib, next, db>>
  BY DEF shipVars
<1>2. DbOk(db)'
  BY <1>1, DbOkUnmoved DEF IInv, chainVars
<1>3. MemoryInv'
  BY <1>1 DEF IInv, MemoryInv, Tables
<1>4. SessionInv'
  BY <1>1 DEF IInv, SessionInv, Tables, OnChain
<1> QED
  BY <1>1, <1>2, <1>3, <1>4 DEF IInv

\* The exporter taking an event preserves it (async_send_events).
LEMMA EventsInvariant ==
    ASSUME IInv, TakeEvent PROVE IInv'
<1>1. /\ UNCHANGED <<shipVars, db, pc, head, head_id, irreversible, forked_at_block,
                     exporter_acked_block, start_block_num, end_block_num>>
      /\ events # <<>> /\ events' = Tail(events)
  BY DEF TakeEvent, memory
<1>2. events' \in Seq(Events)
  BY <1>1 DEF IInv, TypeOK
<1>3. TypeOK'
  BY <1>1, <1>2 DEF IInv, TypeOK, ChainTypeOK, shipVars, IsDatabase
<1> QED
  BY <1>1, <1>3, OutsideStepInvariant DEF SessionOpen

\* So does an acknowledgement, whatever its number (ack_block).
LEMMA AckInvariant ==
    ASSUME IInv, NEW n \in Nat, ack_block(n) PROVE IInv'
<1>1. /\ UNCHANGED <<shipVars, db, head, head_id, irreversible, start_block_num,
                     end_block_num, events>>
      /\ exporter_acked_block' \in {n, exporter_acked_block}
      /\ forked_at_block' \in {0, forked_at_block}
      /\ pc' \in {pc, "quitting", "closed"}
      /\ pc' = "quitting" => SessionOpen
  BY DEF ack_block, AckEffect, Aborted, SessionOpen
<1>2. n \in Nat /\ exporter_acked_block \in Nat /\ forked_at_block \in Nat
  BY InvariantFacts
<1>3. TypeOK'
  BY <1>1, <1>2 DEF IInv, TypeOK, ChainTypeOK, shipVars, IsDatabase, ProcessStates
<1> QED
  BY <1>1, <1>3, OutsideStepInvariant DEF SessionOpen

\* So does an abort (abort_receiver).
LEMMA AbortInvariant ==
    ASSUME IInv, Abort PROVE IInv'
<1>1. /\ UNCHANGED <<shipVars, db, head, head_id, irreversible, forked_at_block,
                     exporter_acked_block, start_block_num, end_block_num, events>>
      /\ pc' \in {"quitting", "closed"}
      /\ pc' = "quitting" => SessionOpen
  BY DEF Abort, Aborted, SessionOpen, memory
<1>2. TypeOK'
  BY <1>1 DEF IInv, TypeOK, ChainTypeOK, shipVars, IsDatabase, ProcessStates
<1> QED
  BY <1>1, <1>2, OutsideStepInvariant DEF SessionOpen

\* So does the end of the process (close).
LEMMA StopInvariant ==
    ASSUME IInv, Stop PROVE IInv'
<1>1. 0 \in Versions
  BY ChainAssumption DEF Versions
<1>2. <<>> \in Seq(Events)
  OBVIOUS
<1>3. TypeOK'
  BY <1>1, <1>2 DEF Stop, IInv, TypeOK, ChainTypeOK, shipVars, IsDatabase, ProcessStates
<1> QED
  BY <1>3, OutsideStepInvariant DEF Stop, SessionOpen

-------------------------------------------------------------------------------

\* load_state: the process resumes from the committed tables.
LEMMA StartInvariant ==
    ASSUME IInv, NEW end \in EndBlocks, Start(end) PROVE IInv'
<1> DEFINE t == db.at[db.committed]
<1>1. /\ IsDatabase(UndoAll(db), TableContents) /\ DbOk(UndoAll(db))
      /\ UndoAll(db).committed = db.committed /\ UndoAll(db).revision = db.committed
      /\ Tables(UndoAll(db)) = t /\ UndoAll(db).at[db.committed] = t
  BY UndoAllOk, InvariantFacts, UndoAllDatabase
<1>2. /\ UNCHANGED <<tip, branch, forks, final, lib, next>>
      /\ db' = UndoAll(db) /\ pc' = "connecting"
      /\ head' = ResumeHead(t) /\ head_id' = t.head_id /\ irreversible' = t.irreversible
      /\ forked_at_block' \in {ResumeHead(t) + 1, 0}
      /\ exporter_acked_block' \in {ResumeHead(t), 0}
      /\ start_block_num' \in {0, StartBlock} /\ end_block_num' = end
      /\ events' = StartEvents(t, UndoDepth(db))
  BY <1>1 DEF Start, shipVars
<1>3. /\ t \in TableContents /\ RevisionHoldsBlock(db, db.committed)
      /\ db.committed \in Nat
  <2>1. db.committed \in db.committed .. db.revision /\ db.committed \in Nat
    BY InvariantFacts
  <2> QED
    BY <2>1, InvariantFacts DEF IInv, DbOk
<1>4. t.saved => t.head = db.committed
  BY <1>3 DEF RevisionHoldsBlock
<1>5. ~t.saved => t = EmptyTables
  BY <1>3 DEF RevisionHoldsBlock
<1>6. /\ ResumeHead(t) = IF t.saved THEN db.committed ELSE FirstHead
      /\ ResumeHead(t) \in Nat
  <2>1. t.saved => ResumeHead(t) = db.committed
    BY <1>4 DEF ResumeHead
  <2>2. ~t.saved => ResumeHead(t) = FirstHead
    BY <1>5 DEF FirstHead
  <2>3. FirstHead \in Nat
    BY Numbers
  <2>4. t.saved \in BOOLEAN
    BY <1>3 DEF TableContents
  <2> HIDE DEF t
  <2> QED
    BY <1>3, <2>1, <2>2, <2>3, <2>4
<1>7. events' \in Seq(Events)
  <2>1. /\ ForkEvent(ResumeHead(t) + 1, "resync") \in Events
        /\ ForkEvent(ResumeHead(t) + 1, "restart") \in Events
    BY <1>6 DEF ForkEvent, Events
  <2> QED
    BY <1>2, <2>1 DEF StartEvents
<1>8. TypeOK'
  <2>1. t.head_id \in Versions /\ t.irreversible \in Nat
    BY <1>3 DEF TableContents
  <2>2. StartBlock \in Nat /\ end \in Nat
    BY ReceiverAssumption, ChainAssumption
  <2>3. IsDatabase(db, TableContents)'
    BY <1>1, <1>2 DEF IsDatabase, TableContents
  <2> QED
    BY <1>2, <1>6, <1>7, <2>1, <2>2, <2>3
    DEF IInv, TypeOK, ChainTypeOK, ProcessStates
<1>9. DbOk(db)'
  BY <1>1, <1>2, DbOkUnmoved DEF chainVars
<1>10. MemoryInv'
  BY <1>1, <1>2, <1>6 DEF MemoryInv, Tables
<1>11. SessionInv'
  BY <1>2 DEF SessionInv, SessionOpen
<1> QED
  BY <1>2, <1>8, <1>9, <1>10, <1>11 DEF IInv

\* A refused start has reverted the database and nothing else (load_state).
LEMMA StartRefusedInvariant ==
    ASSUME IInv, NEW given, NEW end, StartRefused(given, end) PROVE IInv'
<1>1. /\ db' = UndoAll(db) /\ pc = "down"
      /\ UNCHANGED <<tip, branch, forks, final, lib, next, pc, head, head_id, irreversible,
                     forked_at_block, exporter_acked_block, start_block_num,
                     end_block_num, events>>
  BY DEF StartRefused, shipVars, memory
<1>2. IsDatabase(db', TableContents) /\ DbOk(db')
  BY <1>1, UndoAllOk
<1>3. TypeOK'
  BY <1>1, <1>2 DEF IInv, TypeOK, ChainTypeOK, IsDatabase, TableContents
<1>4. DbOk(db)'
  BY <1>1, <1>2, DbOkUnmoved DEF chainVars
<1>5. MemoryInv' /\ SessionInv'
  BY <1>1 DEF MemoryInv, SessionInv, SessionOpen
<1> QED
  BY <1>1, <1>3, <1>4, <1>5 DEF IInv

-------------------------------------------------------------------------------

\* What continue_read leaves the connection in.
LEMMA ContinueReadStates ==
    ASSUME NEW h, NEW l, NEW f, NEW a, NEW p \in ContinueRead(h, l, f, a)
    PROVE  p \in {"reading", "paused", "closed"}
BY DEF ContinueRead

\* A database whose committed and current revision are the same has nothing
\* but its committed tables.
LEMMA OneRevision ==
    ASSUME IInv, db.committed = db.revision
    PROVE  /\ \A r \in db.committed .. db.revision : r = db.committed
           /\ Tables(db).saved => OnChain(Tables(db)) /\ Tables(db).head = db.committed
           /\ ~Tables(db).saved => Tables(db) = EmptyTables /\ db.committed <= FirstHead
<1>1. db.committed \in Nat /\ db.committed \in db.committed .. db.revision
  BY InvariantFacts
<1>2. RevisionHoldsBlock(db, db.committed)
  BY <1>1 DEF IInv, DbOk
<1> QED
  BY <1>1, <1>2 DEF IInv, DbOk, RevisionHoldsBlock, Tables

\* The types when memory stays as it is.
LEMMA TypeKept ==
    ASSUME IInv, ChainTypeOK', IsDatabase(db', TableContents), pc' \in ProcessStates,
           UNCHANGED <<head, head_id, irreversible, forked_at_block, exporter_acked_block,
                       start_block_num, end_block_num, events>>
    PROVE  TypeOK'
<1>1. TypeOK
  BY DEF IInv
<1>2. IsDatabase(db, TableContents)'
  BY DEF IsDatabase, TableContents
<1> QED
  BY <1>1, <1>2 DEF TypeOK

\* request_blocks: every have_positions entry is on the chain, so the session
\* begins right above the head.
LEMMA RequestInvariant ==
    ASSUME IInv, RequestBlocks PROVE IInv'
<1>1. /\ pc = "connecting" /\ db.committed = db.revision
      /\ OpenSession(head + 1, Positions)
      /\ pc' \in {"reading", "paused", "closed"}
      /\ UNCHANGED <<db, head, head_id, irreversible, forked_at_block,
                     exporter_acked_block, start_block_num, end_block_num, events>>
  BY ContinueReadStates DEF RequestBlocks, IInv, MemoryInv, memory
<1>2. \A p \in Positions : branch[p[1]] = p[2]
  BY <1>1, OneRevision DEF Positions, OnChain, EmptyTables
<1>3. /\ next' = head + 1 /\ lib' \in 1 .. final
      /\ UNCHANGED <<tip, branch, forks, final>>
  <2>1. {p[1] : p \in {q \in Positions : branch[q[1]] # q[2]}} = {}
    BY <1>2
  <2>2. head + 1 <= head + 1
    BY InvariantFacts
  <2> QED
    BY <1>1, <2>1, <2>2 DEF OpenSession
<1>4. /\ head = IF Tables(db).saved THEN db.committed ELSE FirstHead
      /\ db.committed <= head /\ head <= final
  BY <1>1, OneRevision, InvariantFacts DEF IInv, MemoryInv
<1>5. TypeOK'
  <2>1. ChainTypeOK'
    <3>1. next' \in 1 .. MaxBlock + 1
      <4>1. head \in Nat /\ final \in 1 .. tip /\ tip \in 1 .. MaxBlock /\ MaxBlock \in Nat
        BY InvariantFacts
      <4> QED
        BY <1>3, <1>4, <4>1
    <3>2. ChainTypeOK
      BY DEF IInv, TypeOK
    <3> QED
      BY <1>3, <3>1, <3>2 DEF ChainTypeOK, BlockNums, Versions
  <2>2. IsDatabase(db', TableContents)
    BY <1>1, InvariantFacts
  <2>3. pc' \in ProcessStates
    BY <1>1 DEF ProcessStates
  <2> QED
    BY <1>1, <2>1, <2>2, <2>3, TypeKept
<1>6. DbOk(db)'
  BY <1>1, <1>3 DEF IInv, DbOk, RevisionHoldsBlock, OnChain
<1>7. MemoryInv'
  BY <1>1 DEF IInv, MemoryInv, Tables
<1>8. SessionInv'
  <2>1. \A r \in db.committed .. db.revision : db.at[r].saved => OnChain(db.at[r])
    BY <1>1, OneRevision DEF Tables
  <2>2. \A r \in db.committed .. db.revision : db.at[r].saved => OnChain(db.at[r])'
    BY <1>1, <1>3, <2>1 DEF OnChain
  <2>3. db.committed < next' /\ next' <= head + 1 /\ ~(next' <= head)
    <3>1. head \in Nat /\ db.committed \in Nat
      BY InvariantFacts
    <3>2. db.committed <= head /\ next' = head + 1
      BY <1>3, <1>4
    <3> QED
      BY <3>1, <3>2
  <2>4. db' = db /\ head' = head
    BY <1>1
  <2> QED
    BY <2>2, <2>3, <2>4 DEF SessionInv
<1> QED
  BY <1>1, <1>3, <1>5, <1>6, <1>7, <1>8 DEF IInv

-------------------------------------------------------------------------------

\* A step that closes the connection has only the database to keep in order.
LEMMA ClosingStepInvariant ==
    ASSUME IInv, TypeOK', UNCHANGED chainVars, pc' = "closed", DbOk(db')
    PROVE  IInv'
<1>1. DbOk(db)'
  BY DbOkUnmoved
<1>2. MemoryInv' /\ SessionInv'
  BY DEF MemoryInv, SessionInv, SessionOpen
<1> QED
  BY <1>1, <1>2 DEF IInv, chainVars

\* What commit_db is asked for is final, whatever was acknowledged.
LEMMA CommitRevisionFinal ==
    ASSUME NEW l \in Nat, NEW a \in Nat
    PROVE  CommitRevision(l, a) \in Nat /\ CommitRevision(l, a) <= l
BY DEF CommitRevision

\* What the database holds up to the LIB is the chain.
LEMMA FinalOnChain ==
    ASSUME IInv, SessionOpen
    PROVE  /\ irreversible <= final
           /\ \A r \in db.committed .. db.revision :
                 db.at[r].saved /\ r <= final => OnChain(db.at[r])
<1>1. /\ db.committed \in Nat /\ db.revision \in Nat /\ db.committed <= db.revision
      /\ next \in Nat /\ head \in Nat /\ final \in Nat
      /\ db.revision \in db.committed .. db.revision
  BY InvariantFacts
<1>2. RevisionHoldsBlock(db, db.revision) /\ irreversible = Tables(db).irreversible
  BY <1>1 DEF IInv, DbOk, MemoryInv
<1>3. irreversible <= final
  BY <1>1, <1>2 DEF RevisionHoldsBlock, Tables, EmptyTables
<1>4. /\ head = IF Tables(db).saved THEN db.revision ELSE FirstHead
      /\ next <= head + 1
      /\ next <= head => final < next
      /\ \A r \in db.committed .. db.revision : db.at[r].saved /\ r < next => OnChain(db.at[r])
      /\ \A r \in db.committed + 1 .. db.revision : db.at[r].saved
  BY DEF IInv, MemoryInv, SessionInv, DbOk
<1>5. ASSUME NEW r \in db.committed .. db.revision, db.at[r].saved, r <= final
      PROVE  r < next
  <2>1. CASE next <= head
    BY <1>1, <1>4, <1>5, <2>1
  <2>2. CASE ~(next <= head)
    <3>1. next = head + 1
      BY <1>1, <1>4, <2>2
    <3>2. Tables(db).saved
      BY <1>1, <1>4, <1>5 DEF Tables
    <3> QED
      BY <1>1, <1>4, <3>1, <3>2
  <2> QED
    BY <2>1, <2>2
<1> QED
  BY <1>3, <1>4, <1>5

\* check_pause on the timer: it commits once the end block is reached.
LEMMA PauseInvariant ==
    ASSUME IInv, PauseTimer PROVE IInv'
<1> DEFINE n == CommitRevision(irreversible, exporter_acked_block)
<1>1. /\ pc = "paused" /\ SessionOpen
      /\ pc' \in {"reading", "paused", "closed"}
      /\ db' = IF pc' = "closed" THEN Commit(db, n) ELSE db
      /\ UNCHANGED <<shipVars, head, head_id, irreversible, forked_at_block,
                     exporter_acked_block, start_block_num, end_block_num, events>>
  BY ContinueReadStates DEF PauseTimer, SessionOpen, memory
<1>2. n \in Nat /\ n <= final
  <2>1. irreversible \in Nat /\ exporter_acked_block \in Nat /\ final \in Nat
    BY InvariantFacts
  <2> QED
    BY <1>1, <2>1, FinalOnChain, CommitRevisionFinal
<1>3. IsDatabase(Commit(db, n), TableContents) /\ DbOk(Commit(db, n))
  <2>1. \A r \in db.committed .. db.revision : r \in Nat
    BY InvariantFacts
  <2>2. \A r \in db.committed .. db.revision : db.at[r].saved /\ r <= n => OnChain(db.at[r])
    BY <1>1, <1>2, <2>1, FinalOnChain, Numbers
  <2> HIDE DEF n
  <2> QED
    BY <1>2, <2>2, CommitOk, InvariantFacts DEF IInv
<1> HIDE DEF n
<1>4. IsDatabase(db', TableContents)
  BY <1>1, <1>3, InvariantFacts
<1>5. TypeOK'
  <2>1. ChainTypeOK
    BY DEF IInv, TypeOK
  <2>2. ChainTypeOK'
    BY <1>1, <2>1 DEF ChainTypeOK, shipVars
  <2>3. pc' \in ProcessStates
    BY <1>1 DEF ProcessStates
  <2> QED
    BY <1>1, <1>4, <2>2, <2>3, TypeKept
<1>6. ASSUME pc' = "closed" PROVE IInv'
  BY <1>1, <1>3, <1>5, <1>6, ClosingStepInvariant DEF shipVars, chainVars
<1>7. ASSUME pc' # "closed" PROVE IInv'
  BY <1>1, <1>5, <1>7, OutsideStepInvariant DEF SessionOpen
<1> QED
  BY <1>6, <1>7

-------------------------------------------------------------------------------

\* Moving the revision to below the block that arrives, which happens only to a
\* database without a saved state (receive_result's set_revision).
LEMMA AlignedOk ==
    ASSUME IInv, SessionOpen, ~(RevisionBehind /\ SetRevisionThrows(db))
    PROVE  /\ IsDatabase(AlignedDb, TableContents) /\ DbOk(AlignedDb)
           /\ RevisionBehind =>
                 /\ next = head + 1 /\ ~Tables(db).saved
                 /\ AlignedDb.committed = next - 1 /\ AlignedDb.revision = next - 1
                 /\ AlignedDb.at[next - 1] = EmptyTables
<1>1. /\ db.committed \in Nat /\ db.revision \in Nat /\ db.committed <= db.revision
      /\ next \in Nat /\ head \in Nat /\ FirstHead \in Nat /\ FirstHead <= MaxBlock
      /\ MaxBlock \in Nat
  BY InvariantFacts
<1>2. CASE ~RevisionBehind
  BY <1>2, InvariantFacts DEF AlignedDb, IInv
<1>3. CASE RevisionBehind
  <2>1. db.committed = db.revision /\ db.revision < next - 1
    BY <1>1, <1>3 DEF RevisionBehind, SetRevisionThrows, HasUndoSession
  <2>2. /\ head = IF Tables(db).saved THEN db.revision ELSE FirstHead
        /\ next <= head + 1
        /\ next <= head => Tables(db).saved
    BY DEF IInv, MemoryInv, SessionInv
  <2>3. ~Tables(db).saved /\ next = head + 1 /\ head = FirstHead
    BY <1>1, <2>1, <2>2
  <2>4. Tables(db) = EmptyTables
    BY <2>1, <2>3, OneRevision
  <2>5. next - 1 = FirstHead
    BY <1>1, <2>3
  <2>6. /\ IsDatabase(AlignedDb, TableContents)
        /\ AlignedDb.committed = FirstHead /\ AlignedDb.revision = FirstHead
        /\ AlignedDb.at[FirstHead] = EmptyTables
    <3>1. AlignedDb = SetRevision(db, FirstHead)
      BY <1>3, <2>5 DEF AlignedDb
    <3>2. IsDatabase(db, TableContents)
      BY InvariantFacts
    <3> QED
      BY <1>1, <2>4, <3>1, <3>2, SetRevisionDatabase
  <2> DEFINE d == AlignedDb
  <2> HIDE DEF d
  <2>7. \A r \in d.committed .. d.revision : r = FirstHead
    BY <1>1, <2>6 DEF d
  <2>8. DbOk(d)
    BY <1>1, <2>6, <2>7, InvariantFacts DEF DbOk, RevisionHoldsBlock, d
  <2> QED
    BY <2>3, <2>5, <2>6, <2>8 DEF d
<1> QED
  BY <1>2, <1>3

\* After the checks and a fork's rollback the database stands at the block
\* before the one that arrives, and everything in it is the chain.
LEMMA PreparedOk ==
    ASSUME IInv, CanRead, ~Rejected
    PROVE  /\ IsDatabase(PreparedDb, TableContents) /\ DbOk(PreparedDb)
           /\ PreparedDb.revision = next - 1
           /\ ~PreparedDb.at[PreparedDb.committed].saved => PreparedDb.committed = FirstHead
           /\ \A r \in PreparedDb.committed .. PreparedDb.revision :
                 PreparedDb.at[r].saved => OnChain(PreparedDb.at[r])
<1>1. /\ db.committed \in Nat /\ db.revision \in Nat /\ db.committed <= db.revision
      /\ next \in Nat /\ head \in Nat /\ FirstHead \in Nat /\ final \in Nat
      /\ lib \in Nat /\ lib <= final /\ db.committed <= final
      /\ IsDatabase(db, TableContents)
  BY InvariantFacts
<1>2. SessionOpen /\ ~(RevisionBehind /\ SetRevisionThrows(db))
  BY DEF CanRead, Rejected, SessionOpen
<1>3. /\ head = IF Tables(db).saved THEN db.revision ELSE FirstHead
      /\ db.committed < next /\ next <= head + 1
      /\ next <= head => final < next /\ Tables(db).saved
      /\ \A r \in db.committed .. db.revision : db.at[r].saved /\ r < next => OnChain(db.at[r])
  BY <1>2 DEF IInv, MemoryInv, SessionInv
<1>4. DbOk(db)
  BY DEF IInv
<1>5. CASE RevisionBehind
  <2>1. PreparedDb = AlignedDb
    BY <1>1, <1>2, <1>5, AlignedOk DEF PreparedDb, ForkDetected
  <2>2. /\ IsDatabase(AlignedDb, TableContents) /\ DbOk(AlignedDb)
        /\ AlignedDb.committed = next - 1 /\ AlignedDb.revision = next - 1
        /\ AlignedDb.at[next - 1] = EmptyTables
        /\ next = head + 1 /\ ~Tables(db).saved
    BY <1>2, <1>5, AlignedOk
  <2>3. \A r \in AlignedDb.committed .. AlignedDb.revision : AlignedDb.at[r] = EmptyTables
    BY <1>1, <2>2
  <2> QED
    BY <1>1, <1>3, <2>1, <2>2, <2>3, InvariantFacts
<1>6. CASE ~RevisionBehind /\ ForkDetected
  <2> DEFINE d == UndoFrom(db, next)
  <2>1. /\ next <= head /\ Tables(db).saved /\ final < next
        /\ db.committed < next /\ next <= db.revision
    BY <1>1, <1>3, <1>6 DEF ForkDetected
  <2>2. /\ IsDatabase(d, TableContents)
        /\ d.committed = db.committed /\ d.revision = next - 1
        /\ \A r \in d.committed .. d.revision : d.at[r] = db.at[r]
    BY <1>1, <2>1, UndoFromDatabase
  <2> HIDE DEF d
  <2>3. \A r \in d.committed .. d.revision : r \in db.committed .. db.revision /\ r < next
    BY <1>1, <2>1, <2>2
  <2>4. d.at[d.committed] = db.at[db.committed] /\ d.committed \in d.committed .. d.revision
    BY <1>1, <2>1, <2>2
  <2>5. ASSUME NEW r \in d.committed .. d.revision
        PROVE  RevisionHoldsBlock(d, r) /\ (d.at[r].saved => OnChain(d.at[r]))
    BY <1>3, <1>4, <2>2, <2>3 DEF RevisionHoldsBlock, DbOk
  <2>6. \A r \in d.committed + 1 .. d.revision : d.at[r].saved
    <3> SUFFICES ASSUME NEW r \in d.committed + 1 .. d.revision PROVE d.at[r].saved
      OBVIOUS
    <3>1. r \in db.committed + 1 .. db.revision /\ r \in d.committed .. d.revision
      BY <1>1, <2>1, <2>2
    <3> QED
      BY <1>4, <2>2, <3>1 DEF DbOk
  <2>7. DbOk(d)
    BY <1>1, <1>4, <2>1, <2>2, <2>4, <2>5, <2>6, InvariantFacts DEF DbOk
  <2>8. ~d.at[d.committed].saved => d.committed = FirstHead
    BY <1>1, <1>4, <2>1, <2>2, <2>4 DEF DbOk
  <2>9. PreparedDb = d
    BY <1>6 DEF PreparedDb, AlignedDb, d
  <2> QED
    BY <2>2, <2>5, <2>7, <2>8, <2>9
<1>7. CASE ~RevisionBehind /\ ~ForkDetected
  <2>1. next = head + 1 /\ PreparedDb = db
    BY <1>1, <1>3, <1>7 DEF ForkDetected, PreparedDb, AlignedDb
  <2>2. db.revision >= next - 1
    BY <1>1, <1>7 DEF RevisionBehind
  <2>3. ASSUME Tables(db).saved
        PROVE  db.revision = next - 1 /\ (~db.at[db.committed].saved => db.committed = FirstHead)
    <3>1. db.revision = next - 1
      BY <1>1, <1>3, <2>1, <2>3
    <3> QED
      BY <1>1, <1>4, <2>3, <3>1 DEF DbOk, Tables
  <2>4. ASSUME ~Tables(db).saved
        PROVE  db.revision = next - 1 /\ (~db.at[db.committed].saved => db.committed = FirstHead)
    <3>1. db.committed = db.revision
      BY <1>1, <1>4, <2>4 DEF DbOk, Tables
    <3>2. db.committed <= FirstHead
      BY <2>4, <3>1, OneRevision
    <3> QED
      BY <1>1, <1>3, <2>1, <2>2, <2>4, <3>1, <3>2
  <2>5. db.revision = next - 1 /\ (~db.at[db.committed].saved => db.committed = FirstHead)
    BY <2>3, <2>4
  <2>6. ASSUME NEW r \in db.committed .. db.revision, db.at[r].saved PROVE OnChain(db.at[r])
    BY <1>1, <1>3, <2>5, <2>6
  <2> QED
    BY <1>1, <1>4, <2>1, <2>5, <2>6
<1> QED
  BY <1>5, <1>6, <1>7

\* A result that is rejected by the checks closes the connection.
LEMMA RejectInvariant ==
    ASSUME IInv, RejectResult PROVE IInv'
<1>1. /\ SessionOpen /\ pc' = "closed" /\ next' = next + 1
      /\ next <= tip
      /\ UNCHANGED <<tip, branch, forks, final, lib, head, head_id, irreversible,
                     forked_at_block, exporter_acked_block, start_block_num,
                     end_block_num, events>>
      /\ db' = IF lib < irreversible \/ SetRevisionThrows(db) THEN db ELSE AlignedDb
  <2>1. next <= (IF IrreversibleOnly THEN lib ELSE tip)
    BY DEF RejectResult, CanRead
  <2>2. next \in Nat /\ lib \in Nat /\ tip \in Nat /\ lib <= tip
    BY Numbers
  <2> QED
    BY <2>1, <2>2 DEF RejectResult, CanRead, SessionOpen, chainVars, memory
<1>2. IsDatabase(db', TableContents) /\ DbOk(db')
  BY <1>1, AlignedOk, InvariantFacts DEF IInv
<1>3. next' \in 1 .. MaxBlock + 1
  <2>1. next' = next + 1 /\ next <= tip
    BY <1>1
  <2> QED
    BY <2>1, Numbers
<1>4. TypeOK'
  <2>1. ChainTypeOK
    BY DEF IInv, TypeOK
  <2>2. ChainTypeOK'
    BY <1>1, <1>3, <2>1 DEF ChainTypeOK, BlockNums, Versions
  <2>3. pc' \in ProcessStates
    BY <1>1 DEF ProcessStates
  <2> QED
    BY <1>1, <1>2, <2>2, <2>3, TypeKept
<1> QED
  BY <1>1, <1>2, <1>4, ClosingStepInvariant DEF chainVars

-------------------------------------------------------------------------------

\* The head moves to the block that arrives.
LEMMA AcceptFacts ==
    ASSUME IInv, AcceptResult
    PROVE  /\ CanRead /\ ~Rejected
           /\ next \in 1 .. tip
           /\ head' = next /\ head_id' = branch[next] /\ irreversible' = lib
           /\ forked_at_block' \in {next, forked_at_block}
           /\ exporter_acked_block' = PreparedAck
           /\ PreparedAck \in Nat
           /\ next' = next + 1 /\ next' \in 1 .. MaxBlock + 1
           /\ UNCHANGED <<tip, branch, forks, final, lib, start_block_num, end_block_num>>
<1>1. /\ CanRead /\ ~Rejected
      /\ head' = next /\ head_id' = branch[next] /\ irreversible' = lib
      /\ forked_at_block' \in {next, forked_at_block}
      /\ exporter_acked_block' = PreparedAck
      /\ next' = next + 1
      /\ UNCHANGED <<tip, branch, forks, final, lib, start_block_num, end_block_num>>
  BY DEF AcceptResult, chainVars
<1>2. /\ next \in 1 .. MaxBlock + 1 /\ lib \in Nat /\ tip \in 1 .. MaxBlock /\ lib <= tip
      /\ MaxBlock \in Nat /\ exporter_acked_block \in Nat
  BY InvariantFacts
<1>3. next <= tip
  BY <1>1, <1>2 DEF CanRead
<1>4. PreparedAck \in Nat
  BY <1>2 DEF PreparedAck
<1> QED
  BY <1>1, <1>2, <1>3, <1>4

\* The numbers while a block is accepted (receive_result).
LEMMA AcceptNumbers ==
    ASSUME IInv, AcceptResult
    PROVE  /\ next \in 1 .. tip /\ next \in Nat /\ tip \in 1 .. MaxBlock /\ MaxBlock \in Nat
           /\ lib \in Nat /\ final \in Nat /\ lib <= final
           /\ branch \in [1 .. MaxBlock -> 0 .. MaxForks]
           /\ PreparedAck \in Nat /\ FirstHead \in Nat
<1>1. next \in 1 .. tip /\ PreparedAck \in Nat
  BY AcceptFacts
<1> QED
  BY <1>1, Numbers

\* The types of what an accepted block leaves, whatever its handler did to the
\* database.
LEMMA AcceptedTypes ==
    ASSUME IInv, AcceptResult, IsDatabase(db', TableContents),
           pc' \in {"reading", "paused", "closed"}, events' \in Seq(Events)
    PROVE  TypeOK'
<1>1. ChainTypeOK'
  <2>1. ChainTypeOK
    BY DEF IInv, TypeOK
  <2> QED
    BY <2>1, AcceptFacts DEF ChainTypeOK, BlockNums, Versions
<1>2. head' \in Nat /\ head_id' \in Versions /\ irreversible' \in Nat
  <2>1. head' = next /\ head_id' = branch[next] /\ irreversible' = lib
    BY AcceptFacts
  <2> QED
    BY <2>1, AcceptNumbers DEF Versions
<1>3. forked_at_block' \in Nat /\ exporter_acked_block' \in Nat
  <2>1. next \in Nat /\ forked_at_block \in Nat
    BY InvariantFacts
  <2> QED
    BY <2>1, AcceptFacts
<1>4. start_block_num' \in Nat /\ end_block_num' \in Nat
  BY AcceptFacts DEF IInv, TypeOK
<1> QED
  BY <1>1, <1>2, <1>3, <1>4 DEF TypeOK, ProcessStates, IsDatabase, TableContents

\* The events of an accepted block.
LEMMA PreparedEventsType ==
    ASSUME IInv, AcceptResult
    PROVE  /\ PreparedEvents \in Seq(Events)
           /\ BlockEvent(next, branch[next], lib) \in Events
           /\ PartialEvent(next) \in Events
<1>1. /\ next \in Nat /\ next \in BlockNums /\ branch[next] \in Versions /\ lib \in Nat
  BY AcceptNumbers DEF BlockNums, Versions
<1>2. /\ ForkEvent(next, "network") \in Events
      /\ BlockEvent(next, branch[next], lib) \in Events
      /\ PartialEvent(next) \in Events
  BY <1>1 DEF Events, ForkEvent, BlockEvent, PartialEvent
<1>3. events \in Seq(Events)
  BY DEF IInv, TypeOK
<1> QED
  BY <1>2, <1>3 DEF PreparedEvents

\* What receive_block and save_state store is the state after the block.
LEMMA SavedTablesOk ==
    ASSUME IInv, AcceptResult
    PROVE  /\ SavedTables \in TableContents
           /\ SavedTables.saved /\ SavedTables.head = next
           /\ SavedTables.head_id = branch[next] /\ SavedTables.irreversible = lib
           /\ \A p \in SavedTables.received : p[1] <= next
           /\ OnChain(SavedTables)
<1> DEFINE d == PreparedDb
<1>1. /\ IsDatabase(d, TableContents) /\ DbOk(d) /\ d.revision = next - 1
      /\ \A r \in d.committed .. d.revision : d.at[r].saved => OnChain(d.at[r])
  BY AcceptFacts, PreparedOk
<1>2. /\ next \in 1 .. tip /\ tip \in 1 .. MaxBlock /\ lib \in Nat
      /\ branch \in [1 .. MaxBlock -> 0 .. MaxForks] /\ MaxBlock \in Nat
  BY AcceptNumbers
<1> DEFINE t == Tables(d)
<1> HIDE DEF d
<1>3. d.revision \in d.committed .. d.revision /\ t \in TableContents
  BY <1>1 DEF IsDatabase, Tables
<1>4. RevisionHoldsBlock(d, d.revision) /\ (t.saved => OnChain(t))
  BY <1>1, <1>3 DEF DbOk, Tables
<1> HIDE DEF t
<1>5. \A p \in t.received : p \in BlockIds /\ p[1] <= next /\ p[2] = branch[p[1]]
  <2>1. CASE t.saved
    <3>1. \A p \in t.received : p[1] <= next - 1 /\ p[2] = branch[p[1]]
      BY <1>1, <1>4, <2>1 DEF RevisionHoldsBlock, OnChain, Tables, t
    <3>2. \A p \in t.received : p \in BlockIds /\ p[1] \in BlockNums
      BY <1>3 DEF TableContents, BlockIds
    <3>3. next \in Nat /\ \A n \in BlockNums : n <= next - 1 => n <= next
      BY <1>2 DEF BlockNums
    <3> QED
      BY <3>1, <3>2, <3>3
  <2>2. CASE ~t.saved
    BY <1>4, <2>2 DEF RevisionHoldsBlock, EmptyTables, Tables, t
  <2> QED
    BY <2>1, <2>2
<1>6. <<next, branch[next]>> \in BlockIds /\ branch[next] \in Versions /\ next \in Nat
  BY <1>2 DEF BlockIds, BlockNums, Versions
<1>7. \A p \in ReceivedRows : p \in t.received \cup {<<next, branch[next]>>}
  BY DEF ReceivedRows, t, d
<1>8. \A p \in ReceivedRows : p \in BlockIds /\ p[1] <= next /\ p[2] = branch[p[1]]
  BY <1>5, <1>6, <1>7
<1> QED
  BY <1>2, <1>6, <1>8 DEF SavedTables, TableContents, OnChain

\* The undo stack with the new block's revision on top.
LEMMA PushedOk ==
    ASSUME IInv, AcceptResult, NEW d, d = PushRevision(PreparedDb, SavedTables)
    PROVE  /\ IsDatabase(d, TableContents) /\ DbOk(d)
           /\ d.revision = next /\ d.at[next] = SavedTables
           /\ \A r \in d.committed .. d.revision : d.at[r].saved => OnChain(d.at[r])
<1> DEFINE c == PreparedDb
<1>1. /\ IsDatabase(c, TableContents) /\ DbOk(c) /\ c.revision = next - 1
      /\ ~c.at[c.committed].saved => c.committed = FirstHead
      /\ \A r \in c.committed .. c.revision : c.at[r].saved => OnChain(c.at[r])
  BY AcceptFacts, PreparedOk
<1>2. /\ SavedTables \in TableContents
      /\ SavedTables.saved /\ SavedTables.head = next
      /\ SavedTables.head_id = branch[next] /\ SavedTables.irreversible = lib
      /\ \A p \in SavedTables.received : p[1] <= next
      /\ OnChain(SavedTables)
  BY SavedTablesOk
<1>3. /\ next \in 1 .. tip /\ tip \in 1 .. MaxBlock /\ MaxBlock \in Nat
      /\ lib <= final /\ FirstHead \in Nat
  BY AcceptNumbers
<1> HIDE DEF c
<1>4. /\ IsDatabase(d, TableContents)
      /\ d.committed = c.committed /\ d.revision = c.revision + 1
      /\ d.at[c.revision + 1] = SavedTables
      /\ \A r \in c.committed .. c.revision : d.at[r] = c.at[r]
  BY <1>1, <1>2, PushDatabase DEF c
<1>5. c.committed \in Nat /\ c.committed <= c.revision /\ c.committed \in c.committed .. c.revision
  BY <1>1 DEF IsDatabase
<1>6. d.revision = next /\ d.at[next] = SavedTables
  BY <1>1, <1>3, <1>4
<1>7. \A r \in d.committed .. d.revision : r \in c.committed .. c.revision \/ r = next
  BY <1>1, <1>3, <1>4, <1>5
<1>8. ASSUME NEW r \in d.committed .. d.revision
      PROVE  RevisionHoldsBlock(d, r) /\ (d.at[r].saved => OnChain(d.at[r]))
  <2>1. CASE r \in c.committed .. c.revision
    BY <1>1, <1>4, <2>1 DEF RevisionHoldsBlock, DbOk
  <2>2. CASE r = next
    BY <1>2, <1>3, <1>6, <2>2 DEF RevisionHoldsBlock
  <2> QED
    BY <1>7, <2>1, <2>2
<1>9. ASSUME NEW r \in d.committed + 1 .. d.revision PROVE d.at[r].saved
  <2>1. r \in c.committed + 1 .. c.revision \/ r = next
    BY <1>1, <1>3, <1>4, <1>5
  <2>2. CASE r = next
    BY <1>2, <1>6, <2>2
  <2>3. CASE r \in c.committed + 1 .. c.revision
    <3>1. r \in c.committed .. c.revision
      BY <1>5, <2>3
    <3> QED
      BY <1>1, <1>4, <2>3, <3>1 DEF DbOk
  <2> QED
    BY <2>1, <2>2, <2>3
<1>10. d.at[d.committed] = c.at[c.committed]
  BY <1>4, <1>5
<1>11. DbOk(d)
  <2>1. d.at[d.committed].saved => d.committed <= final /\ OnChain(d.at[d.committed])
    BY <1>1, <1>4, <1>10 DEF DbOk
  <2>2. ~d.at[d.committed].saved => d.committed = FirstHead
    BY <1>1, <1>4, <1>10
  <2>3. d.revision <= MaxBlock /\ (d.committed = FirstHead => d.committed <= FirstHead)
    BY <1>3, <1>6
  <2> QED
    BY <1>8, <1>9, <2>1, <2>2, <2>3 DEF DbOk
<1> QED
  BY <1>4, <1>6, <1>8, <1>11

\* receive_result for a block that is stored, with commit_db, whether its
\* traces are read or not.
LEMMA ReceiveInvariant ==
    ASSUME IInv, ReceiveBlock \/ ReceiveTracesFails PROVE IInv'
<1> DEFINE d == PushRevision(PreparedDb, SavedTables)
           n == CommitRevision(lib, PreparedAck)
<1>0. AcceptResult
  BY DEF ReceiveBlock, ReceiveTracesFails, StoreBlock
<1>1. /\ db' = Commit(d, n)
      /\ \/ events' = Append(PreparedEvents, BlockEvent(next, branch[next], lib))
         \/ events' = Append(PreparedEvents, PartialEvent(next))
      /\ pc' \in {"reading", "paused", "closed"}
  BY ContinueReadStates DEF ReceiveBlock, ReceiveTracesFails, StoreBlock
<1>2. /\ IsDatabase(d, TableContents) /\ DbOk(d)
      /\ d.revision = next /\ d.at[next] = SavedTables
      /\ \A r \in d.committed .. d.revision : d.at[r].saved => OnChain(d.at[r])
  BY <1>0, PushedOk
<1>3. n \in Nat /\ n <= final
  <2>1. lib \in Nat /\ final \in Nat /\ lib <= final /\ PreparedAck \in Nat
    BY <1>0, AcceptNumbers
  <2> QED
    BY <2>1, CommitRevisionFinal
<1> HIDE DEF d, n
<1>4. IsDatabase(db', TableContents) /\ DbOk(db')
  BY <1>1, <1>2, <1>3, CommitOk
<1>5. /\ db'.committed \in d.committed .. d.revision /\ db'.revision = next
      /\ \A r \in db'.committed .. db'.revision : db'.at[r] = d.at[r]
  BY <1>1, <1>2, <1>3, CommitDatabase
<1>6. /\ d.committed \in Nat /\ next \in 1 .. tip /\ tip \in 1 .. MaxBlock /\ MaxBlock \in Nat
      /\ next' = next + 1 /\ head' = next /\ head_id' = branch[next] /\ irreversible' = lib
      /\ UNCHANGED <<tip, branch, forks, final, lib>>
  <2>1. d.committed \in Nat
    BY <1>2 DEF IsDatabase
  <2> QED
    BY <1>0, <2>1, AcceptFacts, AcceptNumbers
<1>7. Tables(db') = SavedTables
  BY <1>2, <1>5, <1>6 DEF Tables
<1>8. TypeOK'
  <2>1. events' \in Seq(Events)
    BY <1>0, <1>1, PreparedEventsType
  <2> QED
    BY <1>0, <1>1, <1>4, <2>1, AcceptedTypes
<1>9. DbOk(db)'
  BY <1>4, <1>6, DbOkUnmoved DEF chainVars
<1>10. MemoryInv'
  <2>1. /\ SavedTables.saved /\ SavedTables.head_id = branch[next]
        /\ SavedTables.irreversible = lib
    BY <1>0, SavedTablesOk
  <2> QED
    BY <1>1, <1>5, <1>6, <1>7, <2>1 DEF MemoryInv, Tables
<1>11. SessionInv'
  <2>1. db'.committed < next' /\ next' <= head' + 1 /\ ~(next' <= head')
    BY <1>2, <1>5, <1>6
  <2>2. \A r \in db'.committed .. db'.revision : db'.at[r].saved => OnChain(db'.at[r])
    <3> SUFFICES ASSUME NEW r \in db'.committed .. db'.revision, db'.at[r].saved
                 PROVE  OnChain(db'.at[r])
      OBVIOUS
    <3>1. r \in d.committed .. d.revision
      BY <1>2, <1>5, <1>6
    <3> QED
      BY <1>2, <1>5, <3>1
  <2> QED
    BY <1>6, <2>1, <2>2 DEF SessionInv, OnChain
<1> QED
  BY <1>6, <1>8, <1>9, <1>10, <1>11 DEF IInv

\* receive_result for a block whose handler throws.
LEMMA ReceiveFailsInvariant ==
    ASSUME IInv, ReceiveBlockFails PROVE IInv'
<1>1. /\ AcceptResult /\ db' = PreparedDb /\ pc' = "closed"
      /\ events' = Append(PreparedEvents, PartialEvent(next))
  BY DEF ReceiveBlockFails
<1>2. IsDatabase(db', TableContents) /\ DbOk(db')
  BY <1>1, AcceptFacts, PreparedOk
<1>3. events' \in Seq(Events)
  BY <1>1, PreparedEventsType
<1>4. TypeOK'
  BY <1>1, <1>2, <1>3, AcceptedTypes
<1> QED
  BY <1>1, <1>2, <1>4, AcceptFacts, ClosingStepInvariant DEF chainVars

-------------------------------------------------------------------------------

\* Every step keeps the invariant.
LEMMA StepInvariant ==
    ASSUME PromptShip, IInv, [Next]_vars PROVE IInv'
<1>1. CASE UNCHANGED vars
  <2>1. UNCHANGED <<shipVars, db, pc, head, head_id, irreversible, forked_at_block,
                    exporter_acked_block, start_block_num, end_block_num, events>>
    BY <1>1 DEF vars, receiverVars, memory
  <2>2. TypeOK'
    BY <2>1 DEF IInv, TypeOK, ChainTypeOK, shipVars, IsDatabase, TableContents
  <2> QED
    BY <2>1, <2>2, OutsideStepInvariant DEF SessionOpen
<1>2. CASE ChainStep
  BY <1>2, ChainStepInvariant
<1>3. CASE ReceiverStep
  <2>1. CASE \E end \in EndBlocks : Start(end)
    BY <2>1, StartInvariant
  <2>2. CASE \E given \in {0, StartBlock}, end \in EndBlocks : StartRefused(given, end)
    BY <2>2, StartRefusedInvariant
  <2>3. CASE RequestBlocks
    BY <2>3, RequestInvariant
  <2>4. CASE PauseTimer
    BY <2>4, PauseInvariant
  <2>5. CASE RejectResult
    BY <2>5, RejectInvariant
  <2>6. CASE ReceiveBlock \/ ReceiveTracesFails
    BY <2>6, ReceiveInvariant
  <2>7. CASE ReceiveBlockFails
    BY <2>7, ReceiveFailsInvariant
  <2>8. CASE Abort
    BY <2>8, AbortInvariant
  <2>9. CASE Stop
    BY <2>9, StopInvariant
  <2> QED
    BY <1>3, <2>1, <2>2, <2>3, <2>4, <2>5, <2>6, <2>7, <2>8, <2>9 DEF ReceiverStep
<1>4. CASE ExporterStep
  BY <1>4, EventsInvariant, AckInvariant DEF ExporterStep
<1> QED
  BY <1>1, <1>2, <1>3, <1>4 DEF Next

\* Whatever the exporter, the operator and the chain do, the undo stack holds
\* one revision per block above a final committed one, memory mirrors the
\* database and all below the cursor is the chain (receive_result, commit_db).
THEOREM Invariance ==
    ASSUME PromptShip PROVE Spec => []IInv
<1>1. Init => IInv
  BY InitInvariant
<1>2. IInv /\ [Next]_vars => IInv'
  BY StepInvariant
<1> QED
  BY <1>1, <1>2, PTL DEF Spec

-------------------------------------------------------------------------------
(* What the invariant means.                                                  *)

\* The invariant implies CommittedFinal (commit_db).
LEMMA CommittedFinalHolds ==
    ASSUME IInv PROVE CommittedFinal
<1>1. db.committed \in db.committed .. db.revision
  BY InvariantFacts
<1>2. RevisionHoldsBlock(db, db.committed)
  BY <1>1 DEF IInv, DbOk
<1> QED
  BY <1>2 DEF IInv, DbOk, CommittedFinal, RevisionHoldsBlock, OnChain

\* The invariant implies UndoStackAligned (save_state).
LEMMA UndoStackAlignedHolds ==
    ASSUME IInv PROVE UndoStackAligned
<1> SUFFICES ASSUME SessionOpen, Tables(db).saved
             PROVE  /\ db.revision = head
                    /\ \A r \in db.committed .. db.revision :
                          db.at[r].saved => /\ db.at[r].head = r
                                            /\ r < next => db.at[r].head_id = branch[r]
  BY DEF UndoStackAligned
<1>1. db.revision = head
  BY DEF IInv, MemoryInv
<1>2. ASSUME NEW r \in db.committed .. db.revision, db.at[r].saved
      PROVE  /\ db.at[r].head = r
             /\ r < next => db.at[r].head_id = branch[r]
  <2>1. RevisionHoldsBlock(db, r)
    BY DEF IInv, DbOk
  <2>2. db.at[r].head = r
    BY <1>2, <2>1 DEF RevisionHoldsBlock
  <2> QED
    BY <1>2, <2>2 DEF IInv, SessionInv, OnChain
<1> QED
  BY <1>1, <1>2

\* The invariant implies RollbackReachable (receive_result).
LEMMA RollbackReachableHolds ==
    ASSUME IInv PROVE RollbackReachable
<1> SUFFICES ASSUME CanRead, ForkDetected, ~Rejected
             PROVE  UndoTerminates(AlignedDb, next) /\ PreparedDb.revision > 0
  BY DEF RollbackReachable
<1>1. /\ SessionOpen /\ ~(RevisionBehind /\ SetRevisionThrows(db))
      /\ next <= head
  BY DEF CanRead, Rejected, SessionOpen, ForkDetected
<1>2. /\ next \in Nat /\ head \in Nat /\ final \in Nat /\ 1 <= final
  BY InvariantFacts
<1>3. final < next /\ db.committed < next
  BY <1>1 DEF IInv, SessionInv
<1>4. AlignedDb = db
  BY <1>1, <1>2, AlignedOk DEF AlignedDb
<1>5. PreparedDb.revision = next - 1
  BY PreparedOk
<1> QED
  BY <1>2, <1>3, <1>4, <1>5 DEF UndoTerminates

\* The invariant implies ReceivedRowsSound (receive_result, request_blocks).
LEMMA ReceivedRowsSoundHolds ==
    ASSUME IInv PROVE ReceivedRowsSound
<1>1. ASSUME CanRead, ~Rejected PROVE ~RowExists
  <2> DEFINE d == PreparedDb
             t == d.at[d.revision]
  <2>1. /\ IsDatabase(d, TableContents) /\ DbOk(d) /\ d.revision = next - 1
    BY <1>1, PreparedOk
  <2>2. next \in Nat
    BY InvariantFacts
  <2> HIDE DEF d
  <2>3. d.revision \in d.committed .. d.revision
    BY <2>1 DEF IsDatabase
  <2>4. RevisionHoldsBlock(d, d.revision)
    BY <2>1, <2>3 DEF DbOk
  <2> HIDE DEF t
  <2>5. \A p \in t.received : p[1] <= next - 1
    BY <2>1, <2>4 DEF RevisionHoldsBlock, EmptyTables, t
  <2>6. \A p \in t.received : p[1] # next
    BY <2>2, <2>5
  <2> QED
    BY <2>6 DEF RowExists, Tables, t, d
<1>2. ASSUME pc = "connecting" PROVE \A p \in Positions : branch[p[1]] = p[2]
  <2>1. db.committed = db.revision
    BY <1>2 DEF IInv, MemoryInv
  <2> QED
    BY <2>1, OneRevision DEF Positions, OnChain, EmptyTables
<1> QED
  BY <1>1, <1>2 DEF ReceivedRowsSound

\* TypeOK: every variable has its type, and the database is one.
THEOREM TypeCorrect ==
    ASSUME PromptShip PROVE Spec => []TypeOK
<1>1. IInv => TypeOK
  BY DEF IInv
<1> QED
  BY <1>1, Invariance, PTL

\* A restart goes back to a final block of the chain (commit_db, load_state).
THEOREM CommitsOnlyFinal ==
    ASSUME PromptShip PROVE Spec => []CommittedFinal
<1>1. IInv => CommittedFinal
  BY CommittedFinalHolds
<1> QED
  BY <1>1, Invariance, PTL

\* Revisions are block numbers (receive_result).
THEOREM RevisionsAligned ==
    ASSUME PromptShip PROVE Spec => []UndoStackAligned
<1>1. IInv => UndoStackAligned
  BY UndoStackAlignedHolds
<1> QED
  BY <1>1, Invariance, PTL

\* The undo loop of a fork terminates (receive_result).
THEOREM RollbacksEnd ==
    ASSUME PromptShip PROVE Spec => []RollbackReachable
<1>1. IInv => RollbackReachable
  BY RollbackReachableHolds
<1> QED
  BY <1>1, Invariance, PTL

\* No received_block row is made twice, and have_positions are sound
\* (receive_result, request_blocks).
THEOREM RowsSound ==
    ASSUME PromptShip PROVE Spec => []ReceivedRowsSound
<1>1. IInv => ReceivedRowsSound
  BY ReceivedRowsSoundHolds
<1> QED
  BY <1>1, Invariance, PTL

-------------------------------------------------------------------------------

\* All that is new in the events is above the committed block.
NewEventsAbove(s, t, n) ==
    \A i \in DOMAIN t : i > Len(s) => t[i].num > n

\* Appending an event above n keeps the new events above n.
LEMMA AppendAbove ==
    ASSUME NEW s \in Seq(Events), NEW t \in Seq(Events), NEW e \in Events, NEW n \in Nat,
           NewEventsAbove(s, t, n), e.num > n
    PROVE  NewEventsAbove(s, Append(t, e), n)
<1> SUFFICES ASSUME NEW i \in DOMAIN Append(t, e), i > Len(s)
             PROVE  Append(t, e)[i].num > n
  BY DEF NewEventsAbove
<1>1. i \in 1 .. Len(t) + 1
  OBVIOUS
<1>2. CASE i = Len(t) + 1
  BY <1>2
<1>3. CASE i \in 1 .. Len(t)
  <2>1. Append(t, e)[i] = t[i] /\ i \in DOMAIN t
    BY <1>3
  <2> QED
    BY <2>1 DEF NewEventsAbove
<1> QED
  BY <1>1, <1>2, <1>3

\* The events of a block that was read are those of its number.
LEMMA AcceptedAbove ==
    ASSUME IInv, AcceptResult, NEW e \in Events, e.num = next
    PROVE  NewEventsAbove(events, Append(PreparedEvents, e), db.committed)
<1>1. /\ events \in Seq(Events) /\ PreparedEvents \in Seq(Events)
      /\ db.committed \in Nat /\ next \in Nat /\ db.committed < next
  <2>1. events \in Seq(Events)
    BY DEF IInv, TypeOK
  <2>2. PreparedEvents \in Seq(Events)
    BY PreparedEventsType
  <2>3. db.committed \in Nat /\ next \in Nat
    BY InvariantFacts
  <2>4. SessionOpen
    BY AcceptFacts DEF CanRead, SessionOpen
  <2>5. db.committed < next
    BY <2>4 DEF IInv, SessionInv
  <2> QED
    BY <2>1, <2>2, <2>3, <2>5
<1>2. NewEventsAbove(events, events, db.committed)
  BY <1>1 DEF NewEventsAbove
<1>3. ForkEvent(next, "network") \in Events /\ ForkEvent(next, "network").num = next
  BY <1>1 DEF ForkEvent, Events
<1>4. NewEventsAbove(events, PreparedEvents, db.committed)
  BY <1>1, <1>2, <1>3, AppendAbove DEF PreparedEvents
<1> QED
  BY <1>1, <1>4, AppendAbove

\* The FORK of a start is right above the committed block (load_state).
LEMMA StartAbove ==
    ASSUME IInv, NEW end \in EndBlocks, Start(end), db.at[db.committed].saved
    PROVE  NewEventsAbove(events, events', db.committed)
<1> DEFINE t == db.at[db.committed]
<1>1. Tables(UndoAll(db)) = t /\ db.committed \in Nat /\ t.head = db.committed
  <2>1. db.committed \in db.committed .. db.revision /\ db.committed \in Nat
    BY InvariantFacts
  <2>2. RevisionHoldsBlock(db, db.committed)
    BY <2>1 DEF IInv, DbOk
  <2> QED
    BY <2>1, <2>2, InvariantFacts, UndoAllDatabase DEF RevisionHoldsBlock
<1>2. events' = StartEvents(t, UndoDepth(db))
  BY <1>1 DEF Start
<1> HIDE DEF t
<1>3. t.saved /\ ResumeHead(t) = db.committed
  BY <1>1 DEF ResumeHead, t
<1>4. \A i \in DOMAIN events' : events'[i].num = db.committed + 1
  BY <1>2, <1>3 DEF StartEvents, ForkEvent
<1> QED
  BY <1>1, <1>4 DEF NewEventsAbove

\* No step publishes an event at or below the committed block.
LEMMA StepAbove ==
    ASSUME IInv, [Next]_vars, db.at[db.committed].saved
    PROVE  NewEventsAbove(events, events', db.committed)
<1>1. events \in Seq(Events)
  BY DEF IInv, TypeOK
<1>2. CASE events' = events \/ events' = <<>>
  BY <1>1, <1>2 DEF NewEventsAbove
<1>3. CASE events # <<>> /\ events' = Tail(events)
  BY <1>1, <1>3 DEF NewEventsAbove
<1>4. CASE ReceiveBlock \/ ReceiveTracesFails \/ ReceiveBlockFails
  <2>1. AcceptResult
    BY <1>4 DEF ReceiveBlock, ReceiveTracesFails, ReceiveBlockFails, StoreBlock
  <2>2. /\ BlockEvent(next, branch[next], lib) \in Events /\ PartialEvent(next) \in Events
        /\ BlockEvent(next, branch[next], lib).num = next /\ PartialEvent(next).num = next
    BY <2>1, PreparedEventsType DEF BlockEvent, PartialEvent
  <2>3. \/ events' = Append(PreparedEvents, BlockEvent(next, branch[next], lib))
        \/ events' = Append(PreparedEvents, PartialEvent(next))
    BY <1>4 DEF ReceiveBlock, ReceiveTracesFails, ReceiveBlockFails
  <2> QED
    BY <2>1, <2>2, <2>3, AcceptedAbove
<1>5. CASE \E end \in EndBlocks : Start(end)
  BY <1>5, StartAbove
<1>6. \/ events' = events \/ events' = <<>>
      \/ events # <<>> /\ events' = Tail(events)
      \/ ReceiveBlock \/ ReceiveTracesFails \/ ReceiveBlockFails
      \/ \E end \in EndBlocks : Start(end)
  <2>1. CASE UNCHANGED vars
    BY <2>1 DEF vars, receiverVars
  <2>2. CASE ChainStep
    BY <2>2 DEF ChainStep, receiverVars
  <2>3. CASE ReceiverStep
    BY <2>3 DEF ReceiverStep, StartRefused, RequestBlocks, PauseTimer, RejectResult, Abort, Stop
  <2>4. CASE ExporterStep
    BY <2>4 DEF ExporterStep, TakeEvent, ack_block
  <2> QED
    BY <2>1, <2>2, <2>3, <2>4 DEF Next
<1> QED
  BY <1>2, <1>3, <1>4, <1>5, <1>6

\* What is committed is never announced again (load_state, request_blocks,
\* receive_result).
THEOREM NeverResent ==
    ASSUME PromptShip PROVE Spec => CommittedNotResent
<1>1. IInv /\ [Next]_vars =>
         [db.at[db.committed].saved =>
             \A i \in DOMAIN events' : i > Len(events) => events'[i].num > db.committed]_vars
  BY StepAbove DEF NewEventsAbove
<1> QED
  BY <1>1, Invariance, PTL DEF Spec, CommittedNotResent
===============================================================================
