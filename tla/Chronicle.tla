------------------------------- MODULE Chronicle -------------------------------
(***************************************************************************)
(* The whole pipeline in scan mode with a consumer that acknowledges: the  *)
(* chain and its state history session, the receiver, the queue of events  *)
(* to the consumer, and the acknowledgements on their way back.            *)
(*                                                                         *)
(* The consumer is external.  It does what docs/overview.md and            *)
(* testing/chronicle-ws-dumper.pl expect of one: it stores complete        *)
(* blocks, rolls back on FORK and acknowledges the block below the fork,   *)
(* acknowledges stored blocks in ascending order when it likes, and keeps  *)
(* what it has stored when the receiver stops.                             *)
(***************************************************************************)
EXTENDS Receiver

CONSTANTS
    AckPolicy,     \* which blocks the consumer acknowledges, see MayAck
    LosesForks,    \* TRUE: the process may end with the only copy of a FORK undelivered
    MaxStops       \* bound: how often the process ends

ASSUME ChronicleAssumption ==
    /\ AckPolicy \in {"processed", "irreversible"}
    /\ LosesForks \in BOOLEAN
    /\ MaxStops \in Nat

VARIABLES
    stored,        \* the consumer's blocks (persistent)
    knownLib,      \* last_irreversible of the last BLOCK_COMPLETED it got
    lastAck,       \* the highest block it has acknowledged since the last FORK
    acks,          \* acknowledgements not yet received
    stops

consumerVars == <<stored, knownLib, lastAck, acks>>
systemVars == <<vars, consumerVars, stops>>

NoBlock == -1

Stored(n) == stored[n] # NoBlock

Top == IF \E n \in BlockNums : Stored(n)
       THEN CHOOSE n \in BlockNums : Stored(n) /\ \A m \in BlockNums : Stored(m) => m <= n
       ELSE 0

ConsumerTypeOK ==
    /\ stored \in [BlockNums -> Versions \cup {NoBlock}]
    /\ knownLib \in Nat
    /\ lastAck \in Nat
    /\ acks \in Seq(Nat)
    /\ stops \in 0 .. MaxStops

SystemTypeOK == TypeOK /\ ConsumerTypeOK

SystemInit ==
    /\ Init
    /\ stored = [n \in BlockNums |-> NoBlock]
    /\ knownLib = 0
    /\ lastAck = 0
    /\ acks = <<>>
    /\ stops = 0

-------------------------------------------------------------------------------
(* The consumer.                                                             *)

ApplyEvent(e, blocks) ==
    CASE e.type = "block"   -> [blocks EXCEPT ![e.num] = e.id]
      [] e.type = "fork"    -> [n \in BlockNums |-> IF n >= e.num THEN NoBlock ELSE blocks[n]]
      [] e.type = "partial" -> blocks

Deliver ==
    /\ TakeEvent
    /\ LET e == Head(events) IN
       /\ stored' = ApplyEvent(e, stored)
       /\ knownLib' = IF e.type = "block" THEN e.lib ELSE knownLib
       /\ IF e.type = "fork" /\ WillAck
          THEN acks' = Append(acks, e.num - 1) /\ lastAck' = e.num - 1
          ELSE UNCHANGED <<acks, lastAck>>
    /\ UNCHANGED stops

\* A stored block, or only what the last event said is irreversible.
MayAck(n) ==
    /\ n > lastAck /\ n <= Top
    /\ AckPolicy = "irreversible" => n <= knownLib

SendAck(n) ==
    /\ Running /\ WillAck
    /\ MayAck(n)
    /\ acks' = Append(acks, n)
    /\ lastAck' = n
    /\ UNCHANGED <<vars, stored, knownLib, stops>>

ReceiveAck ==
    /\ acks # <<>>
    /\ ack_block(Head(acks))
    /\ acks' = Tail(acks)
    /\ UNCHANGED <<stored, knownLib, lastAck, stops>>

-------------------------------------------------------------------------------
(* The receiver among them.                                                  *)

ForkPending == \E i \in DOMAIN events : events[i].type = "fork"

\* With nothing uncommitted the next start announces no fork: an undelivered
\* FORK event is then the only copy.
OnlyCopyPending == ForkPending /\ ~HasUndoSession(db)

SystemReceiverStep ==
    /\ \/ \E end \in EndBlocks : Start(end)
       \/ \E given \in {0, StartBlock}, end \in EndBlocks :
             (LosesForks \/ ~HasUndoSession(db)) /\ StartRefused(given, end)
       \/ RequestBlocks
       \/ PauseTimer
       \/ ReceiveBlock
       \/ stops < MaxStops /\ Abort
       \/ stops < MaxStops /\ (RejectResult \/ ReceiveBlockFails \/ ReceiveTracesFails)
    /\ UNCHANGED <<consumerVars, stops>>

\* The bound on stops is checked where something goes wrong, not when the
\* process ends.
ProcessEnds ==
    /\ Stop
    /\ LosesForks \/ ~OnlyCopyPending
    /\ acks' = <<>>
    /\ stops' = IF stops < MaxStops THEN stops + 1 ELSE stops
    /\ UNCHANGED <<stored, knownLib, lastAck>>

SystemChainStep == ChainStep /\ UNCHANGED <<consumerVars, stops>>

ConsumerStep ==
    \/ Deliver
    \/ \E n \in BlockNums : SendAck(n)
    \/ ReceiveAck

SystemNext ==
    \/ SystemChainStep
    \/ SystemReceiverStep
    \/ ProcessEnds
    \/ ConsumerStep

SystemSpec == SystemInit /\ [][SystemNext]_systemVars

-------------------------------------------------------------------------------
(* Properties.                                                               *)

\* What the consumer will have stored when it has taken all published events.
Seen ==
    LET after[k \in 0 .. Len(events)] ==
            IF k = 0 THEN stored ELSE ApplyEvent(events[k], after[k - 1])
    IN  after[Len(events)]

\* What the consumer has stored, followed by the events on their way to it, is
\* the receiver's own branch: nothing is missing, doubled or left over from a
\* fork (receive_result, load_state).
StreamMatchesDb ==
    SessionOpen /\ Tables(db).saved =>
        LET seen == Seen IN
        \A n \in BlockNums :
            /\ n > head => seen[n] = NoBlock
            /\ n \in db.committed .. head /\ db.at[n].saved => seen[n] = db.at[n].head_id

\* Whatever the database has committed, so that no restart sends it again, the
\* consumer has stored, and as the chain has it (commit_db).
NoLostBlocks ==
    db.at[db.committed].saved =>
        \A n \in BlockNums : StartBlock <= n /\ n <= db.committed => stored[n] = branch[n]

\* The consumer sees a chain that grows by its next block or is cut as a FORK
\* event says, and never below the committed block.
Export == INSTANCE BlockExport WITH
    BlockIds <- Versions,
    durable <- IF db.at[db.committed].saved THEN db.committed ELSE 0

ExportSpec == Export!Spec
===============================================================================
