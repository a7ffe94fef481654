----------------------------- MODULE FlowControl -----------------------------
(***************************************************************************)
(* What makes the receiver pause and what lets it read on: the window of   *)
(* unacknowledged blocks and the events not yet handled (check_pause), the *)
(* queue of exp_ws_plugin with its two water marks (async_send_events), the *)
(* end block, and the timer that gives up on a silent nodeos               *)
(* (check_stale_head).  The consumer on the other side of the websocket    *)
(* acknowledges what it has stored, or one block less, which is what       *)
(* testing/chronicle-ws-dumper.pl does (and exp_relic_plugin).             *)
(*                                                                         *)
(* appbase runs the channel handlers (priority 50) before the next read    *)
(* (40), so the messages of a block enter the queue together, and at the   *)
(* end of a pause no event is left.  Time is abstracted to the order of    *)
(* the timers; what the consumer's speed has to be is KeepsUp.  Left out:  *)
(* forks (see Receiver), message contents.                                 *)
(***************************************************************************)
EXTENDS Integers, Sequences, FiniteSets

CONSTANTS
    MaxBlock,       \* bound: blocks the chain produces
    MaxUnacks,      \* values of exp-ws-max-unack the operator may start with
    QueueHwm,       \* queue_hwm, exp-ws-max-queue
    ExtraMessages,  \* bound: messages of a block before its BLOCK_COMPLETED
    MaxQueueSize,   \* max_queue_size, events in the appbase queue
    EndBlocks,      \* values of end-block the operator may start with
    IrreversibleOnly, \* irreversible-only
    AckEvery,       \* the consumer acknowledges every so many blocks
    AckLags,        \* it acknowledges its last block less one of these
    ConsumerKeepsUp, \* TRUE: in the end the consumer is faster than the pause timer
    MaxQueued,      \* bound: messages in the queue to which RCVR_PAUSE are added
    MaxAcks         \* bound: acknowledgements in flight, above it the consumer waits

ASSUME FlowAssumption ==
    /\ MaxBlock \in Nat \ {0}
    /\ MaxUnacks \subseteq Nat \ {0}
    /\ QueueHwm \in Nat \ {0}
    /\ ExtraMessages \in Nat
    /\ MaxQueueSize \in Nat
    /\ EndBlocks \subseteq Nat \ {0, 1}
    /\ IrreversibleOnly \in BOOLEAN
    /\ AckEvery \in Nat \ {0}
    /\ AckLags \subseteq {0, 1}
    /\ ConsumerKeepsUp \in BOOLEAN
    /\ MaxQueued \in Nat /\ MaxAcks \in Nat \ {0}

VARIABLES
    head, irreversible,
    end_block_num,
    exporter_max_unconfirmed,
    exporter_acked_block,
    reading,               \* TRUE: a read is outstanding, pause_time_msec = 0
    slowdown_requested,
    stale_check_last_head,
    stopped,               \* why the receiver has closed its connection, or "no"
    silent,                \* nodeos keeps the connection and sends nothing
    async_queue,
    async_msg,             \* the message being written, or NoMessage
    taken,                 \* messages taken since the pause timer fired, at most 2
    last_block, last_ack,  \* the consumer's
    ack_lag,
    acks                   \* acknowledgements not yet received

readVars == <<head, irreversible, reading>>
exporterVars == <<async_queue, async_msg, taken>>
consumerVars == <<last_block, last_ack, acks>>
parameters == <<end_block_num, exporter_max_unconfirmed, ack_lag>>
vars == <<readVars, parameters, exporter_acked_block, slowdown_requested,
          stale_check_last_head, stopped, silent, exporterVars, consumerVars>>

\* A message is a block number for BLOCK_COMPLETED, or one of these.
NoMessage    == 0
OtherMessage == -1
PauseMessage == -2      \* RCVR_PAUSE
Messages == (1 .. MaxBlock) \cup {OtherMessage, PauseMessage}

queue_lwm_Truncated == QueueHwm * (3 \div 4)
queue_lwm == (QueueHwm * 3) \div 4

FlowTypeOK ==
    /\ head \in 0 .. MaxBlock /\ irreversible \in 0 .. MaxBlock
    /\ end_block_num \in EndBlocks /\ ack_lag \in AckLags
    /\ exporter_max_unconfirmed \in MaxUnacks
    /\ exporter_acked_block \in 0 .. MaxBlock
    /\ reading \in BOOLEAN /\ slowdown_requested \in BOOLEAN
    /\ silent \in BOOLEAN
    /\ stopped \in {"no", "end", "stale", "ack"}
    /\ stale_check_last_head \in 0 .. MaxBlock
    /\ async_queue \in Seq(Messages)
    /\ async_msg \in Messages \cup {NoMessage}
    /\ taken \in 0 .. 2
    /\ last_block \in 0 .. MaxBlock /\ last_ack \in 0 .. MaxBlock
    /\ acks \in Seq(0 .. MaxBlock)   \* stoul would read -1 as ULONG_MAX

Init ==
    /\ head = 0 /\ irreversible = 0 /\ exporter_acked_block = 0
    /\ end_block_num \in EndBlocks /\ ack_lag \in AckLags
    /\ exporter_max_unconfirmed \in MaxUnacks
    /\ reading = TRUE /\ slowdown_requested = FALSE
    /\ stale_check_last_head = 0 /\ stopped = "no" /\ silent = FALSE
    /\ async_queue = <<>> /\ async_msg = NoMessage /\ taken = 0
    /\ last_block = 0 /\ last_ack = 0 /\ acks = <<>>

-------------------------------------------------------------------------------
(* The receiver.                                                             *)

\* check_pause at block h, with so many events waiting to be handled.
CheckPause_OneLate(h, waiting) ==
    \/ slowdown_requested
    \/ h - exporter_acked_block > exporter_max_unconfirmed
    \/ waiting > MaxQueueSize
    \/ h = end_block_num - 1

CheckPause_OneEarly(h, waiting) ==
    \/ slowdown_requested
    \/ h - exporter_acked_block >= exporter_max_unconfirmed - 1
    \/ waiting > MaxQueueSize
    \/ h = end_block_num - 1

CheckPause(h, waiting) ==
    \/ slowdown_requested
    \/ h - exporter_acked_block >= exporter_max_unconfirmed
    \/ waiting > MaxQueueSize
    \/ h = end_block_num - 1

EndReached_Pending(h, lastIrreversible) ==
    h = end_block_num - 1 /\ lastIrreversible > h /\ exporter_acked_block = h

EndReached(h, lastIrreversible) ==
    h = end_block_num - 1 /\ lastIrreversible >= h /\ exporter_acked_block = h

\* continue_read: the next read, the end, or a pause, which is announced to
\* the exporter.
ContinueRead(h, lastIrreversible, messages) ==
    LET pauses == CheckPause(h, Len(messages))
        ends   == pauses /\ EndReached(h, lastIrreversible)
    IN  /\ reading' = ~pauses
        /\ stopped' = IF ends THEN "end" ELSE "no"
        /\ async_queue' = async_queue \o
              (messages \o IF pauses /\ ~ends THEN <<PauseMessage>> ELSE <<>>)

\* nodeos has the whole chain up to MaxBlock, and its LIB comes with a block.
ReceiveBlock ==
    /\ stopped = "no" /\ reading /\ ~silent
    /\ head < MaxBlock /\ head + 1 < end_block_num
    /\ head' = head + 1
    /\ irreversible' \in irreversible .. MaxBlock
    /\ IrreversibleOnly => irreversible' > head
    /\ \E k \in 0 .. ExtraMessages :
          ContinueRead(head + 1, irreversible', [i \in 1 .. k |-> OtherMessage] \o <<head + 1>>)
    /\ UNCHANGED <<parameters, stale_check_last_head, silent, exporter_acked_block,
                   slowdown_requested, async_msg, taken, consumerVars>>

\* The timer fires whatever the exporter has in its queue (up to the bound).
PauseTimer ==
    /\ stopped = "no" /\ ~reading
    /\ Len(async_queue) <= MaxQueued
    /\ taken' = 0
    /\ ContinueRead(head, irreversible, <<>>)
    /\ UNCHANGED <<head, irreversible, parameters, stale_check_last_head, silent,
                   exporter_acked_block, slowdown_requested, async_msg, consumerVars>>

\* Nothing came since the last check, and the receiver is reading now.
\* received_blocks > 0 is head > 0 in the first session.
NothingCame_Paused == stale_check_last_head = head /\ ~reading /\ head > 0
NothingCame == stale_check_last_head = head /\ reading /\ head > 0

StaleTimer ==
    /\ stopped = "no"
    /\ stopped' = IF NothingCame THEN "stale" ELSE "no"
    /\ stale_check_last_head' = head
    /\ UNCHANGED <<readVars, parameters, silent, exporter_acked_block,
                   slowdown_requested, exporterVars, consumerVars>>

\* nodeos hangs, or the network drops its packets.
FallSilent ==
    /\ stopped = "no" /\ ~silent
    /\ silent' = TRUE
    /\ UNCHANGED <<readVars, parameters, stale_check_last_head, stopped,
                   exporter_acked_block, slowdown_requested, exporterVars, consumerVars>>

AckArrives ==
    /\ stopped = "no" /\ acks # <<>>
    /\ IF Head(acks) < exporter_acked_block
       THEN stopped' = "ack" /\ UNCHANGED exporter_acked_block
       ELSE exporter_acked_block' = Head(acks) /\ UNCHANGED stopped
    /\ acks' = Tail(acks)
    /\ UNCHANGED <<readVars, parameters, stale_check_last_head, silent,
                   slowdown_requested, exporterVars, last_block, last_ack>>

-------------------------------------------------------------------------------
(* The exporter and the consumer.                                            *)

\* async_send_events: the marks are compared with the queue before the pop.
SendEvents ==
    IF async_queue = <<>>
    THEN /\ async_msg' = NoMessage
         /\ UNCHANGED <<async_queue, taken, slowdown_requested>>
    ELSE /\ slowdown_requested' = (\/ Len(async_queue) >= QueueHwm
                                   \/ slowdown_requested /\ Len(async_queue) >= queue_lwm)
         /\ async_msg' = Head(async_queue)
         /\ async_queue' = Tail(async_queue)
         /\ taken' = IF taken < 2 THEN taken + 1 ELSE taken

\* The exporter's timer, which a new message cancels.
SendTimer ==
    /\ stopped = "no" /\ async_msg = NoMessage
    /\ async_queue # <<>>
    /\ SendEvents
    /\ UNCHANGED <<readVars, parameters, stale_check_last_head, stopped, silent,
                   exporter_acked_block, consumerVars>>

\* The consumer acknowledges every AckEvery blocks and at every RCVR_PAUSE.
Answers(msg) ==
    \/ msg > 0 /\ msg - last_ack >= AckEvery
    \/ msg = PauseMessage

Consume_StaleAck(msg) ==
    /\ last_block' = IF msg > 0 THEN msg ELSE last_block
    /\ last_ack' = IF Answers(msg) THEN last_block' ELSE last_ack
    /\ acks' = IF Answers(msg) THEN Append(acks, last_ack - ack_lag) ELSE acks

Consume(msg) ==
    /\ last_block' = IF msg > 0 THEN msg ELSE last_block
    /\ last_ack' = IF Answers(msg) THEN last_block' ELSE last_ack
    /\ acks' = IF Answers(msg) THEN Append(acks, last_block' - ack_lag) ELSE acks

WriteDone ==
    /\ stopped = "no" /\ async_msg # NoMessage
    /\ Answers(async_msg) => Len(acks) < MaxAcks
    /\ Consume(async_msg)
    /\ SendEvents
    /\ UNCHANGED <<readVars, parameters, stale_check_last_head, stopped, silent,
                   exporter_acked_block>>

-------------------------------------------------------------------------------

Next ==
    \/ ReceiveBlock \/ PauseTimer \/ StaleTimer \/ FallSilent \/ AckArrives
    \/ SendTimer \/ WriteDone

Spec == Init /\ [][Next]_vars

\* A pause adds a message to the very queue it is to relieve, every 50 to 500 ms.
\* A consumer that takes no more than one in that time never gets below the low
\* mark; this is the assumption that in the end it takes two or empties the queue.
KeepsUp == <>[][PauseTimer => taken >= 2 \/ async_queue = <<>>]_vars

\* A nodeos that is not silent sends its blocks, timers fire, the consumer
\* reads its socket.
Fairness ==
    /\ ConsumerKeepsUp => KeepsUp
    /\ WF_vars(ReceiveBlock) /\ WF_vars(PauseTimer) /\ WF_vars(StaleTimer)
    /\ WF_vars(AckArrives) /\ WF_vars(SendTimer) /\ WF_vars(WriteDone)

FairSpec == Spec /\ Fairness

-------------------------------------------------------------------------------
(* Properties.                                                               *)

\* The places of BLOCK_COMPLETED in a queue.
Blocks(queue) == {i \in DOMAIN queue : queue[i] > 0}

\* However slow the consumer is, the exporter never holds more blocks than the
\* window allows, and no acknowledgement in flight is for a block beyond the
\* head or out of order (check_pause, ack_block).
WindowHolds ==
    /\ Cardinality(Blocks(async_queue)) <= exporter_max_unconfirmed
    /\ stopped = "no" => \A i \in DOMAIN acks : acks[i] <= head /\ acks[i] >= exporter_acked_block

\* The end block has been read and nothing but its acknowledgement is missing.
AtEnd == head = end_block_num - 1

\* The consumer can open the window at all.  With exporter_max_unconfirmed 1 and
\* one block less acknowledged it never does.
WindowCanOpen == ack_lag < exporter_max_unconfirmed

\* A pause does not last, down to the smallest window: the receiver reads the whole
\* range, unless nodeos falls silent or the stale timer ends it (check_pause,
\* async_send_events).
ReadsOn == WindowCanOpen ~> (stopped # "no" \/ silent \/ head = MaxBlock \/ AtEnd)

\* A slowdown of the exporter ends once the consumer has caught up
\* (async_send_events).
SlowdownEnds == slowdown_requested ~> (stopped # "no" \/ ~slowdown_requested)

\* A receiver that has read its last block with an irreversible number that
\* covers it stops, whatever the window and the exporter's queue were then, when
\* the consumer acknowledges what it has stored (check_pause).  With a consumer
\* that acknowledges one block less it waits there for ever.
StopsAtEnd ==
    AtEnd /\ irreversible >= head /\ ack_lag = 0 ~> stopped # "no"

\* A receiver that has had a block does not wait for a silent nodeos for ever:
\* not while it pauses either, except at its end block (check_stale_head).
SilenceEnds == WindowCanOpen /\ silent /\ head > 0 ~> (stopped # "no" \/ AtEnd)
===============================================================================
