------------------------------ MODULE MCReceiver ------------------------------
(* Receiver on small instances: four blocks and two fork switches. *)
EXTENDS Receiver

\* Bound: how many events the exporter leaves in the queue.
CONSTANT MaxQueued

QueueBound == Len(events) <= MaxQueued
===============================================================================
