------------------------------ MODULE MCSnapshot ------------------------------
(* Snapshot on small instances.                                              *)
EXTENDS Snapshot
===============================================================================
