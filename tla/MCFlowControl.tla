---------------------------- MODULE MCFlowControl ----------------------------
(* FlowControl on small instances.                                           *)
EXTENDS FlowControl
===============================================================================
