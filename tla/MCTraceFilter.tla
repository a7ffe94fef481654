---------------------------- MODULE MCTraceFilter ----------------------------
(* TraceFilter on small instances.                                           *)
EXTENDS TraceFilter
===============================================================================
