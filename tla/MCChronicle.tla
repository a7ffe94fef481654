------------------------------ MODULE MCChronicle ------------------------------
(* Chronicle on small instances.                                              *)
EXTENDS Chronicle
================================================================================
