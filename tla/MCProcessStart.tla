---------------------------- MODULE MCProcessStart ----------------------------
(* ProcessStart on small instances.                                          *)
EXTENDS ProcessStart
===============================================================================
