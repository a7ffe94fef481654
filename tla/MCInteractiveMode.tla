--------------------------- MODULE MCInteractiveMode ---------------------------
(* InteractiveMode on small instances.                                       *)
EXTENDS InteractiveMode, TLC

\* The binaries that abieos accepts are interchangeable.
AbiSymmetry == Permutations(Abis)
===============================================================================
