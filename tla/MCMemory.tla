------------------------------ MODULE MCMemory ------------------------------
(***************************************************************************)
(* Memory for TLC: threads and devices are interchangeable.                 *)
(***************************************************************************)
EXTENDS Memory, TLC

Symmetry == Permutations(Threads) \cup Permutations(Devices)
=============================================================================
