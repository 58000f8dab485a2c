------------------------------ MODULE MCMemory ------------------------------
(***************************************************************************)
(* Memory with two data types and two port names, which are symmetric, and *)
(* the numbers on both sides of the assertions, with one more to tell a    *)
(* depth from a latency.                                                   *)
(***************************************************************************)
EXTENDS Memory

MCNumbers == -1 .. 1

Symmetry == Permutations(DTypes) \cup Permutations(Names)
=============================================================================
