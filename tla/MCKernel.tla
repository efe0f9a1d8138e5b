------------------------------ MODULE MCKernel ------------------------------
(* Kernel with two applications. *)
EXTENDS Kernel, TLC

Symmetry == Permutations(Apps) \cup Permutations(Timers)
=============================================================================
