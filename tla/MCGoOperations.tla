---------------------------- MODULE MCGoOperations ----------------------------
(* Small instances of GoOperations for TLC. *)
EXTENDS GoOperations, TLC

GoroutineSymmetry == Permutations(Goroutines)
=============================================================================
