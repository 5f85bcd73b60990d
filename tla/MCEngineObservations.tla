------------------------ MODULE MCEngineObservations ------------------------
(* A small instance of EngineObservations for TLC. *)
EXTENDS EngineObservations, TLC

EngineSymmetry == Permutations(Operations) \cup Permutations(Engines)

Handles == 1 .. MaxHandle
=============================================================================
