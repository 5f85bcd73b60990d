------------------------- MODULE MCManagedIdentity -------------------------
(* A small instance of ManagedIdentity for TLC. *)
EXTENDS ManagedIdentity, TLC

IdentitySymmetry == Permutations(Processes) \cup Permutations(Keys) \cup Permutations(Times)
=============================================================================
