------------------------- MODULE MCAutomaticContext -------------------------
(* Small instances of AutomaticContext for TLC. *)
EXTENDS AutomaticContext, TLC

ContextSymmetry == Permutations(Operations) \cup Permutations(Sessions)
                     \cup Permutations(Threads)

(* A replay of the clock reading that follows the internal one. *)
OneReading == {<<"Clock", 1>>}
=============================================================================
