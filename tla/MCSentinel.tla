------------------------------ MODULE MCSentinel ------------------------------
(* Small instances of Sentinel for TLC. *)
EXTENDS Sentinel, TLC

SentinelSymmetry == Permutations(Threads) \cup Permutations(Operations)
                      \cup Permutations(Observations)
=============================================================================
