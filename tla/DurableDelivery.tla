---------------------------- MODULE DurableDelivery ----------------------------
(***************************************************************************)
(* What delivering a candidate promises, without requests, files or time:  *)
(* it ends accepted only when the service has committed the candidate, an  *)
(* accepted delivery stays accepted and a committed candidate committed.   *)
(* A failed delivery promises nothing about the service (the answer to a   *)
(* commit may have been lost) and may be tried again.                      *)
(***************************************************************************)
VARIABLES
  committed,  \* the service has committed the candidate
  outcome     \* "none" while delivering, then "accepted" or "failed"

Init == committed = FALSE /\ outcome = "none"

Commit == ~committed /\ committed' = TRUE /\ UNCHANGED outcome

Accept == outcome = "none" /\ committed /\ outcome' = "accepted" /\ UNCHANGED committed

Fail == outcome = "none" /\ outcome' = "failed" /\ UNCHANGED committed

Retry == outcome = "failed" /\ outcome' = "none" /\ UNCHANGED committed

Next == Commit \/ Accept \/ Fail \/ Retry

Spec == Init /\ [][Next]_<<committed, outcome>>
=============================================================================
