-------------------------- MODULE MCCandidateDelivery --------------------------
(* A small instance of CandidateDelivery, with the files it delivers, for TLC. *)
EXTENDS CandidateDelivery
=============================================================================
