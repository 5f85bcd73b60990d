------------------------ MODULE MCCandidatePipeline ------------------------
(* Small instances of CandidatePipeline for TLC. *)
EXTENDS CandidatePipeline
=============================================================================
