-------------------------- MODULE MCFailureDelivery --------------------------
(* Small instances of FailureDelivery for TLC. *)
EXTENDS FailureDelivery, TLC

=============================================================================
