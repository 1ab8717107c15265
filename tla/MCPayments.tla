---------------------------- MODULE MCPayments ----------------------------
(* TLC instance of Payments. *)
EXTENDS Payments
=============================================================================
