-------------------------- MODULE MCMembershipSync --------------------------
(***************************************************************************)
(* TLC instance of MembershipSync.  Members are interchangeable, but the   *)
(* liveness property rules out a symmetry reduction.                       *)
(***************************************************************************)
EXTENDS MembershipSync
=============================================================================
