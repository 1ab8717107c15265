----------------------------- MODULE MCMlsGroup -----------------------------
(***************************************************************************)
(* TLC instance of MlsGroup: two devices, because the liveness properties  *)
(* rule out a reduction by symmetry.                                       *)
(***************************************************************************)
EXTENDS MlsGroup
=============================================================================
