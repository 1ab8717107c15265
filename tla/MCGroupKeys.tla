---------------------------- MODULE MCGroupKeys ----------------------------
(***************************************************************************)
(* TLC instance of GroupKeys.                                              *)
(***************************************************************************)
EXTENDS GroupKeys
=============================================================================
