----------------------------- MODULE MCMlsRoom -----------------------------
(* A small instance of MlsRoom.                                            *)
EXTENDS MlsRoom
=============================================================================
