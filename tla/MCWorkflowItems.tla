-------------------------- MODULE MCWorkflowItems --------------------------
(***************************************************************************)
(* TLC instance of WorkflowItems.                                          *)
(***************************************************************************)
EXTENDS WorkflowItems
=============================================================================
