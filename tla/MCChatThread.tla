--------------------------- MODULE MCChatThread ---------------------------
(* The conversation on small instances. *)
EXTENDS ChatThread
=============================================================================
