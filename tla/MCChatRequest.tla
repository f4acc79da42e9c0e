---------------------------- MODULE MCChatRequest ----------------------------
(* ChatRequest for TLC; the number of attempts is set in the configurations. *)
EXTENDS ChatRequest
===============================================================================
