---------------------------- MODULE MCProviderCall ----------------------------
(* ProviderCall for TLC. *)
EXTENDS ProviderCall
===============================================================================
