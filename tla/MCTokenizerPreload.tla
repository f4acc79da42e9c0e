-------------------------- MODULE MCTokenizerPreload --------------------------
(* TokenizerPreload for TLC. *)
EXTENDS TokenizerPreload
===============================================================================
