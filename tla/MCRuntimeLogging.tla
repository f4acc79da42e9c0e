--------------------------- MODULE MCRuntimeLogging ---------------------------
(* RuntimeLogging for TLC; the sets are given in the configurations. *)
EXTENDS RuntimeLogging
===============================================================================
