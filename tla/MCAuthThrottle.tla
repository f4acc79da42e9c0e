---------------------------- MODULE MCAuthThrottle ----------------------------
(* AuthThrottle for TLC. *)
EXTENDS AuthThrottle
===============================================================================
