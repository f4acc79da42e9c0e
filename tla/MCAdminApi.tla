------------------------------ MODULE MCAdminApi ------------------------------
(* AdminApi for TLC. *)
EXTENDS AdminApi
===============================================================================
