---------------------------- MODULE MCRequestPath ----------------------------
(* Bounded instances of RequestPath for TLC. *)
EXTENDS RequestPath
=============================================================================
