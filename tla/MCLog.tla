------------------------------- MODULE MCLog -------------------------------
(* The log on small instances. *)
EXTENDS Log
=============================================================================
