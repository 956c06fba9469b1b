------------------------------ MODULE MCStride ------------------------------
(* The stride build's first rounds. *)
EXTENDS Stride
=============================================================================
