------------------------------ MODULE MCTypeC ------------------------------
(* The port with two failed register accesses. *)
EXTENDS TypeC
=============================================================================
