------------------------------ MODULE MCSpcom ------------------------------
(* Two processes, two sessions of the processor. *)
EXTENDS Spcom
=============================================================================
