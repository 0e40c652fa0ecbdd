---------------------------- MODULE MCPowerSwap ----------------------------
(* The port with two failed register accesses. *)
EXTENDS PowerSwap
=============================================================================
