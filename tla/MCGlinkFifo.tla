---------------------------- MODULE MCGlinkFifo ----------------------------
(* A ring of five aligned units. Messages of one, two and three units, the   *)
(* longest is all an empty ring has room for, with headers and data that end *)
(* off the alignment.                                                        *)
EXTENDS GlinkFifo

CONSTANTS a, b

MCSenders == {a, b}
MCSizes == {[hdr |-> 8, data |-> 0], [hdr |-> 12, data |-> 3], [hdr |-> 16, data |-> 8]}
=============================================================================
