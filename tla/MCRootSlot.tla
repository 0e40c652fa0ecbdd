----------------------------- MODULE MCRootSlot -----------------------------
(* Two slots: s1 carries the kernel release of the original system, as a     *)
(* rebuild of the same kernel does, s2 a newer one.                          *)
EXTENDS RootSlot

CONSTANTS s1, s2, old

MCSlots == {s1, s2}
MCRelease == [i \in {old, s1, s2} |-> IF i = s2 THEN "newer" ELSE "same"]
=============================================================================
