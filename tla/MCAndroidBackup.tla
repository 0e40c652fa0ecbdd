--------------------------- MODULE MCAndroidBackup ---------------------------
(* A root tool's change keeps the kernel release, the update after it does not. *)
EXTENDS AndroidBackup

MCRelease == [v \in Android |-> IF v <= 2 THEN 1 ELSE v]
=============================================================================
