----------------------------- MODULE TrialBoot -----------------------------
(***************************************************************************)
(* What the root-slot migration promises its owner, whatever power losses, *)
(* failed writes and restarts happen on the way:                           *)
(*                                                                         *)
(*   - a migrated system gets one trial session; a second session needs    *)
(*     an acceptance during the first;                                     *)
(*   - a system whose boot set was taken away is never entered again;      *)
(*   - the original system can always be entered instead.                  *)
(*                                                                         *)
(* RootSlot implements this specification.                                 *)
(***************************************************************************)

CONSTANTS Slots, Original, None  \* two different values that are not slots

VARIABLES session,  \* the system that is up, None between sessions
          phase     \* what has become of each migrated system

vars == <<session, phase>>

Phase == {"new", "trial", "kept", "withdrawn"}

Init == session = None /\ phase = [s \in Slots |-> "new"]

EnterOriginal == session = None /\ session' = Original /\ UNCHANGED phase

EnterTrial(s) ==
  /\ session = None /\ phase[s] = "new"
  /\ session' = s /\ phase' = [phase EXCEPT ![s] = "trial"]

EnterKept(s) == session = None /\ phase[s] = "kept" /\ session' = s /\ UNCHANGED phase

Keep(s) ==
  /\ session = s /\ phase[s] = "trial"
  /\ phase' = [phase EXCEPT ![s] = "kept"] /\ UNCHANGED session

Leave == session # None /\ session' = None /\ UNCHANGED phase

\* Power lost right after an acceptance, before it reached the disk.
LoseKeep(s) ==
  /\ session = s /\ phase[s] = "kept"
  /\ session' = None /\ phase' = [phase EXCEPT ![s] = "trial"]

Withdraw(s) == session = None /\ phase' = [phase EXCEPT ![s] = "withdrawn"] /\ UNCHANGED session

Next ==
  \/ EnterOriginal \/ Leave
  \/ \E s \in Slots : EnterTrial(s) \/ EnterKept(s) \/ Keep(s) \/ LoseKeep(s) \/ Withdraw(s)

Spec == Init /\ [][Next]_vars
=============================================================================
