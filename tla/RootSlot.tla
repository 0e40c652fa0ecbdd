------------------------------ MODULE RootSlot ------------------------------
(***************************************************************************)
(* The Noble-to-Resolute root-slot migration of the tablet, from           *)
(* preparation to acceptance:                                              *)
(*                                                                         *)
(*   migration_core.py          prepares and applies a new root in a slot, *)
(*                              and commits its boot set (commit_slot);    *)
(*   local-bottom/gts9u-root-slot  the initramfs hook that enters the      *)
(*                              selected slot or restores the old boot set;*)
(*   ubuntu-gts9u-root-accept   accepts a trial from inside it;            *)
(*   ubuntu-gts9u-root-maintenance --publish  points Android's Ubuntu set  *)
(*                              at the accepted slot.                      *)
(*                                                                         *)
(* Power can be lost between any two steps and inside a partition write,   *)
(* which then leaves the partition unchanged, torn or written. What was    *)
(* not synced may be lost: file contents in any combination, changes of    *)
(* the directory tree only from the end, since ext4 journals them in       *)
(* order.                                                                  *)
(***************************************************************************)
EXTENDS Naturals

CONSTANTS
  Slots,        \* identifiers create_slot can draw, each used once
  Original,     \* the Noble system and its boot set
  None, Torn,   \* no file; a partition whose write was cut short
  Release,      \* the kernel release a boot set's boot image carries
  MaxPowerLoss  \* bound on power losses

Systems == Slots \cup {Original}

ASSUME SlotAssumption ==
  /\ None \notin Systems /\ Torn \notin Systems /\ None # Torn /\ Original \notin Slots
  /\ MaxPowerLoss \in Nat
  /\ Release \in [Systems -> {Release[i] : i \in Systems}]

Partitions == {"init_boot", "boot", "vendor_boot", "dtbo"}

\* BOOT_ORDER of commit_slot and of the hook: the recovery bootstrap goes first.
Rank == [init_boot |-> 1, boot |-> 2, vendor_boot |-> 3, dtbo |-> 4]

BootSet(i) == [p \in Partitions |-> i]
BootSets == [Partitions -> Systems \cup {Torn}]
NoBackup == [p \in Partitions |-> None]

VARIABLES
  parts,     \* the image in each boot partition
  pc, target, todo,  \* what runs, on which slot, the partitions it has yet to write
  oldHook,   \* whether the original init_boot already carries the hook
  pending, selected, \* .gts9u-root/pending and .gts9u-root/selected
  trigger,   \* /etc/system-update of the original root: the slot it stages
  status,    \* status.json of the original root
  root, backup, ready, tried, result,  \* the files of each slot
  flushed,   \* slots whose root and backup have reached the disk
  saved,     \* the system whose images Android's Ubuntu set holds
  phase,     \* history, read by no step: see TrialBoot
  late,      \* history: slots whose selector was replaced by a write that then raised
  losses

store == <<pending, selected>>
slotFiles == <<root, backup, ready, flushed>>
verdict == <<tried, result>>
updater == <<trigger, status>>
still == <<oldHook, late, losses>>
vars == <<parts, pc, target, todo, store, updater, slotFiles, verdict, saved, phase, still>>

\* Where execution can be. "apply" states belong to the offline migration, "hook" and
\* "restore" states to the initramfs, "accept" states to the acceptance service.
Running == {"apply.start", "apply.clone", "apply.packages", "apply.backup", "apply.flush",
            "apply.pending", "apply.write", "apply.select", "apply.rollback",
            "apply.clear", "apply.done", "apply.failed", "hook", "hook.select",
            "restore.check", "restore.write", "restore.clear", "original", "slot",
            "accept.unlink", "accept.sync"}
Halted == {"emergency", "panic", "bricked"}
Sessions == {"slot", "accept.unlink", "accept.sync"}

NextPart == CHOOSE p \in todo : \A q \in todo : Rank[p] <= Rank[q]

Goto(l) == pc' = l /\ UNCHANGED <<target, todo>>
Stop(l) == pc' = l /\ target' = None /\ todo' = {}

Init ==
  /\ parts = BootSet(Original) /\ pc = "off" /\ target = None /\ todo = {}
  /\ oldHook \in BOOLEAN
  /\ pending = None /\ selected = None /\ trigger = None /\ status = "idle"
  /\ root = [s \in Slots |-> "none"] /\ backup = [s \in Slots |-> NoBackup]
  /\ ready = [s \in Slots |-> FALSE] /\ flushed = [s \in Slots |-> FALSE]
  /\ tried = [s \in Slots |-> FALSE] /\ result = [s \in Slots |-> "none"]
  /\ saved = Original /\ phase = [s \in Slots |-> "new"] /\ late = {} /\ losses = 0

-----------------------------------------------------------------------------
(* Firmware and early boot. *)

Hooked(i) == i \in Slots \/ (i = Original /\ oldHook)

\* systemd's generator honours the trigger of the root that is being started.
BootOriginal ==
  /\ IF trigger = None THEN pc' = "original" /\ target' = None
     ELSE pc' = "apply.start" /\ target' = trigger
  /\ UNCHANGED <<parts, todo, store, updater, slotFiles, verdict, saved, phase, still>>

Boot ==
  /\ pc = "off"
  /\ IF \E p \in Partitions : parts[p] = Torn
     THEN /\ Stop("bricked")
          /\ UNCHANGED <<parts, store, updater, slotFiles, verdict, saved, phase, still>>
     ELSE IF Hooked(parts["init_boot"])
     THEN /\ Goto("hook")
          /\ UNCHANGED <<parts, store, updater, slotFiles, verdict, saved, phase, still>>
     ELSE BootOriginal

\* Mutant: only a trial that was already started is restored.
MustRestoreTried == pending # None /\ tried[pending]

\* Mutant: a trial may be started again.
MustRestoreUncommitted == pending # None /\ pending # selected

\* A trial that was not committed whole, or that was already started once.
MustRestore == pending # None /\ (pending # selected \/ tried[pending])

HookRestore ==
  /\ pc = "hook" /\ MustRestore
  /\ pc' = "restore.check" /\ target' = pending /\ UNCHANGED todo
  /\ UNCHANGED <<parts, store, updater, slotFiles, verdict, saved, phase, still>>

\* tried is written and synced before the trial is entered.
HookTry ==
  /\ pc = "hook" /\ ~MustRestore
  /\ tried' = IF pending = None THEN tried ELSE [tried EXCEPT ![pending] = TRUE]
  /\ Goto("hook.select")
  /\ UNCHANGED <<parts, store, updater, slotFiles, result, saved, phase, still>>

Uname == Release[parts["boot"]]

HookOriginal == pc = "hook.select" /\ selected = None /\ BootOriginal

\* The hook stops at a selected slot that is incomplete. None ever is (WrittenMeansRecoverable)
\* and there is no action for it: one would show as a deadlock.
HookEnter ==
  /\ pc = "hook.select" /\ selected # None
  /\ ready[selected] /\ root[selected] = "complete" /\ Uname = Release[selected]
  /\ pc' = "slot" /\ target' = selected
  /\ phase' = [phase EXCEPT ![selected] = IF @ = "kept" THEN @ ELSE "trial"]
  /\ UNCHANGED <<parts, todo, store, updater, slotFiles, verdict, saved, still>>

HookMismatch ==
  /\ pc = "hook.select" /\ selected # None
  /\ ready[selected] /\ root[selected] = "complete" /\ Uname # Release[selected]
  /\ pc' = "restore.check" /\ target' = selected
  /\ UNCHANGED <<parts, todo, store, updater, slotFiles, verdict, saved, phase, still>>

-----------------------------------------------------------------------------
(* restore_boot of the hook. *)

RestoreCheck ==
  /\ pc = "restore.check"
  /\ IF backup[target] = NoBackup THEN Stop("panic")
     ELSE pc' = "restore.write" /\ todo' = Partitions /\ UNCHANGED target
  /\ UNCHANGED <<parts, store, updater, slotFiles, verdict, saved, phase, still>>

\* One partition, read back after it was written.
RestorePart ==
  /\ pc = "restore.write" /\ todo # {}
  /\ parts' = [parts EXCEPT ![NextPart] = backup[target][NextPart]]
  /\ todo' = todo \ {NextPart}
  /\ pc' = IF todo' = {} THEN "restore.clear" ELSE pc
  /\ UNCHANGED <<target, store, updater, slotFiles, verdict, saved, phase, still>>

RestorePartFails ==
  /\ pc = "restore.write" /\ todo # {}
  /\ \E i \in {Torn, parts[NextPart], backup[target][NextPart]} :
       parts' = [parts EXCEPT ![NextPart] = i]
  /\ Stop("panic")
  /\ UNCHANGED <<store, updater, slotFiles, verdict, saved, phase, still>>

\* The first n of: rm selected, rm pending, rm the trigger, the failed status, the
\* rolled-back result. The files are removed in this order by one rm and the next commands.
ClearFirst(n) ==
  /\ selected' = IF n >= 1 THEN None ELSE selected
  /\ pending'  = IF n >= 2 THEN None ELSE pending
  /\ trigger'  = IF n >= 3 THEN None ELSE trigger
  /\ status'   = IF n >= 4 THEN "failed" ELSE status
  /\ result'   = IF n >= 5 THEN [result EXCEPT ![target] = "rolled-back"] ELSE result
  /\ phase'    = IF n >= 1 THEN [phase EXCEPT ![target] = "withdrawn"] ELSE phase

\* Mutant: the hook leaves the pending marker behind.
RestoreClearSelector ==
  /\ pc = "restore.clear" /\ ClearFirst(1)
  /\ Stop("off")
  /\ UNCHANGED <<parts, slotFiles, tried, saved, still>>

RestoreClear ==
  /\ pc = "restore.clear" /\ ClearFirst(5)
  /\ Stop("off")
  /\ UNCHANGED <<parts, slotFiles, tried, saved, still>>

-----------------------------------------------------------------------------
(* The original system's session: preparation and the way through Android. *)

\* A staged update blocks another one; Galaxy Companion stages the payload beforehand.
Prepare(s) ==
  /\ pc = "original" /\ trigger = None /\ status \notin {"ready", "applying"}
  /\ root[s] = "none"
  /\ root' = [root EXCEPT ![s] = "created"]
  /\ \/ trigger' = s /\ status' = "ready"
     \/ UNCHANGED trigger /\ status' = "failed"
  /\ UNCHANGED <<parts, pc, target, todo, store, backup, ready, flushed, verdict, saved, phase, still>>

\* Orderly restart of a session, or the owner restarting from emergency mode or a panic.
Restart ==
  /\ pc \in {"original"} \cup Sessions \cup {"emergency", "panic"}
  /\ Stop("off")
  /\ UNCHANGED <<parts, store, updater, slotFiles, verdict, saved, phase, still>>

\* Android started and left again: the Dualboot app writes the saved Ubuntu set.
ThroughAndroid ==
  /\ pc \in {"original", "slot"} /\ (pc = "original" => trigger = None)
  /\ parts' = BootSet(saved) /\ Stop("off")
  /\ UNCHANGED <<store, updater, slotFiles, verdict, saved, phase, still>>

-----------------------------------------------------------------------------
(* apply_transaction: the offline migration. Any step of it may raise. *)

ApplyBegin ==
  /\ pc = "apply.start" /\ status' = "applying" /\ Goto("apply.clone")
  /\ UNCHANGED <<parts, store, trigger, slotFiles, verdict, saved, phase, still>>

\* root.mkdir refuses a slot whose cloning has already begun.
ApplyClone ==
  /\ pc = "apply.clone" /\ root[target] = "created"
  /\ root' = [root EXCEPT ![target] = "partial"] /\ Goto("apply.packages")
  /\ UNCHANGED <<parts, store, updater, backup, ready, flushed, verdict, saved, phase, still>>

ApplyPackages ==
  /\ pc = "apply.packages"
  /\ root' = [root EXCEPT ![target] = "complete"] /\ Goto("apply.backup")
  /\ UNCHANGED <<parts, store, updater, backup, ready, flushed, verdict, saved, phase, still>>

\* Mutant: the backup loop leaves a partition out.
CommitBackupShort ==
  /\ pc = "apply.backup" /\ backup[target] = NoBackup
  /\ backup' = [backup EXCEPT ![target] = [parts EXCEPT !["dtbo"] = None]] /\ Goto("apply.flush")
  /\ UNCHANGED <<parts, store, updater, root, ready, flushed, verdict, saved, phase, still>>

CommitBackup ==
  /\ pc = "apply.backup" /\ backup[target] = NoBackup
  /\ backup' = [backup EXCEPT ![target] = parts] /\ Goto("apply.flush")
  /\ UNCHANGED <<parts, store, updater, root, ready, flushed, verdict, saved, phase, still>>

\* Mutant: no os.sync before pending.
CommitReadyUnsynced ==
  /\ pc = "apply.flush"
  /\ ready' = [ready EXCEPT ![target] = TRUE]
  /\ Goto("apply.pending")
  /\ UNCHANGED <<parts, store, updater, root, backup, flushed, verdict, saved, phase, still>>

\* ready is written, then everything is synced, before pending can name the slot.
CommitReady ==
  /\ pc = "apply.flush"
  /\ ready' = [ready EXCEPT ![target] = TRUE] /\ flushed' = [flushed EXCEPT ![target] = TRUE]
  /\ Goto("apply.pending")
  /\ UNCHANGED <<parts, store, updater, root, backup, verdict, saved, phase, still>>

\* Mutant: the selector is written together with the pending marker.
CommitPendingSelected ==
  /\ pc = "apply.pending"
  /\ pending' = target /\ pc' = "apply.write" /\ todo' = Partitions /\ UNCHANGED target
  /\ selected' = target
  /\ UNCHANGED <<parts, updater, slotFiles, verdict, saved, phase, still>>

CommitPending ==
  /\ pc = "apply.pending"
  /\ pending' = target /\ pc' = "apply.write" /\ todo' = Partitions /\ UNCHANGED target
  /\ UNCHANGED <<parts, selected, updater, slotFiles, verdict, saved, phase, still>>

CommitPart ==
  /\ pc = "apply.write"
  /\ parts' = [parts EXCEPT ![NextPart] = target]
  /\ todo' = todo \ {NextPart}
  /\ pc' = IF todo' = {} THEN "apply.select" ELSE pc
  /\ UNCHANGED <<target, store, updater, slotFiles, verdict, saved, phase, still>>

CommitPartFails ==
  /\ pc = "apply.write"
  /\ \E i \in {Torn, parts[NextPart], target} : parts' = [parts EXCEPT ![NextPart] = i]
  /\ pc' = "apply.rollback" /\ todo' = Partitions
  /\ UNCHANGED <<target, store, updater, slotFiles, verdict, saved, phase, still>>

CommitSelect ==
  /\ pc = "apply.select"
  /\ selected' = target /\ Goto("apply.done")
  /\ UNCHANGED <<parts, pending, updater, slotFiles, verdict, saved, phase, still>>

\* atomic_text can raise before or after it has replaced the selector.
CommitSelectFails ==
  /\ pc = "apply.select"
  /\ \/ UNCHANGED <<selected, late>>
     \/ selected' = target /\ late' = late \cup {target}
  /\ pc' = "apply.rollback" /\ todo' = Partitions
  /\ UNCHANGED <<parts, target, pending, updater, slotFiles, verdict, saved, phase, oldHook, losses>>

\* The order is that of the updater's PARTITIONS table, which is not part of this repository.
RollbackPart(p) ==
  /\ pc = "apply.rollback" /\ p \in todo
  /\ parts' = [parts EXCEPT ![p] = backup[target][p]]
  /\ todo' = todo \ {p}
  /\ pc' = IF todo' = {} THEN "apply.clear" ELSE pc
  /\ UNCHANGED <<target, store, updater, slotFiles, verdict, saved, phase, still>>

\* A second failure leaves the except block with pending in place.
RollbackPartFails(p) ==
  /\ pc = "apply.rollback" /\ p \in todo
  /\ \E i \in {Torn, parts[p], backup[target][p]} : parts' = [parts EXCEPT ![p] = i]
  /\ pc' = "apply.failed" /\ todo' = {} /\ UNCHANGED target
  /\ UNCHANGED <<store, updater, slotFiles, verdict, saved, phase, still>>

Deselected == IF selected = target THEN None ELSE selected

RollbackClear ==
  /\ pc = "apply.clear"
  /\ selected' = Deselected /\ pending' = None /\ Goto("apply.failed")
  /\ UNCHANGED <<parts, updater, slotFiles, verdict, saved, phase, still>>

\* The last two states end in unmark() and a restart, or in emergency mode while a commit
\* is still pending.
ApplyDone ==
  /\ pc = "apply.done"
  /\ status' = "complete" /\ trigger' = None /\ Stop("off")
  /\ UNCHANGED <<parts, store, slotFiles, verdict, saved, phase, still>>

\* Writing pending can raise after it has replaced the file, outside commit_slot's try.
ApplyRaises ==
  /\ pc \in {"apply.start", "apply.clone", "apply.packages", "apply.backup", "apply.flush",
             "apply.pending", "apply.clear", "apply.done"}
  /\ pending' \in IF pc = "apply.pending" THEN {pending, target} ELSE {pending}
  /\ selected' \in IF pc = "apply.clear" THEN {selected, Deselected} ELSE {selected}
  /\ Goto("apply.failed")
  /\ UNCHANGED <<parts, updater, slotFiles, verdict, saved, phase, still>>

\* Mutant: a failed migration always restarts.
ApplyFailedRestarts ==
  /\ pc = "apply.failed"
  /\ status' = "failed" /\ trigger' = None
  /\ Stop("off")
  /\ UNCHANGED <<parts, store, slotFiles, verdict, saved, phase, still>>

ApplyFailed ==
  /\ pc = "apply.failed"
  /\ status' = "failed" /\ trigger' = None
  /\ Stop(IF pending = None THEN "off" ELSE "emergency")
  /\ UNCHANGED <<parts, store, slotFiles, verdict, saved, phase, still>>

-----------------------------------------------------------------------------
(* The migrated system's session: acceptance and publication. *)

AcceptResult ==
  /\ pc = "slot" /\ pending # None /\ selected = pending
  /\ ready[pending] /\ Uname = Release[pending]
  /\ result' = [result EXCEPT ![pending] = "accepted"] /\ Goto("accept.unlink")
  /\ UNCHANGED <<parts, store, updater, slotFiles, tried, saved, phase, still>>

AcceptUnlink ==
  /\ pc = "accept.unlink"
  /\ pending' = None /\ phase' = [phase EXCEPT ![target] = "kept"] /\ Goto("accept.sync")
  /\ UNCHANGED <<parts, selected, updater, slotFiles, verdict, saved, still>>

AcceptSync ==
  /\ pc = "accept.sync" /\ Goto("slot")
  /\ UNCHANGED <<parts, store, updater, slotFiles, verdict, saved, phase, still>>

\* selected() and publish() of the maintenance service, run at acceptance and by its timer.
Publish ==
  /\ pc = "slot" /\ selected = target /\ pending = None
  /\ result[target] = "accepted" /\ Uname = Release[target]
  /\ saved # target /\ saved' = target
  /\ UNCHANGED <<parts, pc, target, todo, store, updater, slotFiles, verdict, phase, still>>

-----------------------------------------------------------------------------
(* Power loss. *)

\* A write in flight leaves its partition as it was, torn or written.
CutWrite ==
  \/ /\ pc = "apply.write"
     /\ \E i \in {Torn, target} : parts' = [parts EXCEPT ![NextPart] = i]
  \/ /\ pc = "restore.write" /\ todo # {}
     /\ \E i \in {Torn, backup[target][NextPart]} : parts' = [parts EXCEPT ![NextPart] = i]
  \/ /\ pc = "apply.rollback"
     /\ \E p \in todo : \E i \in {Torn, backup[target][p]} : parts' = [parts EXCEPT ![p] = i]
  \/ UNCHANGED parts

\* A clone or a backup that was not synced may come back incomplete.
LoseUnflushed ==
  IF target \in Slots /\ ~flushed[target] /\ root[target] \in {"partial", "complete"}
  THEN /\ \E r \in {"partial", root[target]} : root' = [root EXCEPT ![target] = r]
       /\ \E b \in {NoBackup, backup[target]} : backup' = [backup EXCEPT ![target] = b]
  ELSE UNCHANGED <<root, backup>>

\* The steps of RestoreClear and RollbackClear that had reached the journal.
LoseClearing ==
  \/ pc = "restore.clear" /\ \E n \in 0..5 : ClearFirst(n)
  \/ /\ pc = "apply.clear"
     /\ \/ UNCHANGED store
        \/ selected' = Deselected /\ UNCHANGED pending
        \/ selected' = Deselected /\ pending' = None
     /\ UNCHANGED <<updater, result, phase>>

\* The acceptance reaches the disk in part: the contents of result may be lost even where
\* the removal of pending was not.
LoseAcceptance ==
  /\ pc \in {"accept.unlink", "accept.sync"}
  /\ \/ /\ result' \in {[result EXCEPT ![target] = r] : r \in {"none", "empty", "accepted"}}
        /\ pending' = target
     \/ /\ pc = "accept.sync"
        /\ result' \in {[result EXCEPT ![target] = r] : r \in {"empty", "accepted"}}
        /\ UNCHANGED pending
  /\ phase' = [phase EXCEPT ![target] = IF pending' = None THEN @ ELSE "trial"]
  /\ UNCHANGED <<selected, updater>>

PowerLoss ==
  /\ pc \in Running /\ losses < MaxPowerLoss /\ losses' = losses + 1
  /\ CutWrite /\ LoseUnflushed
  /\ IF pc \in {"restore.clear", "apply.clear"} THEN LoseClearing
     ELSE IF pc \in {"accept.unlink", "accept.sync"} THEN LoseAcceptance
     ELSE UNCHANGED <<store, updater, result, phase>>
  /\ Stop("off")
  /\ UNCHANGED <<oldHook, late, ready, flushed, tried, saved>>

-----------------------------------------------------------------------------
\* A torn partition leaves the device to an external recovery tool.
Bricked == pc = "bricked" /\ UNCHANGED vars

EarlyBoot ==
  \/ Boot \/ HookRestore \/ HookTry \/ HookOriginal \/ HookEnter \/ HookMismatch
  \/ RestoreCheck \/ RestorePart \/ RestorePartFails \/ RestoreClear

Apply ==
  \/ ApplyBegin \/ ApplyClone \/ ApplyPackages \/ CommitBackup \/ CommitReady \/ CommitPending
  \/ CommitPart \/ CommitPartFails \/ CommitSelect \/ CommitSelectFails
  \/ \E p \in Partitions : RollbackPart(p) \/ RollbackPartFails(p)
  \/ RollbackClear \/ ApplyDone \/ ApplyRaises \/ ApplyFailed

Accept == AcceptResult \/ AcceptUnlink \/ AcceptSync

Next ==
  \/ EarlyBoot \/ Apply \/ Accept \/ Publish
  \/ \E s \in Slots : Prepare(s)
  \/ Restart \/ ThroughAndroid \/ PowerLoss \/ Bricked

Spec == Init /\ [][Next]_vars

\* Early boot and the offline migration run by themselves once started; sessions, the
\* owner and the power supply owe nothing.
FairSpec == Spec /\ WF_vars(EarlyBoot) /\ WF_vars(Apply)

-----------------------------------------------------------------------------
(* Properties. *)

TypeOK ==
  /\ parts \in BootSets
  /\ pc \in Running \cup Halted \cup {"off"}
  /\ target \in Systems \cup {None} /\ todo \subseteq Partitions
  /\ oldHook \in BOOLEAN
  /\ {pending, selected, trigger} \subseteq Slots \cup {None}
  /\ status \in {"idle", "ready", "applying", "complete", "failed"}
  /\ root \in [Slots -> {"none", "created", "partial", "complete"}]
  /\ backup \in [Slots -> BootSets \cup {NoBackup}]
  /\ ready \in [Slots -> BOOLEAN] /\ flushed \in [Slots -> BOOLEAN]
  /\ tried \in [Slots -> BOOLEAN]
  /\ result \in [Slots -> {"none", "empty", "accepted", "rolled-back"}]
  /\ saved \in Systems
  /\ phase \in [Slots -> {"new", "trial", "kept", "withdrawn"}]
  /\ late \subseteq Slots
  /\ losses \in 0..MaxPowerLoss

\* Once a marker or a partition names a slot, what that slot replaced is on disk
\* in full and so is the slot itself: commit_slot syncs before it writes pending, and pending
\* before it touches a partition, so no power loss leaves a boot set that cannot be undone.
WrittenMeansRecoverable ==
  \A s \in Slots : (pending = s \/ selected = s \/ \E p \in Partitions : parts[p] = s) =>
    backup[s] \in BootSets /\ flushed[s] /\ ready[s] /\ root[s] = "complete"

\* A trial session runs on the complete boot set of its slot. The hook compares the kernel
\* release alone; that the other three partitions match follows from the order in which
\* commit_slot writes partitions, selector and pending marker.
TrialRunsWhole ==
  pc \in Sessions /\ phase[target] = "trial" /\ target \notin late => parts = BootSet(target)

\* Where the original init_boot carries the hook, the original system never comes up on a
\* mixed boot set: every interrupted commit or restore is found by the hook and redone.
OriginalRunsWhole ==
  oldHook /\ pc \in {"original", "apply.start"} => parts = BootSet(Original)

\* A failed migration restarts by itself only when none of its images is left in a
\* partition, and otherwise stops in emergency mode: apply_offline looks at the pending
\* marker, which commit_slot keeps until the last partition is back.
FailedApplyRestartsRestored ==
  [][pc = "apply.failed" /\ pc' = "off" /\ losses' = losses
       => \A p \in Partitions : parts[p] # target]_vars

\* The migration implements TrialBoot: one trial session per slot, no session of a slot
\* whose boot set was taken away.
Promise == INSTANCE TrialBoot WITH
  session <- IF pc \in Sessions THEN target
             ELSE IF pc \in {"original", "apply.start"} THEN Original
             ELSE None
TrialBootSpec == Promise!Spec

\* No restart loop: whatever is found at power-on, early boot and the offline migration
\* come to rest in a session or in a stop that says why.
ComesToRest == pc = "off" ~> pc \in Sessions \cup {"original"} \cup Halted
=============================================================================
