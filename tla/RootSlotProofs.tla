--------------------------- MODULE RootSlotProofs ---------------------------
(***************************************************************************)
(* Proofs about RootSlot, for any set of slots, any assignment of kernel   *)
(* releases and any number of power losses.                                *)
(*                                                                         *)
(* The safety theorem is WrittenMeansRecoverable. It is not inductive: the *)
(* images that are written come from backups and from Android's saved set, *)
(* and pending comes back after a lost acceptance. The strengthening says  *)
(* that every place that can name a slot names a slot whose files are      *)
(* whole and synced (Named), and that no step can take that away from a    *)
(* slot (WholeIsStable).                                                   *)
(*                                                                         *)
(* The second half is about the trial. TInv relates partitions, markers    *)
(* and the phases of apply, hook and restore from the first marker to the  *)
(* acceptance; it shows that a session runs on one boot set                *)
(* (TrialRunsWhole, OriginalRunsWhole) and, action by action, that the     *)
(* migration implements TrialBoot. Aimed, Fresh and Accounted add where    *)
(* the images of a staged slot can be, which is what a failed migration    *)
(* that restarts by itself depends on (FailedApplyRestartsRestored).       *)
(*                                                                         *)
(* The last part is about what the hook and a migration may count on.      *)
(* NothingMissing: what they would stop for is there. Distance: every step *)
(* of theirs comes closer to a session or to a halt, restores and          *)
(* migrations that are still ahead being counted first; what ends an       *)
(* undertaking is in TInv (Marked).                                        *)
(***************************************************************************)
EXTENDS RootSlot, TLAPS

Applying == {"apply.start", "apply.clone", "apply.packages", "apply.backup", "apply.flush",
             "apply.pending", "apply.write", "apply.select", "apply.rollback",
             "apply.clear", "apply.done", "apply.failed"}
Restoring == {"restore.check", "restore.write", "restore.clear"}

\* From here on a commit relies on what the slot holds.
Committing == {"apply.pending", "apply.write", "apply.select", "apply.rollback"}

\* The slot and all it replaced are on disk.
Whole(s) == backup[s] \in BootSets /\ flushed[s] /\ ready[s] /\ root[s] = "complete"

\* What the program counter says about the slot at work.
Staged ==
  /\ pc \in Applying \cup Restoring \cup Sessions => target \in Slots
  /\ pc \in {"apply.write", "restore.write"} => todo # {}
  /\ pc = "restore.write" => backup[target] \in BootSets
  /\ pc \in {"apply.backup", "apply.flush"} => root[target] = "complete"
  /\ pc = "apply.flush" => backup[target] \in BootSets

\* Everything that can name a slot names a whole one.
Names(s) ==
  \/ pending = s \/ selected = s \/ saved = s
  \/ \E p \in Partitions : parts[p] = s
  \/ \E t \in Slots, p \in Partitions : backup[t][p] = s
  \/ target = s /\ pc \in Committing \cup Sessions

Named == \A s \in Slots : Names(s) => Whole(s)

IInv == TypeOK /\ Staged /\ Named

\* A loop over partitions takes one that is left.
LEMMA PartOrder == ASSUME todo \in SUBSET Partitions, todo # {} PROVE NextPart \in todo
<1>1. \E p \in todo : \A q \in todo : Rank[p] <= Rank[q]
  <2>1. CASE "init_boot" \in todo BY <2>1 DEF Partitions, Rank
  <2>2. CASE "init_boot" \notin todo /\ "boot" \in todo BY <2>2 DEF Partitions, Rank
  <2>3. CASE todo \subseteq {"vendor_boot", "dtbo"} /\ "vendor_boot" \in todo BY <2>3 DEF Rank
  <2>4. CASE todo = {"dtbo"} BY <2>4 DEF Rank
  <2> QED BY <2>1, <2>2, <2>3, <2>4 DEF Partitions
<1> QED BY <1>1 DEF NextPart

\* No step takes from a slot what makes it whole.
LEMMA WholeIsStable ==
  ASSUME TypeOK, [Next]_vars, NEW s \in Slots, Whole(s) PROVE Whole(s)'
<1>1. NoBackup \notin BootSets
  <2>1. NoBackup["boot"] = None /\ "boot" \in Partitions BY DEF NoBackup, Partitions
  <2> QED BY <2>1, SlotAssumption DEF BootSets, Systems
<1>2. CASE UNCHANGED slotFiles BY <1>2 DEF slotFiles, Whole
<1>3. CASE \E t \in Slots : Prepare(t) BY <1>3 DEF Prepare, Whole, verdict
<1>4. CASE ApplyClone BY <1>4 DEF ApplyClone, Whole
<1>5. CASE ApplyPackages BY <1>5 DEF ApplyPackages, Whole, TypeOK
<1>6. CASE CommitBackup BY <1>1, <1>6 DEF CommitBackup, Whole
<1>7. CASE CommitReady BY <1>7 DEF CommitReady, Whole, TypeOK
<1>8. CASE PowerLoss
  <2>1. flushed' = flushed /\ ready' = ready BY <1>8 DEF PowerLoss
  <2>2. root'[s] = root[s] /\ backup'[s] = backup[s]
    BY <1>8 DEF PowerLoss, LoseUnflushed, Whole, TypeOK
  <2> QED BY <2>1, <2>2 DEF Whole
<1> QED
  BY <1>2, <1>3, <1>4, <1>5, <1>6, <1>7, <1>8
  DEF Next, EarlyBoot, Apply, Accept, vars, slotFiles,
      Boot, BootOriginal, HookRestore, HookTry, HookOriginal, HookEnter, HookMismatch,
      RestoreCheck, RestorePart, RestorePartFails, RestoreClear,
      ApplyBegin, CommitPending, CommitPart, CommitPartFails, CommitSelect, CommitSelectFails,
      RollbackPart, RollbackPartFails, RollbackClear, ApplyDone, ApplyRaises, ApplyFailed,
      AcceptResult, AcceptUnlink, AcceptSync, Publish, Restart, ThroughAndroid, Bricked
\* What the invariant says of the slot at work.
LEMMA AtWork ==
  ASSUME IInv
  PROVE  /\ pc \in Applying \cup Restoring \cup Sessions => target \in Slots
         /\ pc \in {"apply.write", "restore.write"} => todo # {}
         /\ pc \in {"restore.write", "apply.rollback"} => backup[target] \in BootSets
<1>1. pc \in Committing => target \in Slots /\ Whole(target)
  BY DEF IInv, Staged, Named, Names, Committing, Applying
<1> QED BY <1>1 DEF IInv, Staged, Whole, Committing

\* Every step keeps the types.
LEMMA TypePreserved ==
  ASSUME IInv, [Next]_vars PROVE TypeOK'
<1> USE DEF IInv, TypeOK, store, updater, slotFiles, verdict, still, Systems, BootSets,
            Running, Halted, Sessions
<1>1. CASE Boot BY <1>1 DEF Boot, Goto, Hooked, BootOriginal, Stop
<1>2. CASE HookRestore BY <1>2 DEF HookRestore, MustRestore
<1>3. CASE HookTry BY <1>3 DEF HookTry, Goto
<1>4. CASE HookOriginal BY <1>4 DEF HookOriginal, BootOriginal
<1>5. CASE HookEnter BY <1>5 DEF HookEnter
<1>6. CASE HookMismatch BY <1>6 DEF HookMismatch
<1>7. CASE RestoreCheck BY <1>7 DEF RestoreCheck, Stop, NoBackup
<1>8. CASE RestorePart BY <1>8, AtWork, PartOrder DEF RestorePart, Restoring
<1>9. CASE RestorePartFails
  BY <1>9, AtWork, PartOrder DEF RestorePartFails, Stop, Restoring
<1>10. CASE RestoreClear BY <1>10 DEF RestoreClear, ClearFirst, Stop
<1>11. CASE ApplyBegin BY <1>11 DEF ApplyBegin, Goto
<1>12. CASE ApplyClone BY <1>12 DEF ApplyClone, Goto
<1>13. CASE ApplyPackages BY <1>13 DEF ApplyPackages, Goto
<1>14. CASE CommitBackup BY <1>14 DEF CommitBackup, Goto
<1>15. CASE CommitReady BY <1>15 DEF CommitReady, Goto
<1>16. CASE CommitPending BY <1>16, AtWork DEF CommitPending, Applying
<1>17. CASE CommitPart BY <1>17, AtWork, PartOrder DEF CommitPart, Applying
<1>18. CASE CommitPartFails BY <1>18, AtWork, PartOrder DEF CommitPartFails, Applying
<1>19. CASE CommitSelect BY <1>19, AtWork DEF CommitSelect, Goto, Applying
<1>20. CASE CommitSelectFails BY <1>20, AtWork DEF CommitSelectFails, Applying
<1>21. CASE \E p \in Partitions : RollbackPart(p)
  BY <1>21, AtWork DEF RollbackPart, Applying
<1>22. CASE \E p \in Partitions : RollbackPartFails(p)
  BY <1>22, AtWork DEF RollbackPartFails, Applying
<1>23. CASE RollbackClear BY <1>23 DEF RollbackClear, Goto, Deselected
<1>24. CASE ApplyDone BY <1>24 DEF ApplyDone, Stop
<1>25. CASE ApplyRaises BY <1>25, AtWork DEF ApplyRaises, Goto, Deselected, Applying
<1>26. CASE ApplyFailed BY <1>26 DEF ApplyFailed, Stop
<1>27. CASE AcceptResult BY <1>27 DEF AcceptResult, Goto
<1>28. CASE AcceptUnlink BY <1>28 DEF AcceptUnlink, Goto
<1>29. CASE AcceptSync BY <1>29 DEF AcceptSync, Goto
<1>30. CASE Publish BY <1>30, AtWork DEF Publish
<1>31. CASE \E t \in Slots : Prepare(t) BY <1>31 DEF Prepare
<1>32. CASE Restart BY <1>32 DEF Restart, Stop
<1>33. CASE ThroughAndroid BY <1>33 DEF ThroughAndroid, Stop, BootSet
<1>34. CASE PowerLoss
  <2> USE AtWork DEF PowerLoss, Applying, Restoring
  <2>1. parts' \in BootSets BY <1>34, PartOrder DEF CutWrite
  <2>2. root' \in [Slots -> {"none", "created", "partial", "complete"}]
        /\ backup' \in [Slots -> BootSets \cup {NoBackup}]
    BY <1>34 DEF LoseUnflushed
  <2>3. /\ {pending', selected', trigger'} \subseteq Slots \cup {None}
        /\ status' \in {"idle", "ready", "applying", "complete", "failed"}
        /\ result' \in [Slots -> {"none", "empty", "accepted", "rolled-back"}]
        /\ phase' \in [Slots -> {"new", "trial", "kept", "withdrawn"}]
    <3>1. CASE pc = "restore.clear" BY <1>34, <3>1 DEF LoseClearing, ClearFirst
    <3>2. CASE pc = "apply.clear" BY <1>34, <3>2 DEF LoseClearing, Deselected
    <3>3. CASE pc \in {"accept.unlink", "accept.sync"} BY <1>34, <3>3 DEF LoseAcceptance
    <3>4. CASE pc \notin {"restore.clear", "apply.clear", "accept.unlink", "accept.sync"}
      BY <1>34, <3>4
    <3> QED BY <3>1, <3>2, <3>3, <3>4
  <2>4. losses' \in 0..MaxPowerLoss BY <1>34, SlotAssumption
  <2> QED BY <1>34, <2>1, <2>2, <2>3, <2>4 DEF Stop
<1>35. CASE UNCHANGED vars BY <1>35 DEF vars
<1> QED
  BY <1>1, <1>2, <1>3, <1>4, <1>5, <1>6, <1>7, <1>8, <1>9, <1>10, <1>11, <1>12, <1>13,
     <1>14, <1>15, <1>16, <1>17, <1>18, <1>19, <1>20, <1>21, <1>22, <1>23, <1>24, <1>25, <1>26,
     <1>27, <1>28, <1>29, <1>30, <1>31, <1>32, <1>33, <1>34, <1>35
  DEF Next, EarlyBoot, Apply, Accept, Bricked

\* Every step keeps what the program counter says.
LEMMA StagedPreserved ==
  ASSUME IInv, [Next]_vars PROVE Staged'
<1> USE DEF store, updater, slotFiles, verdict, still, Applying, Restoring, Sessions
<1> TypeOK /\ Staged BY DEF IInv
<1> USE DEF Staged
<1>1. CASE Boot BY <1>1 DEF Boot, Goto, Hooked, BootOriginal, Stop, TypeOK
<1>2. CASE HookRestore BY <1>2 DEF HookRestore, TypeOK, MustRestore
<1>3. CASE HookTry BY <1>3 DEF HookTry, Goto
<1>4. CASE HookOriginal BY <1>4 DEF HookOriginal, BootOriginal, TypeOK
<1>5. CASE HookEnter BY <1>5 DEF HookEnter, TypeOK
<1>6. CASE HookMismatch BY <1>6 DEF HookMismatch, TypeOK
<1>7. CASE RestoreCheck BY <1>7 DEF RestoreCheck, Stop, NoBackup, TypeOK, Partitions
<1>8. CASE RestorePart BY <1>8 DEF RestorePart
<1>9. CASE RestorePartFails BY <1>9 DEF RestorePartFails, Stop
<1>10. CASE RestoreClear BY <1>10 DEF RestoreClear, ClearFirst, Stop
<1>11. CASE ApplyBegin BY <1>11 DEF ApplyBegin, Goto
<1>12. CASE ApplyClone BY <1>12 DEF ApplyClone, Goto
<1>13. CASE ApplyPackages BY <1>13 DEF ApplyPackages, Goto, TypeOK
<1>14. CASE CommitBackup BY <1>14 DEF CommitBackup, Goto, TypeOK
<1>15. CASE CommitReady BY <1>15 DEF CommitReady, Goto
<1>16. CASE CommitPending BY <1>16 DEF CommitPending, Partitions
<1>17. CASE CommitPart BY <1>17 DEF CommitPart
<1>18. CASE CommitPartFails BY <1>18 DEF CommitPartFails, Partitions
<1>19. CASE CommitSelect BY <1>19 DEF CommitSelect, Goto
<1>20. CASE CommitSelectFails BY <1>20 DEF CommitSelectFails, Partitions
<1>21. CASE \E p \in Partitions : RollbackPart(p) BY <1>21 DEF RollbackPart
<1>22. CASE \E p \in Partitions : RollbackPartFails(p) BY <1>22 DEF RollbackPartFails
<1>23. CASE RollbackClear BY <1>23 DEF RollbackClear, Goto, Deselected
<1>24. CASE ApplyDone BY <1>24 DEF ApplyDone, Stop
<1>25. CASE ApplyRaises BY <1>25 DEF ApplyRaises, Goto, Deselected
<1>26. CASE ApplyFailed BY <1>26 DEF ApplyFailed, Stop
<1>27. CASE AcceptResult BY <1>27 DEF AcceptResult, Goto
<1>28. CASE AcceptUnlink BY <1>28 DEF AcceptUnlink, Goto
<1>29. CASE AcceptSync BY <1>29 DEF AcceptSync, Goto
<1>30. CASE Publish BY <1>30 DEF Publish
<1>31. CASE \E t \in Slots : Prepare(t) BY <1>31 DEF Prepare
<1>32. CASE Restart BY <1>32 DEF Restart, Stop
<1>33. CASE ThroughAndroid BY <1>33 DEF ThroughAndroid, Stop, BootSet
<1>34. CASE PowerLoss BY <1>34 DEF PowerLoss, Stop
<1>35. CASE UNCHANGED vars BY <1>35 DEF vars
<1> QED
  BY <1>1, <1>2, <1>3, <1>4, <1>5, <1>6, <1>7, <1>8, <1>9, <1>10, <1>11, <1>12, <1>13,
     <1>14, <1>15, <1>16, <1>17, <1>18, <1>19, <1>20, <1>21, <1>22, <1>23, <1>24, <1>25, <1>26,
     <1>27, <1>28, <1>29, <1>30, <1>31, <1>32, <1>33, <1>34, <1>35
  DEF Next, EarlyBoot, Apply, Accept, Bricked

\* Only the sync that ends the preparation lets a slot be named that was not named before.
LEMMA NoNewName ==
  ASSUME IInv, [Next]_vars, NEW s \in Slots, Names(s)' PROVE Names(s) \/ Whole(s)'
<1> USE DEF Names, store, updater, slotFiles, verdict, still, Committing, Sessions
<1> TypeOK /\ Staged BY DEF IInv
<1>1. CASE Boot BY <1>1, SlotAssumption DEF Boot, Goto, Hooked, BootOriginal, Stop, Systems
<1>2. CASE HookRestore BY <1>2, SlotAssumption DEF HookRestore, Systems
<1>3. CASE HookTry BY <1>3, SlotAssumption DEF HookTry, Goto, Systems
<1>4. CASE HookOriginal BY <1>4, SlotAssumption DEF HookOriginal, BootOriginal, Systems
<1>5. CASE HookEnter BY <1>5 DEF HookEnter
<1>6. CASE HookMismatch BY <1>6, SlotAssumption DEF HookMismatch, Systems
<1>7. CASE RestoreCheck BY <1>7, SlotAssumption DEF RestoreCheck, Stop, NoBackup, Systems
<1>8. CASE RestorePart
  BY <1>8, AtWork, PartOrder, SlotAssumption DEF RestorePart, TypeOK, BootSets, Restoring
<1>9. CASE RestorePartFails
  BY <1>9, AtWork, PartOrder, SlotAssumption
  DEF RestorePartFails, Stop, TypeOK, BootSets, Restoring, Systems
<1>10. CASE RestoreClear
  BY <1>10, SlotAssumption DEF RestoreClear, ClearFirst, Stop, Systems
<1>11. CASE ApplyBegin BY <1>11 DEF ApplyBegin, Goto
<1>12. CASE ApplyClone BY <1>12 DEF ApplyClone, Goto
<1>13. CASE ApplyPackages BY <1>13 DEF ApplyPackages, Goto
<1>14. CASE CommitBackup BY <1>14 DEF CommitBackup, Goto, TypeOK
<1>15. CASE CommitReady
  <2>1. backup[target] \in BootSets /\ root[target] = "complete" /\ target \in Slots
    BY <1>15 DEF CommitReady, Staged, Applying
  <2> QED BY <1>15, <2>1 DEF CommitReady, Goto, Whole, TypeOK
<1>16. CASE CommitPending BY <1>16 DEF CommitPending
<1>17. CASE CommitPart
  BY <1>17, AtWork, PartOrder, SlotAssumption DEF CommitPart, TypeOK, BootSets, Applying, Systems
<1>18. CASE CommitPartFails
  BY <1>18, AtWork, PartOrder, SlotAssumption
  DEF CommitPartFails, TypeOK, BootSets, Applying, Systems
<1>19. CASE CommitSelect BY <1>19 DEF CommitSelect, Goto
<1>20. CASE CommitSelectFails BY <1>20 DEF CommitSelectFails
<1>21. CASE \E p \in Partitions : RollbackPart(p)
  BY <1>21, AtWork, SlotAssumption DEF RollbackPart, TypeOK, BootSets, Applying, Systems
<1>22. CASE \E p \in Partitions : RollbackPartFails(p)
  BY <1>22, AtWork, SlotAssumption DEF RollbackPartFails, TypeOK, BootSets, Applying, Systems
<1>23. CASE RollbackClear BY <1>23, SlotAssumption DEF RollbackClear, Goto, Deselected, Systems
<1>24. CASE ApplyDone BY <1>24, SlotAssumption DEF ApplyDone, Stop, Systems
<1>25. CASE ApplyRaises BY <1>25, SlotAssumption DEF ApplyRaises, Goto, Deselected, Systems
<1>26. CASE ApplyFailed BY <1>26, SlotAssumption DEF ApplyFailed, Stop, Systems
<1>27. CASE AcceptResult BY <1>27 DEF AcceptResult, Goto
<1>28. CASE AcceptUnlink BY <1>28, SlotAssumption DEF AcceptUnlink, Goto, Systems
<1>29. CASE AcceptSync BY <1>29 DEF AcceptSync, Goto
<1>30. CASE Publish BY <1>30 DEF Publish
<1>31. CASE \E t \in Slots : Prepare(t) BY <1>31 DEF Prepare
<1>32. CASE Restart BY <1>32, SlotAssumption DEF Restart, Stop, Systems
<1>33. CASE ThroughAndroid BY <1>33 DEF ThroughAndroid, Stop, BootSet
<1>34. CASE PowerLoss
  <2> USE SlotAssumption, AtWork DEF PowerLoss, Systems, Applying, Restoring
  <2>1. target' = None /\ pc' = "off" /\ saved' = saved BY <1>34 DEF Stop
  <2>2. ASSUME NEW p \in Partitions, parts'[p] = s PROVE Names(s)
    BY <1>34, <2>2, PartOrder DEF CutWrite, TypeOK, BootSets
  <2>3. ASSUME NEW t \in Slots, NEW p \in Partitions, backup'[t][p] = s PROVE Names(s)
    BY <1>34, <2>3 DEF LoseUnflushed, NoBackup, TypeOK
  <2>4. ASSUME pending' = s \/ selected' = s PROVE Names(s)
    <3>1. CASE pc = "restore.clear" BY <1>34, <2>4, <3>1 DEF LoseClearing, ClearFirst
    <3>2. CASE pc = "apply.clear" BY <1>34, <2>4, <3>2 DEF LoseClearing, Deselected
    <3>3. CASE pc \in {"accept.unlink", "accept.sync"} BY <1>34, <2>4, <3>3 DEF LoseAcceptance
    <3>4. CASE pc \notin {"restore.clear", "apply.clear", "accept.unlink", "accept.sync"}
      BY <1>34, <2>4, <3>4
    <3> QED BY <3>1, <3>2, <3>3, <3>4
  <2> QED BY <2>1, <2>2, <2>3, <2>4
<1>35. CASE UNCHANGED vars BY <1>35 DEF vars
<1> QED
  BY <1>1, <1>2, <1>3, <1>4, <1>5, <1>6, <1>7, <1>8, <1>9, <1>10, <1>11, <1>12, <1>13,
     <1>14, <1>15, <1>16, <1>17, <1>18, <1>19, <1>20, <1>21, <1>22, <1>23, <1>24, <1>25, <1>26,
     <1>27, <1>28, <1>29, <1>30, <1>31, <1>32, <1>33, <1>34, <1>35
  DEF Next, EarlyBoot, Apply, Accept, Bricked

\* The strengthened invariant: types, stages, and names of whole slots only.
THEOREM IInvHolds == Spec => []IInv
<1>1. Init => IInv
  <2> SUFFICES ASSUME Init PROVE IInv OBVIOUS
  <2> USE SlotAssumption DEF Init, Systems
  <2>1. TypeOK BY DEF TypeOK, BootSets, BootSet, Running, Halted
  <2>2. Staged BY DEF Staged, Applying, Restoring, Sessions
  <2>3. Named BY DEF Named, Names, BootSet, NoBackup, Committing, Sessions
  <2> QED BY <2>1, <2>2, <2>3 DEF IInv
<1>2. IInv /\ [Next]_vars => IInv'
  <2> SUFFICES ASSUME IInv, [Next]_vars PROVE IInv' OBVIOUS
  <2>1. Named'
    <3> SUFFICES ASSUME NEW s \in Slots, Names(s)' PROVE Whole(s)' BY DEF Named
    <3>1. Whole(s) => Whole(s)' BY WholeIsStable DEF IInv
    <3>2. Names(s) => Whole(s) BY DEF IInv, Named
    <3> QED BY <3>1, <3>2, NoNewName
  <2> QED BY <2>1, TypePreserved, StagedPreserved DEF IInv
<1> QED BY <1>1, <1>2, PTL DEF Spec

\* The type invariant holds for every instance.
THEOREM TypeCorrect == Spec => []TypeOK
<1>1. IInv => TypeOK BY DEF IInv
<1> QED BY <1>1, IInvHolds, PTL

\* Whatever is interrupted and however often, once a marker or a boot partition names
\* a slot, the slot's system and the boot set it replaced are on disk in full
\* (commit_slot's backup, ready, os.sync, pending, partitions).
THEOREM Recoverable == Spec => []WrittenMeansRecoverable
<1>1. IInv => WrittenMeansRecoverable BY DEF IInv, Named, Names, Whole, WrittenMeansRecoverable
<1> QED BY <1>1, IInvHolds, PTL

\* The states of a commit up to the selector, and of the original system up to its backup.
Staging == {"apply.packages", "apply.backup", "apply.flush", "apply.pending", "apply.write", "apply.select"}
Originally == {"original", "apply.start", "apply.clone", "apply.packages", "apply.backup"}
Replacing == {"apply.flush", "apply.pending", "apply.write", "apply.select", "apply.rollback", "apply.clear"}

\* Partitions that were written hold what their writer puts there.
Written ==
  /\ pc = "apply.write" => \A p \in Partitions \ todo : parts[p] = target
  /\ pc = "apply.select" => parts = BootSet(target)
  /\ pc \in {"restore.write", "apply.rollback"} => \A p \in Partitions \ todo : parts[p] = backup[target][p]
  /\ pc \in {"restore.clear", "apply.clear"} => parts = backup[target]

\* The markers while partitions are written or put back.
Marked ==
  /\ pc \in {"apply.write", "apply.select", "apply.rollback", "apply.clear"} => pending = target
  /\ pc \in Staging => selected # target
  /\ pc \in {"apply.rollback", "apply.clear"} /\ selected = target => target \in late
  /\ pc \in Restoring => pending = target \/ (pending = None /\ selected = target /\ phase[target] = "kept")

\* The markers and the phase of a slot that is being entered or is up.
Entered ==
  /\ pc \in {"hook", "hook.select"} \cup Sessions => oldHook \/ parts["init_boot"] \in Slots
  /\ pc = "hook.select" => pending = None \/ (pending = selected /\ tried[pending] /\ phase[pending] = "new")
  /\ pc = "hook.select" /\ pending # None /\ pending \notin late => parts = BootSet(pending)
  /\ pc \in Sessions => selected = target /\ pending \in {None, target} /\ tried[target] /\ phase[target] \in {"trial", "kept"}
  /\ pc = "accept.unlink" => pending = target
  /\ pc = "accept.sync" => pending = None

\* Phases follow files and markers.
Follows(s) ==
  /\ phase[s] # "new" => Whole(s)
  /\ phase[s] \in {"trial", "kept"} => tried[s]
  /\ selected = s => phase[s] # "withdrawn"
  /\ pending = s => phase[s] # "kept"
  /\ pc \in Staging /\ target = s => phase[s] = "new"
Phased == \A s \in Slots : Follows(s)

\* A trial that was committed whole and not yet started.
Untried ==
  pending # None /\ pending = selected /\ ~tried[pending] /\ pending \notin late =>
    parts = BootSet(pending) /\ pc \in {"apply.done", "apply.failed", "off", "hook", "emergency"}

\* A selector that the original system finds, and that is overtaken by another migration.
Overtaken ==
  /\ pc \in Originally /\ selected # None => ~oldHook /\ parts["init_boot"] = Original
  /\ pc \in Replacing /\ selected \notin {None, target} => ~oldHook /\ backup[target]["init_boot"] = Original
  /\ pending = None /\ selected # None /\ phase[selected] # "kept" => ~oldHook /\ parts["init_boot"] = Original

\* Android's saved set is a slot's only after that slot's publication, and from then on no
\* other system runs.
Published ==
  saved \in Slots =>
    /\ selected = saved /\ pending = None /\ pc \in {"slot", "off", "hook", "hook.select", "bricked"}
    /\ (oldHook \/ parts["init_boot"] \in Slots) /\ Release[parts["boot"]] = Release[saved]

\* With the hook in the original init_boot.
Guarded ==
  oldHook =>
    /\ pending = None /\ selected = None => parts = BootSet(Original)
    /\ \A s \in Slots : backup[s] \in {NoBackup, BootSet(Original)}
    /\ pc \in Originally => parts = BootSet(Original)

TInv == IInv /\ Written /\ Marked /\ Entered /\ Phased /\ Untried /\ Overtaken /\ Published /\ Guarded /\ TrialRunsWhole

\* At the hook a selected slot is one that was kept, or one that starts its trial.
LEMMA AtTheHook ==
  ASSUME IInv, Entered, Overtaken, pc = "hook.select", selected # None
  PROVE  /\ selected \in Slots
         /\ \/ pending = None /\ phase[selected] = "kept"
            \/ /\ pending = selected /\ phase[selected] = "new" /\ tried[selected]
               /\ selected \notin late => parts = BootSet(selected)
<1>1. selected \in Slots BY DEF IInv, TypeOK
<1>2. CASE pending = None
  <2>1. oldHook \/ parts["init_boot"] \in Slots BY DEF Entered
  <2>2. phase[selected] = "kept" BY <1>2, <2>1, SlotAssumption DEF Overtaken
  <2> QED BY <1>1, <1>2, <2>2
<1>3. CASE pending # None BY <1>1, <1>3 DEF Entered
<1> QED BY <1>2, <1>3

\* Partitions are written one by one, and whole sets at the end.
LEMMA WrittenPreserved ==
  ASSUME IInv, Written, [Next]_vars PROVE Written'
<1> TypeOK /\ Staged BY DEF IInv
<1> pending \in Slots \cup {None} /\ selected \in Slots \cup {None} /\ trigger \in Slots \cup {None} BY DEF TypeOK
<1> pc \in Applying \cup Restoring \cup Sessions => target \in Slots BY DEF Staged, IInv
<1> USE DEF TypeOK, Written, store, updater, slotFiles, verdict, still, Staging, Originally, Replacing, Restoring, Applying, Sessions, Systems
<1>1. CASE Boot BY <1>1 DEF Boot, Goto, Hooked, BootOriginal, Stop
<1>2. CASE HookRestore BY <1>2 DEF HookRestore, MustRestore
<1>3. CASE HookTry BY <1>3 DEF HookTry, Goto, MustRestore
<1>4. CASE HookOriginal BY <1>4 DEF HookOriginal, BootOriginal
<1>5. CASE HookEnter BY <1>5 DEF HookEnter, Uname
<1>6. CASE HookMismatch BY <1>6 DEF HookMismatch, Uname
<1>7. CASE RestoreCheck BY <1>7 DEF RestoreCheck, Stop
<1>8. CASE RestorePart
  <2>1. NextPart \in todo /\ todo \subseteq Partitions BY <1>8, PartOrder, AtWork DEF RestorePart
  <2>2. parts' = [parts EXCEPT ![NextPart] = backup[target][NextPart]] /\ todo' = todo \ {NextPart} BY <1>8 DEF RestorePart
  <2>3. UNCHANGED <<target, backup>> /\ pc = "restore.write" BY <1>8 DEF RestorePart
  <2>4. \A p \in Partitions \ todo' : parts'[p] = backup[target][p] BY <2>1, <2>2, <2>3 DEF BootSets
  <2>5. CASE todo' = {}
    <3>1. parts' = backup[target]
      <4>1. \A p \in Partitions : parts'[p] = backup[target][p] BY <2>4, <2>5
      <4>2. parts' \in [Partitions -> Slots \cup {Original, Torn}] BY <2>2, <2>1, <2>3, <1>8, TypePreserved DEF BootSets, Next, EarlyBoot, Apply
      <4> QED BY <4>1, <4>2, <2>3, AtWork DEF BootSets, BootSet
    <3>2. pc' = "restore.clear" BY <1>8, <2>5 DEF RestorePart
    <3> QED BY <3>1, <3>2, <2>3
  <2>6. CASE todo' # {}
    <3>1. pc' = "restore.write" BY <1>8, <2>3, <2>6 DEF RestorePart
    <3> QED BY <3>1, <2>3, <2>4
  <2> QED BY <2>5, <2>6
<1>9. CASE RestorePartFails BY <1>9, AtWork, PartOrder DEF RestorePartFails, Stop
<1>10. CASE RestoreClear BY <1>10 DEF RestoreClear, ClearFirst, Stop
<1>11. CASE ApplyBegin BY <1>11 DEF ApplyBegin, Goto
<1>12. CASE ApplyClone BY <1>12 DEF ApplyClone, Goto
<1>13. CASE ApplyPackages BY <1>13 DEF ApplyPackages, Goto
<1>14. CASE CommitBackup BY <1>14 DEF CommitBackup, Goto
<1>15. CASE CommitReady BY <1>15 DEF CommitReady, Goto
<1>16. CASE CommitPending BY <1>16 DEF CommitPending
<1>17. CASE CommitPart
  <2>1. NextPart \in todo /\ todo \subseteq Partitions BY <1>17, PartOrder, AtWork DEF CommitPart
  <2>2. parts' = [parts EXCEPT ![NextPart] = target] /\ todo' = todo \ {NextPart} BY <1>17 DEF CommitPart
  <2>3. UNCHANGED <<target, backup>> /\ pc = "apply.write" BY <1>17 DEF CommitPart
  <2>4. \A p \in Partitions \ todo' : parts'[p] = target BY <2>1, <2>2, <2>3 DEF BootSets
  <2>5. CASE todo' = {}
    <3>1. parts' = BootSet(target)
      <4>1. \A p \in Partitions : parts'[p] = target BY <2>4, <2>5
      <4>2. parts' \in [Partitions -> Slots \cup {Original, Torn}] BY <2>2, <2>1, <2>3, <1>17, TypePreserved DEF BootSets, Next, EarlyBoot, Apply
      <4> QED BY <4>1, <4>2, <2>3, AtWork DEF BootSets, BootSet
    <3>2. pc' = "apply.select" BY <1>17, <2>5 DEF CommitPart
    <3> QED BY <3>1, <3>2, <2>3
  <2>6. CASE todo' # {}
    <3>1. pc' = "apply.write" BY <1>17, <2>3, <2>6 DEF CommitPart
    <3> QED BY <3>1, <2>3, <2>4
  <2> QED BY <2>5, <2>6
<1>18. CASE CommitPartFails BY <1>18, AtWork, PartOrder DEF CommitPartFails
<1>19. CASE CommitSelect BY <1>19 DEF CommitSelect, Goto
<1>20. CASE CommitSelectFails BY <1>20 DEF CommitSelectFails
<1>21. CASE \E p \in Partitions : RollbackPart(p)
  <2> PICK q \in Partitions : RollbackPart(q) BY <1>21
  <2>1. q \in todo /\ todo \subseteq Partitions BY DEF RollbackPart
  <2>2. parts' = [parts EXCEPT ![q] = backup[target][q]] /\ todo' = todo \ {q} BY DEF RollbackPart
  <2>3. UNCHANGED <<target, backup>> /\ pc = "apply.rollback" BY DEF RollbackPart
  <2>4. \A p \in Partitions \ todo' : parts'[p] = backup[target][p] BY <2>1, <2>2, <2>3 DEF BootSets
  <2>5. CASE todo' = {}
    <3>1. parts' = backup[target]
      <4>1. \A p \in Partitions : parts'[p] = backup[target][p] BY <2>4, <2>5
      <4>2. parts' \in [Partitions -> Slots \cup {Original, Torn}] BY <2>2, <2>1, <2>3, TypePreserved DEF BootSets, Next, EarlyBoot, Apply
      <4> QED BY <4>1, <4>2, <2>3, AtWork DEF BootSets, BootSet
    <3>2. pc' = "apply.clear" BY <2>5 DEF RollbackPart
    <3> QED BY <3>1, <3>2, <2>3
  <2>6. CASE todo' # {}
    <3>1. pc' = "apply.rollback" BY <2>3, <2>6 DEF RollbackPart
    <3> QED BY <3>1, <2>3, <2>4
  <2> QED BY <2>5, <2>6
<1>22. CASE \E p \in Partitions : RollbackPartFails(p) BY <1>22 DEF RollbackPartFails
<1>23. CASE RollbackClear BY <1>23 DEF RollbackClear, Goto, Deselected
<1>24. CASE ApplyDone BY <1>24 DEF ApplyDone, Stop
<1>25. CASE ApplyRaises BY <1>25 DEF ApplyRaises, Goto, Deselected
<1>26. CASE ApplyFailed BY <1>26 DEF ApplyFailed, Stop
<1>27. CASE AcceptResult BY <1>27 DEF AcceptResult, Goto
<1>28. CASE AcceptUnlink BY <1>28 DEF AcceptUnlink, Goto
<1>29. CASE AcceptSync BY <1>29 DEF AcceptSync, Goto
<1>30. CASE Publish BY <1>30 DEF Publish, Uname
<1>31. CASE \E t \in Slots : Prepare(t) BY <1>31 DEF Prepare
<1>32. CASE Restart BY <1>32 DEF Restart, Stop
<1>33. CASE ThroughAndroid BY <1>33 DEF ThroughAndroid, Stop, BootSet
<1>34. CASE PowerLoss BY <1>34 DEF PowerLoss, Stop
<1>35. CASE UNCHANGED vars BY <1>35 DEF vars
<1> QED
  BY <1>1, <1>2, <1>3, <1>4, <1>5, <1>6, <1>7, <1>8, <1>9, <1>10, <1>11, <1>12, <1>13, <1>14,
     <1>15, <1>16, <1>17, <1>18, <1>19, <1>20, <1>21, <1>22, <1>23, <1>24, <1>25, <1>26, <1>27,
     <1>28, <1>29, <1>30, <1>31, <1>32, <1>33, <1>34, <1>35
  DEF Next, EarlyBoot, Apply, Accept, Bricked

\* The markers stay those of the slot at work.
LEMMA MarkedPreserved ==
  ASSUME IInv, Marked, Entered, Overtaken, [Next]_vars PROVE Marked'
<1> TypeOK /\ Staged BY DEF IInv
<1> pending \in Slots \cup {None} /\ selected \in Slots \cup {None} /\ trigger \in Slots \cup {None} BY DEF TypeOK
<1> pc \in Applying \cup Restoring \cup Sessions => target \in Slots BY DEF Staged, IInv
<1> USE SlotAssumption DEF TypeOK, Marked, store, updater, slotFiles, verdict, still, Staging, Originally, Replacing, Restoring, Applying, Sessions, Systems
<1>1. CASE Boot BY <1>1 DEF Boot, Goto, Hooked, BootOriginal, Stop
<1>2. CASE HookRestore BY <1>2 DEF HookRestore, MustRestore
<1>3. CASE HookTry BY <1>3 DEF HookTry, Goto, MustRestore
<1>4. CASE HookOriginal BY <1>4 DEF HookOriginal, BootOriginal
<1>5. CASE HookEnter BY <1>5 DEF HookEnter, Uname
<1>6. CASE HookMismatch
  <2>1. pc = "hook.select" /\ selected # None /\ pc' = "restore.check" /\ target' = selected BY <1>6 DEF HookMismatch
  <2>2. UNCHANGED <<pending, selected, phase>> BY <1>6 DEF HookMismatch
  <2>3. pending = selected \/ (pending = None /\ phase[selected] = "kept") BY <2>1, AtTheHook
  <2> QED BY <2>1, <2>2, <2>3
<1>7. CASE RestoreCheck BY <1>7 DEF RestoreCheck, Stop
<1>8. CASE RestorePart BY <1>8, AtWork, PartOrder DEF RestorePart
<1>9. CASE RestorePartFails BY <1>9, AtWork, PartOrder DEF RestorePartFails, Stop
<1>10. CASE RestoreClear BY <1>10 DEF RestoreClear, ClearFirst, Stop
<1>11. CASE ApplyBegin BY <1>11 DEF ApplyBegin, Goto
<1>12. CASE ApplyClone
  <2>1. pc = "apply.clone" /\ root[target] = "created" BY <1>12 DEF ApplyClone
  <2>2. target \in Slots BY <2>1 DEF Staged
  <2>3. selected # target BY <2>1, <2>2 DEF IInv, Named, Names, Whole
  <2> QED BY <1>12, <2>3 DEF ApplyClone, Goto
<1>13. CASE ApplyPackages BY <1>13 DEF ApplyPackages, Goto
<1>14. CASE CommitBackup BY <1>14 DEF CommitBackup, Goto
<1>15. CASE CommitReady BY <1>15 DEF CommitReady, Goto
<1>16. CASE CommitPending BY <1>16 DEF CommitPending
<1>17. CASE CommitPart BY <1>17, AtWork, PartOrder DEF CommitPart
<1>18. CASE CommitPartFails BY <1>18, AtWork, PartOrder DEF CommitPartFails
<1>19. CASE CommitSelect BY <1>19 DEF CommitSelect, Goto
<1>20. CASE CommitSelectFails BY <1>20 DEF CommitSelectFails
<1>21. CASE \E p \in Partitions : RollbackPart(p) BY <1>21 DEF RollbackPart
<1>22. CASE \E p \in Partitions : RollbackPartFails(p) BY <1>22 DEF RollbackPartFails
<1>23. CASE RollbackClear BY <1>23 DEF RollbackClear, Goto, Deselected
<1>24. CASE ApplyDone BY <1>24 DEF ApplyDone, Stop
<1>25. CASE ApplyRaises BY <1>25 DEF ApplyRaises, Goto, Deselected
<1>26. CASE ApplyFailed BY <1>26 DEF ApplyFailed, Stop
<1>27. CASE AcceptResult BY <1>27 DEF AcceptResult, Goto
<1>28. CASE AcceptUnlink BY <1>28 DEF AcceptUnlink, Goto
<1>29. CASE AcceptSync BY <1>29 DEF AcceptSync, Goto
<1>30. CASE Publish BY <1>30 DEF Publish, Uname
<1>31. CASE \E t \in Slots : Prepare(t) BY <1>31 DEF Prepare
<1>32. CASE Restart BY <1>32 DEF Restart, Stop
<1>33. CASE ThroughAndroid BY <1>33 DEF ThroughAndroid, Stop, BootSet
<1>34. CASE PowerLoss BY <1>34 DEF PowerLoss, Stop
<1>35. CASE UNCHANGED vars BY <1>35 DEF vars
<1> QED
  BY <1>1, <1>2, <1>3, <1>4, <1>5, <1>6, <1>7, <1>8, <1>9, <1>10, <1>11, <1>12, <1>13, <1>14,
     <1>15, <1>16, <1>17, <1>18, <1>19, <1>20, <1>21, <1>22, <1>23, <1>24, <1>25, <1>26, <1>27,
     <1>28, <1>29, <1>30, <1>31, <1>32, <1>33, <1>34, <1>35
  DEF Next, EarlyBoot, Apply, Accept, Bricked

\* A session is that of the selected slot.
LEMMA EnteredPreserved ==
  ASSUME IInv, Entered, Phased, Untried, Overtaken, [Next]_vars PROVE Entered'
<1> TypeOK /\ Staged BY DEF IInv
<1> pending \in Slots \cup {None} /\ selected \in Slots \cup {None} /\ trigger \in Slots \cup {None} BY DEF TypeOK
<1> pc \in Applying \cup Restoring \cup Sessions => target \in Slots BY DEF Staged, IInv
<1> USE SlotAssumption DEF TypeOK, Entered, store, updater, slotFiles, verdict, still, Staging, Originally, Replacing, Restoring, Applying, Sessions, Systems
<1>1. CASE Boot BY <1>1 DEF Boot, Goto, Hooked, BootOriginal, Stop
<1>2. CASE HookRestore BY <1>2 DEF HookRestore, MustRestore
<1>3. CASE HookTry
  <2>1. pc = "hook" /\ pc' = "hook.select" /\ UNCHANGED <<pending, selected, parts, phase, late, oldHook>> BY <1>3 DEF HookTry, Goto
  <2>2. ASSUME pending # None
        PROVE  pending = selected /\ tried'[pending] /\ phase[pending] = "new" /\ (pending \notin late => parts = BootSet(pending))
    <3>1. pending = selected /\ ~tried[pending] /\ pending \in Slots BY <1>3, <2>2 DEF HookTry, MustRestore
    <3>2. tried'[pending] BY <1>3, <2>2, <3>1 DEF HookTry
    <3>3. Follows(pending) BY <3>1 DEF Phased
    <3>4. phase[pending] = "new" BY <3>1, <3>3 DEF Follows
    <3> QED BY <3>1, <3>2, <3>4, <2>2 DEF Untried
  <2> QED BY <2>1, <2>2
<1>4. CASE HookOriginal BY <1>4 DEF HookOriginal, BootOriginal
<1>5. CASE HookEnter
  <2>1. pc = "hook.select" /\ selected # None /\ pc' = "slot" /\ target' = selected BY <1>5 DEF HookEnter
  <2>2. UNCHANGED <<pending, selected, parts, tried, oldHook>> BY <1>5 DEF HookEnter
  <2>3. selected \in Slots /\ pending \in {None, selected} /\ (pending = None => phase[selected] = "kept")
        /\ (pending # None => tried[selected]) BY <2>1, AtTheHook, SlotAssumption
  <2>4. phase'[selected] \in {"trial", "kept"} BY <1>5, <2>3 DEF HookEnter
  <2>5. tried[selected] BY <2>3 DEF Phased, Follows
  <2> QED BY <2>1, <2>2, <2>3, <2>4, <2>5
<1>6. CASE HookMismatch BY <1>6 DEF HookMismatch, Uname
<1>7. CASE RestoreCheck BY <1>7 DEF RestoreCheck, Stop
<1>8. CASE RestorePart BY <1>8, AtWork, PartOrder DEF RestorePart
<1>9. CASE RestorePartFails BY <1>9, AtWork, PartOrder DEF RestorePartFails, Stop
<1>10. CASE RestoreClear BY <1>10 DEF RestoreClear, ClearFirst, Stop
<1>11. CASE ApplyBegin BY <1>11 DEF ApplyBegin, Goto
<1>12. CASE ApplyClone BY <1>12 DEF ApplyClone, Goto
<1>13. CASE ApplyPackages BY <1>13 DEF ApplyPackages, Goto
<1>14. CASE CommitBackup BY <1>14 DEF CommitBackup, Goto
<1>15. CASE CommitReady BY <1>15 DEF CommitReady, Goto
<1>16. CASE CommitPending BY <1>16 DEF CommitPending
<1>17. CASE CommitPart BY <1>17, AtWork, PartOrder DEF CommitPart
<1>18. CASE CommitPartFails BY <1>18, AtWork, PartOrder DEF CommitPartFails
<1>19. CASE CommitSelect BY <1>19 DEF CommitSelect, Goto
<1>20. CASE CommitSelectFails BY <1>20 DEF CommitSelectFails
<1>21. CASE \E p \in Partitions : RollbackPart(p) BY <1>21 DEF RollbackPart
<1>22. CASE \E p \in Partitions : RollbackPartFails(p) BY <1>22 DEF RollbackPartFails
<1>23. CASE RollbackClear BY <1>23 DEF RollbackClear, Goto, Deselected
<1>24. CASE ApplyDone BY <1>24 DEF ApplyDone, Stop
<1>25. CASE ApplyRaises BY <1>25 DEF ApplyRaises, Goto, Deselected
<1>26. CASE ApplyFailed BY <1>26 DEF ApplyFailed, Stop
<1>27. CASE AcceptResult BY <1>27 DEF AcceptResult, Goto
<1>28. CASE AcceptUnlink BY <1>28 DEF AcceptUnlink, Goto
<1>29. CASE AcceptSync BY <1>29 DEF AcceptSync, Goto
<1>30. CASE Publish BY <1>30 DEF Publish, Uname
<1>31. CASE \E t \in Slots : Prepare(t) BY <1>31 DEF Prepare
<1>32. CASE Restart BY <1>32 DEF Restart, Stop
<1>33. CASE ThroughAndroid BY <1>33 DEF ThroughAndroid, Stop, BootSet
<1>34. CASE PowerLoss BY <1>34 DEF PowerLoss, Stop
<1>35. CASE UNCHANGED vars BY <1>35 DEF vars
<1> QED
  BY <1>1, <1>2, <1>3, <1>4, <1>5, <1>6, <1>7, <1>8, <1>9, <1>10, <1>11, <1>12, <1>13, <1>14,
     <1>15, <1>16, <1>17, <1>18, <1>19, <1>20, <1>21, <1>22, <1>23, <1>24, <1>25, <1>26, <1>27,
     <1>28, <1>29, <1>30, <1>31, <1>32, <1>33, <1>34, <1>35
  DEF Next, EarlyBoot, Apply, Accept, Bricked

\* A phase other than new is that of a slot on disk.
LEMMA PhasedPreserved ==
  ASSUME IInv, Marked, Entered, Overtaken, Phased, [Next]_vars PROVE Phased'
<1> TypeOK /\ Staged BY DEF IInv
<1> pending \in Slots \cup {None} /\ selected \in Slots \cup {None} /\ trigger \in Slots \cup {None} BY DEF TypeOK
<1> pc \in Applying \cup Restoring \cup Sessions => target \in Slots BY DEF Staged, IInv
<1> SUFFICES ASSUME NEW s \in Slots PROVE Follows(s)' BY DEF Phased
<1> Whole(s) => Whole(s)' BY WholeIsStable DEF IInv
<1> Follows(s) /\ (pending = s \/ selected = s => Whole(s)) BY DEF Phased, IInv, Named, Names
<1> USE SlotAssumption DEF TypeOK, Follows, store, updater, slotFiles, verdict, still, Staging, Originally, Replacing, Restoring, Applying, Sessions, Systems
<1>1. CASE Boot BY <1>1 DEF Boot, Goto, Hooked, BootOriginal, Stop
<1>2. CASE HookRestore BY <1>2 DEF HookRestore, MustRestore
<1>3. CASE HookTry BY <1>3 DEF HookTry, Goto, MustRestore
<1>4. CASE HookOriginal BY <1>4 DEF HookOriginal, BootOriginal
<1>5. CASE HookEnter
  <2>1. pc = "hook.select" /\ selected # None /\ selected \in Slots BY <1>5 DEF HookEnter
  <2>2. phase' = [phase EXCEPT ![selected] = IF @ = "kept" THEN @ ELSE "trial"] /\ UNCHANGED <<pending, selected, tried>> /\ pc' = "slot"
    BY <1>5 DEF HookEnter
  <2>3. (pending = None /\ phase[selected] = "kept") \/ (pending = selected /\ phase[selected] = "new" /\ tried[selected])
    BY <2>1, AtTheHook
  <2>4. CASE s = selected BY <2>1, <2>2, <2>3, <2>4
  <2>5. CASE s # selected BY <2>1, <2>2, <2>5
  <2> QED BY <2>4, <2>5
<1>6. CASE HookMismatch BY <1>6 DEF HookMismatch, Uname
<1>7. CASE RestoreCheck BY <1>7 DEF RestoreCheck, Stop
<1>8. CASE RestorePart BY <1>8, AtWork, PartOrder DEF RestorePart
<1>9. CASE RestorePartFails BY <1>9, AtWork, PartOrder DEF RestorePartFails, Stop
<1>10. CASE RestoreClear
  <2>1. pc \in Restoring /\ target \in Slots BY <1>10 DEF RestoreClear
  <2>2. Whole(target) BY <2>1 DEF Marked, IInv, Named, Names
  <2> QED BY <1>10, <2>1, <2>2 DEF RestoreClear, ClearFirst, Stop
<1>11. CASE ApplyBegin BY <1>11 DEF ApplyBegin, Goto
<1>12. CASE ApplyClone
  <2>1. ASSUME target = s PROVE phase[s] = "new" BY <1>12, <2>1 DEF ApplyClone, Whole
  <2> QED BY <1>12, <2>1 DEF ApplyClone, Goto
<1>13. CASE ApplyPackages BY <1>13 DEF ApplyPackages, Goto
<1>14. CASE CommitBackup BY <1>14 DEF CommitBackup, Goto
<1>15. CASE CommitReady BY <1>15 DEF CommitReady, Goto
<1>16. CASE CommitPending BY <1>16 DEF CommitPending
<1>17. CASE CommitPart BY <1>17, AtWork, PartOrder DEF CommitPart
<1>18. CASE CommitPartFails BY <1>18, AtWork, PartOrder DEF CommitPartFails
<1>19. CASE CommitSelect BY <1>19 DEF CommitSelect, Goto
<1>20. CASE CommitSelectFails BY <1>20 DEF CommitSelectFails
<1>21. CASE \E p \in Partitions : RollbackPart(p) BY <1>21 DEF RollbackPart
<1>22. CASE \E p \in Partitions : RollbackPartFails(p) BY <1>22 DEF RollbackPartFails
<1>23. CASE RollbackClear BY <1>23 DEF RollbackClear, Goto, Deselected
<1>24. CASE ApplyDone BY <1>24 DEF ApplyDone, Stop
<1>25. CASE ApplyRaises BY <1>25 DEF ApplyRaises, Goto, Deselected
<1>26. CASE ApplyFailed BY <1>26 DEF ApplyFailed, Stop
<1>27. CASE AcceptResult BY <1>27 DEF AcceptResult, Goto
<1>28. CASE AcceptUnlink
  <2>1. pc \in Sessions /\ target \in Slots /\ phase[target] \in {"trial", "kept"} /\ pending = target BY <1>28 DEF AcceptUnlink, Entered
  <2> QED BY <1>28, <2>1 DEF AcceptUnlink, Goto
<1>29. CASE AcceptSync BY <1>29 DEF AcceptSync, Goto
<1>30. CASE Publish BY <1>30 DEF Publish, Uname
<1>31. CASE \E t \in Slots : Prepare(t) BY <1>31 DEF Prepare
<1>32. CASE Restart BY <1>32 DEF Restart, Stop
<1>33. CASE ThroughAndroid BY <1>33 DEF ThroughAndroid, Stop, BootSet
<1>34. CASE PowerLoss
  <2>1. pc' = "off" /\ UNCHANGED tried BY <1>34 DEF PowerLoss, Stop
  <2>2. CASE pc = "restore.clear"
    <3>1. target \in Slots BY <2>2
    <3>2. Whole(target) BY <2>2, <3>1 DEF Marked, IInv, Named, Names
    <3>3. \E n \in 0..5 : ClearFirst(n) BY <1>34, <2>2 DEF PowerLoss, LoseClearing
    <3> QED BY <2>1, <3>1, <3>2, <3>3 DEF ClearFirst
  <2>3. CASE pc = "apply.clear"
    <3>1. phase' = phase /\ pending' \in {pending, None} /\ selected' \in {selected, None}
      BY <1>34, <2>3 DEF PowerLoss, LoseClearing, Deselected
    <3> QED BY <2>1, <3>1
  <2>4. CASE pc \in {"accept.unlink", "accept.sync"}
    <3>1. target \in Slots /\ tried[target] /\ phase[target] \in {"trial", "kept"} /\ selected = target /\ pending \in {None, target}
      BY <2>4 DEF Entered
    <3>2. pending' \in {pending, target} /\ UNCHANGED selected
          /\ phase' = [phase EXCEPT ![target] = IF pending' = None THEN @ ELSE "trial"]
      BY <1>34, <2>4 DEF PowerLoss, LoseAcceptance
    <3> QED BY <2>1, <3>1, <3>2
  <2>5. CASE pc \notin {"restore.clear", "apply.clear", "accept.unlink", "accept.sync"}
    <3>1. UNCHANGED <<pending, selected, phase>> BY <1>34, <2>5 DEF PowerLoss
    <3> QED BY <2>1, <3>1
  <2> QED BY <2>2, <2>3, <2>4, <2>5
<1>35. CASE UNCHANGED vars BY <1>35 DEF vars
<1> QED
  BY <1>1, <1>2, <1>3, <1>4, <1>5, <1>6, <1>7, <1>8, <1>9, <1>10, <1>11, <1>12, <1>13, <1>14,
     <1>15, <1>16, <1>17, <1>18, <1>19, <1>20, <1>21, <1>22, <1>23, <1>24, <1>25, <1>26, <1>27,
     <1>28, <1>29, <1>30, <1>31, <1>32, <1>33, <1>34, <1>35
  DEF Next, EarlyBoot, Apply, Accept, Bricked

\* A trial that was committed waits for its start.
LEMMA UntriedPreserved ==
  ASSUME IInv, Written, Marked, Entered, Untried, [Next]_vars PROVE Untried'
<1> TypeOK /\ Staged BY DEF IInv
<1> pending \in Slots \cup {None} /\ selected \in Slots \cup {None} /\ trigger \in Slots \cup {None} BY DEF TypeOK
<1> pc \in Applying \cup Restoring \cup Sessions => target \in Slots BY DEF Staged, IInv
<1> USE SlotAssumption DEF TypeOK, Untried, store, updater, slotFiles, verdict, still, Staging, Originally, Replacing, Restoring, Applying, Sessions, Systems
<1>1. CASE Boot
  <2>1. pc = "off" /\ UNCHANGED <<parts, pending, selected, tried, late>> BY <1>1 DEF Boot, Goto, BootOriginal, Stop
  <2> SUFFICES ASSUME pending # None, pending = selected, ~tried[pending], pending \notin late
      PROVE  parts = BootSet(pending) /\ pc' = "hook" BY <2>1
  <2>2. parts = BootSet(pending) /\ pending \in Slots OBVIOUS
  <2>3. \A p \in Partitions : parts[p] = pending BY <2>2 DEF BootSet
  <2>4. "init_boot" \in Partitions BY DEF Partitions
  <2> QED BY <1>1, <2>2, <2>3, <2>4 DEF Boot, Hooked, Goto
<1>2. CASE HookRestore BY <1>2 DEF HookRestore, MustRestore
<1>3. CASE HookTry BY <1>3 DEF HookTry, Goto, MustRestore
<1>4. CASE HookOriginal BY <1>4 DEF HookOriginal, BootOriginal
<1>5. CASE HookEnter BY <1>5 DEF HookEnter, Uname
<1>6. CASE HookMismatch BY <1>6 DEF HookMismatch, Uname
<1>7. CASE RestoreCheck BY <1>7 DEF RestoreCheck, Stop
<1>8. CASE RestorePart BY <1>8, AtWork, PartOrder DEF RestorePart
<1>9. CASE RestorePartFails BY <1>9, AtWork, PartOrder DEF RestorePartFails, Stop
<1>10. CASE RestoreClear BY <1>10 DEF RestoreClear, ClearFirst, Stop
<1>11. CASE ApplyBegin BY <1>11 DEF ApplyBegin, Goto
<1>12. CASE ApplyClone BY <1>12 DEF ApplyClone, Goto
<1>13. CASE ApplyPackages BY <1>13 DEF ApplyPackages, Goto
<1>14. CASE CommitBackup BY <1>14 DEF CommitBackup, Goto
<1>15. CASE CommitReady BY <1>15 DEF CommitReady, Goto
<1>16. CASE CommitPending
  <2>1. selected # target /\ pending' = target /\ UNCHANGED selected BY <1>16 DEF CommitPending, Marked
  <2> QED BY <2>1
<1>17. CASE CommitPart BY <1>17, AtWork, PartOrder DEF CommitPart
<1>18. CASE CommitPartFails BY <1>18, AtWork, PartOrder DEF CommitPartFails
<1>19. CASE CommitSelect
  <2>1. UNCHANGED <<pending, tried, late, parts, target>> /\ selected' = target /\ pc' = "apply.done" BY <1>19 DEF CommitSelect, Goto
  <2>2. pending = target /\ parts = BootSet(target) BY <1>19 DEF CommitSelect, Marked, Written
  <2> QED BY <2>1, <2>2
<1>20. CASE CommitSelectFails BY <1>20 DEF CommitSelectFails
<1>21. CASE \E p \in Partitions : RollbackPart(p) BY <1>21 DEF RollbackPart
<1>22. CASE \E p \in Partitions : RollbackPartFails(p) BY <1>22 DEF RollbackPartFails
<1>23. CASE RollbackClear BY <1>23 DEF RollbackClear, Goto, Deselected
<1>24. CASE ApplyDone BY <1>24 DEF ApplyDone, Stop
<1>25. CASE ApplyRaises
  <2>1. UNCHANGED <<tried, late, parts>> /\ pc' = "apply.failed" BY <1>25 DEF ApplyRaises, Goto
  <2>2. CASE pc = "apply.pending"
    <3>1. selected' = selected /\ pending' \in {pending, target} /\ selected # target BY <1>25, <2>2 DEF ApplyRaises, Marked
    <3>2. CASE pending' = target BY <3>1, <3>2
    <3>3. CASE pending' = pending BY <2>1, <2>2, <3>1, <3>3
    <3> QED BY <3>1, <3>2, <3>3
  <2>3. CASE pc = "apply.clear"
    <3>1. pending' = pending /\ pending = target /\ (selected = target => target \in late)
          /\ selected' \in {selected, None} BY <1>25, <2>3 DEF ApplyRaises, Marked, Deselected
    <3> QED BY <2>1, <3>1
  <2>4. CASE pc \notin {"apply.pending", "apply.clear"}
    <3>1. UNCHANGED <<pending, selected>> BY <1>25, <2>4 DEF ApplyRaises
    <3> QED BY <2>1, <3>1
  <2> QED BY <2>2, <2>3, <2>4
<1>26. CASE ApplyFailed BY <1>26 DEF ApplyFailed, Stop
<1>27. CASE AcceptResult BY <1>27 DEF AcceptResult, Goto
<1>28. CASE AcceptUnlink BY <1>28 DEF AcceptUnlink, Goto
<1>29. CASE AcceptSync BY <1>29 DEF AcceptSync, Goto
<1>30. CASE Publish BY <1>30 DEF Publish, Uname
<1>31. CASE \E t \in Slots : Prepare(t) BY <1>31 DEF Prepare
<1>32. CASE Restart BY <1>32 DEF Restart, Stop
<1>33. CASE ThroughAndroid BY <1>33 DEF ThroughAndroid, Stop, BootSet
<1>34. CASE PowerLoss
  <2>1. pc' = "off" /\ UNCHANGED <<tried, late>> BY <1>34 DEF PowerLoss, Stop
  <2>2. CASE pc = "restore.clear"
    <3>1. PICK n \in 0..5 : ClearFirst(n) BY <1>34, <2>2 DEF PowerLoss, LoseClearing
    <3>2. (UNCHANGED <<pending, selected>>) \/ selected' = None BY <3>1 DEF ClearFirst
    <3> QED BY <2>1, <2>2, <3>2
  <2>3. CASE pc = "apply.clear"
    <3>1. pending' \in {pending, None} /\ (selected' = selected \/ selected' = Deselected)
      BY <1>34, <2>3 DEF PowerLoss, LoseClearing
    <3>2. pending = target /\ (selected = target => target \in late) BY <2>3 DEF Marked
    <3> QED BY <2>1, <3>1, <3>2 DEF Deselected
  <2>4. CASE pc \in {"accept.unlink", "accept.sync"}
    <3>1. tried[target] /\ selected = target BY <2>4 DEF Entered
    <3>2. UNCHANGED selected BY <1>34, <2>4 DEF PowerLoss, LoseAcceptance
    <3> QED BY <2>1, <3>1, <3>2
  <2>5. CASE pc \notin {"restore.clear", "apply.clear", "accept.unlink", "accept.sync"}
    <3>1. UNCHANGED <<pending, selected>> BY <1>34, <2>5 DEF PowerLoss
    <3>2. pc \in {"apply.done", "apply.failed", "off", "hook", "emergency"} => UNCHANGED parts BY <1>34 DEF PowerLoss, CutWrite
    <3> QED BY <2>1, <3>1, <3>2
  <2> QED BY <2>2, <2>3, <2>4, <2>5
<1>35. CASE UNCHANGED vars BY <1>35 DEF vars
<1> QED
  BY <1>1, <1>2, <1>3, <1>4, <1>5, <1>6, <1>7, <1>8, <1>9, <1>10, <1>11, <1>12, <1>13, <1>14,
     <1>15, <1>16, <1>17, <1>18, <1>19, <1>20, <1>21, <1>22, <1>23, <1>24, <1>25, <1>26, <1>27,
     <1>28, <1>29, <1>30, <1>31, <1>32, <1>33, <1>34, <1>35
  DEF Next, EarlyBoot, Apply, Accept, Bricked

\* An overtaken selector is not seen by a hook.
LEMMA OvertakenPreserved ==
  ASSUME IInv, Written, Marked, Entered, Overtaken, Published, [Next]_vars PROVE Overtaken'
<1> TypeOK /\ Staged BY DEF IInv
<1> pending \in Slots \cup {None} /\ selected \in Slots \cup {None} /\ trigger \in Slots \cup {None} BY DEF TypeOK
<1> pc \in Applying \cup Restoring \cup Sessions => target \in Slots BY DEF Staged, IInv
<1> USE SlotAssumption DEF TypeOK, Overtaken, store, updater, slotFiles, verdict, still, Staging, Originally, Replacing, Restoring, Applying, Sessions, Systems
<1>1. CASE Boot
  <2>1. pc = "off" /\ UNCHANGED <<parts, pending, selected, phase, oldHook>> BY <1>1 DEF Boot, Goto, BootOriginal, Stop
  <2>2. CASE pc' \in {"bricked", "hook"} BY <2>1, <2>2
  <2>3. CASE pc' \notin {"bricked", "hook"}
    <3>1. ~Hooked(parts["init_boot"]) /\ parts["init_boot"] # Torn /\ pc' \in {"original", "apply.start"}
      BY <1>1, <2>3 DEF Boot, Goto, Stop, BootOriginal, Partitions
    <3>2. parts["init_boot"] \in Slots \cup {Original} BY <3>1 DEF BootSets, Partitions
    <3> QED BY <2>1, <3>1, <3>2 DEF Hooked
  <2> QED BY <2>2, <2>3
<1>2. CASE HookRestore BY <1>2 DEF HookRestore, MustRestore
<1>3. CASE HookTry BY <1>3 DEF HookTry, Goto, MustRestore
<1>4. CASE HookOriginal BY <1>4 DEF HookOriginal, BootOriginal
<1>5. CASE HookEnter BY <1>5 DEF HookEnter, Uname
<1>6. CASE HookMismatch BY <1>6 DEF HookMismatch, Uname
<1>7. CASE RestoreCheck BY <1>7 DEF RestoreCheck, Stop
<1>8. CASE RestorePart
  <2>1. UNCHANGED <<pending, selected, phase, oldHook>> /\ pc = "restore.write" /\ pc' \notin Originally \cup Replacing BY <1>8 DEF RestorePart, Stop
  <2>2. pending # None \/ phase[selected] = "kept" BY <2>1, SlotAssumption DEF Marked
  <2> QED BY <2>1, <2>2
<1>9. CASE RestorePartFails
  <2>1. UNCHANGED <<pending, selected, phase, oldHook>> /\ pc = "restore.write" /\ pc' \notin Originally \cup Replacing BY <1>9 DEF RestorePartFails, Stop
  <2>2. pending # None \/ phase[selected] = "kept" BY <2>1, SlotAssumption DEF Marked
  <2> QED BY <2>1, <2>2
<1>10. CASE RestoreClear BY <1>10 DEF RestoreClear, ClearFirst, Stop
<1>11. CASE ApplyBegin BY <1>11 DEF ApplyBegin, Goto
<1>12. CASE ApplyClone BY <1>12 DEF ApplyClone, Goto
<1>13. CASE ApplyPackages BY <1>13 DEF ApplyPackages, Goto
<1>14. CASE CommitBackup
  <2>1. pc = "apply.backup" /\ target \in Slots /\ backup'[target] = parts /\ UNCHANGED <<target, parts, pending, selected, phase, oldHook>>
    BY <1>14 DEF CommitBackup, Goto
  <2>2. pc' = "apply.flush" BY <1>14 DEF CommitBackup, Goto
  <2> QED BY <2>1, <2>2
<1>15. CASE CommitReady BY <1>15 DEF CommitReady, Goto
<1>16. CASE CommitPending
  <2>1. target \in Slots /\ pending' = target /\ pc \in Replacing BY <1>16 DEF CommitPending, Marked
  <2>2. UNCHANGED <<target, backup, oldHook>> /\ selected' \in {selected, target} /\ pc' \notin Originally BY <1>16 DEF CommitPending, Goto
  <2> QED BY <2>1, <2>2, SlotAssumption
<1>17. CASE CommitPart
  <2>1. target \in Slots /\ pending' = target /\ pc \in Replacing BY <1>17 DEF CommitPart, Marked
  <2>2. UNCHANGED <<target, backup, oldHook>> /\ selected' \in {selected, target} /\ pc' \notin Originally BY <1>17 DEF CommitPart, Goto
  <2> QED BY <2>1, <2>2, SlotAssumption
<1>18. CASE CommitPartFails
  <2>1. target \in Slots /\ pending' = target /\ pc \in Replacing BY <1>18 DEF CommitPartFails, Marked
  <2>2. UNCHANGED <<target, backup, oldHook>> /\ selected' \in {selected, target} /\ pc' \notin Originally BY <1>18 DEF CommitPartFails, Goto
  <2> QED BY <2>1, <2>2, SlotAssumption
<1>19. CASE CommitSelect
  <2>1. target \in Slots /\ pending' = target /\ pc \in Replacing BY <1>19 DEF CommitSelect, Marked
  <2>2. UNCHANGED <<target, backup, oldHook>> /\ selected' \in {selected, target} /\ pc' \notin Originally BY <1>19 DEF CommitSelect, Goto
  <2> QED BY <2>1, <2>2, SlotAssumption
<1>20. CASE CommitSelectFails
  <2>1. target \in Slots /\ pending' = target /\ pc \in Replacing BY <1>20 DEF CommitSelectFails, Marked
  <2>2. UNCHANGED <<target, backup, oldHook>> /\ selected' \in {selected, target} /\ pc' \notin Originally BY <1>20 DEF CommitSelectFails, Goto
  <2> QED BY <2>1, <2>2, SlotAssumption
<1>21. CASE \E p \in Partitions : RollbackPart(p)
  <2>1. target \in Slots /\ pending' = target /\ pc \in Replacing BY <1>21 DEF RollbackPart, Marked
  <2>2. UNCHANGED <<target, backup, oldHook>> /\ selected' \in {selected, target} /\ pc' \notin Originally BY <1>21 DEF RollbackPart, Goto
  <2> QED BY <2>1, <2>2, SlotAssumption
<1>22. CASE \E p \in Partitions : RollbackPartFails(p)
  <2>1. target \in Slots /\ pending' = target /\ pc \in Replacing BY <1>22 DEF RollbackPartFails, Marked
  <2>2. UNCHANGED <<target, backup, oldHook>> /\ selected' \in {selected, target} /\ pc' \notin Originally BY <1>22 DEF RollbackPartFails, Goto
  <2> QED BY <2>1, <2>2, SlotAssumption
<1>23. CASE RollbackClear
  <2>1. pc = "apply.clear" /\ pc' = "apply.failed" /\ selected' = Deselected /\ UNCHANGED <<parts, phase, oldHook>> BY <1>23 DEF RollbackClear, Goto
  <2>2. parts = backup[target] BY <2>1 DEF Written
  <2> QED BY <2>1, <2>2 DEF Deselected
<1>24. CASE ApplyDone BY <1>24 DEF ApplyDone, Stop
<1>25. CASE ApplyRaises
  <2>1. UNCHANGED <<parts, phase, oldHook>> /\ pc' = "apply.failed" /\ target \in Slots BY <1>25 DEF ApplyRaises, Goto
  <2>2. pending' = None => pending = None BY <1>25, <2>1, SlotAssumption DEF ApplyRaises
  <2>3. pending' = None => UNCHANGED selected BY <1>25, <2>1, <2>2, SlotAssumption DEF ApplyRaises, Marked
  <2> QED BY <2>1, <2>2, <2>3
<1>26. CASE ApplyFailed BY <1>26 DEF ApplyFailed, Stop
<1>27. CASE AcceptResult BY <1>27 DEF AcceptResult, Goto
<1>28. CASE AcceptUnlink
  <2>1. target \in Slots /\ selected = target /\ UNCHANGED <<parts, selected, oldHook>> /\ pc' = "accept.sync" BY <1>28 DEF AcceptUnlink, Goto, Entered
  <2>2. phase'[target] = "kept" BY <1>28, <2>1 DEF AcceptUnlink
  <2> QED BY <2>1, <2>2
<1>29. CASE AcceptSync BY <1>29 DEF AcceptSync, Goto
<1>30. CASE Publish BY <1>30 DEF Publish, Uname
<1>31. CASE \E t \in Slots : Prepare(t) BY <1>31 DEF Prepare
<1>32. CASE Restart BY <1>32 DEF Restart, Stop
<1>33. CASE ThroughAndroid
  <2>1. pc' = "off" /\ UNCHANGED <<pending, selected, phase, oldHook>> /\ parts' = BootSet(saved) /\ pc \in {"slot", "original"} BY <1>33 DEF ThroughAndroid, Stop
  <2>2. CASE pc = "slot"
    <3>1. oldHook \/ parts["init_boot"] \in Slots BY <2>2 DEF Entered
    <3> QED BY <2>1, <3>1, SlotAssumption
  <2>3. CASE pc = "original"
    <3>1. saved = Original BY <2>3 DEF Published
    <3>2. parts'["init_boot"] = Original BY <2>1, <3>1 DEF BootSet, Partitions
    <3> QED BY <2>1, <3>2
  <2> QED BY <2>1, <2>2, <2>3
<1>34. CASE PowerLoss
  <2>1. pc' = "off" /\ UNCHANGED oldHook BY <1>34 DEF PowerLoss, Stop
  <2> SUFFICES ASSUME pending' = None, selected' # None, phase'[selected'] # "kept"
      PROVE  ~oldHook /\ parts'["init_boot"] = Original BY <2>1
  <2>2. CASE pc = "restore.clear"
    <3>1. UNCHANGED parts BY <1>34, <2>2 DEF PowerLoss, CutWrite
    <3>2. PICK n \in 0..5 : ClearFirst(n) BY <1>34, <2>2 DEF PowerLoss, LoseClearing
    <3>3. UNCHANGED <<pending, selected, phase>> BY <3>2 DEF ClearFirst
    <3> QED BY <3>1, <3>3
  <2>3. CASE pc = "apply.clear"
    <3>1. UNCHANGED parts /\ parts = backup[target] BY <1>34, <2>3 DEF PowerLoss, CutWrite, Written
    <3>2. pending # None BY <2>3, SlotAssumption DEF Marked
    <3>3. selected' = Deselected BY <1>34, <2>3, <3>2 DEF PowerLoss, LoseClearing
    <3> QED BY <2>3, <3>1, <3>3 DEF Deselected
  <2>4. CASE pc \in {"accept.unlink", "accept.sync"}
    <3>1. UNCHANGED parts BY <1>34, <2>4 DEF PowerLoss, CutWrite
    <3>2. target \in Slots BY <2>4
    <3>3. UNCHANGED <<selected, pending>> /\ phase' = [phase EXCEPT ![target] = @]
      BY <1>34, <2>4, <3>2, SlotAssumption DEF PowerLoss, LoseAcceptance
    <3> QED BY <3>1, <3>2, <3>3
  <2>5. CASE pc \notin {"restore.clear", "apply.clear", "accept.unlink", "accept.sync"}
    <3>1. UNCHANGED <<pending, selected, phase>> BY <1>34, <2>5 DEF PowerLoss
    <3>2. pc \notin {"apply.write", "apply.rollback"} BY <3>1, SlotAssumption DEF Marked
    <3>3. pc # "restore.write" BY <3>1 DEF Marked
    <3>4. UNCHANGED parts BY <1>34, <3>2, <3>3 DEF PowerLoss, CutWrite
    <3> QED BY <3>1, <3>4
  <2> QED BY <2>2, <2>3, <2>4, <2>5
<1>35. CASE UNCHANGED vars BY <1>35 DEF vars
<1> QED
  BY <1>1, <1>2, <1>3, <1>4, <1>5, <1>6, <1>7, <1>8, <1>9, <1>10, <1>11, <1>12, <1>13, <1>14,
     <1>15, <1>16, <1>17, <1>18, <1>19, <1>20, <1>21, <1>22, <1>23, <1>24, <1>25, <1>26, <1>27,
     <1>28, <1>29, <1>30, <1>31, <1>32, <1>33, <1>34, <1>35
  DEF Next, EarlyBoot, Apply, Accept, Bricked

\* What was published stays selected.
LEMMA PublishedPreserved ==
  ASSUME IInv, Entered, Published, [Next]_vars PROVE Published'
<1> TypeOK /\ Staged BY DEF IInv
<1> pending \in Slots \cup {None} /\ selected \in Slots \cup {None} /\ trigger \in Slots \cup {None} BY DEF TypeOK
<1> pc \in Applying \cup Restoring \cup Sessions => target \in Slots BY DEF Staged, IInv
<1> USE SlotAssumption DEF TypeOK, Published, store, updater, slotFiles, verdict, still, Staging, Originally, Replacing, Restoring, Applying, Sessions, Systems
<1>1. CASE Boot
  <2>1. pc = "off" /\ UNCHANGED <<parts, pending, selected, saved, oldHook>> BY <1>1 DEF Boot, Goto, BootOriginal, Stop
  <2> SUFFICES ASSUME saved \in Slots PROVE pc' \in {"bricked", "hook"} BY <2>1
  <2>2. "init_boot" \in Partitions /\ (oldHook \/ parts["init_boot"] \in Slots) BY DEF Partitions
  <2>3. parts["init_boot"] \in Slots \cup {Original, Torn} BY <2>2 DEF BootSets
  <2>4. parts["init_boot"] # Torn => Hooked(parts["init_boot"]) BY <2>2, <2>3 DEF Hooked
  <2> QED BY <1>1, <2>2, <2>4 DEF Boot, Goto, Stop
<1>2. CASE HookRestore BY <1>2 DEF HookRestore, MustRestore
<1>3. CASE HookTry BY <1>3 DEF HookTry, Goto, MustRestore
<1>4. CASE HookOriginal BY <1>4 DEF HookOriginal, BootOriginal
<1>5. CASE HookEnter BY <1>5 DEF HookEnter, Uname
<1>6. CASE HookMismatch BY <1>6 DEF HookMismatch, Uname
<1>7. CASE RestoreCheck BY <1>7 DEF RestoreCheck, Stop
<1>8. CASE RestorePart BY <1>8, AtWork, PartOrder DEF RestorePart
<1>9. CASE RestorePartFails BY <1>9, AtWork, PartOrder DEF RestorePartFails, Stop
<1>10. CASE RestoreClear BY <1>10 DEF RestoreClear, ClearFirst, Stop
<1>11. CASE ApplyBegin BY <1>11 DEF ApplyBegin, Goto
<1>12. CASE ApplyClone BY <1>12 DEF ApplyClone, Goto
<1>13. CASE ApplyPackages BY <1>13 DEF ApplyPackages, Goto
<1>14. CASE CommitBackup BY <1>14 DEF CommitBackup, Goto
<1>15. CASE CommitReady BY <1>15 DEF CommitReady, Goto
<1>16. CASE CommitPending BY <1>16 DEF CommitPending
<1>17. CASE CommitPart BY <1>17, AtWork, PartOrder DEF CommitPart
<1>18. CASE CommitPartFails BY <1>18, AtWork, PartOrder DEF CommitPartFails
<1>19. CASE CommitSelect BY <1>19 DEF CommitSelect, Goto
<1>20. CASE CommitSelectFails BY <1>20 DEF CommitSelectFails
<1>21. CASE \E p \in Partitions : RollbackPart(p) BY <1>21 DEF RollbackPart
<1>22. CASE \E p \in Partitions : RollbackPartFails(p) BY <1>22 DEF RollbackPartFails
<1>23. CASE RollbackClear BY <1>23 DEF RollbackClear, Goto, Deselected
<1>24. CASE ApplyDone BY <1>24 DEF ApplyDone, Stop
<1>25. CASE ApplyRaises BY <1>25 DEF ApplyRaises, Goto, Deselected
<1>26. CASE ApplyFailed BY <1>26 DEF ApplyFailed, Stop
<1>27. CASE AcceptResult BY <1>27 DEF AcceptResult, Goto
<1>28. CASE AcceptUnlink BY <1>28 DEF AcceptUnlink, Goto
<1>29. CASE AcceptSync BY <1>29 DEF AcceptSync, Goto
<1>30. CASE Publish
  <2>1. pc = "slot" /\ selected = target /\ pending = None /\ Release[parts["boot"]] = Release[target] /\ saved' = target BY <1>30 DEF Publish, Uname
  <2>2. UNCHANGED <<pc, selected, pending, parts, oldHook>> BY <1>30 DEF Publish
  <2>3. oldHook \/ parts["init_boot"] \in Slots BY <2>1 DEF Entered
  <2> QED BY <2>1, <2>2, <2>3
<1>31. CASE \E t \in Slots : Prepare(t) BY <1>31 DEF Prepare
<1>32. CASE Restart BY <1>32 DEF Restart, Stop
<1>33. CASE ThroughAndroid
  <2>1. pc' = "off" /\ UNCHANGED <<pending, selected, saved, oldHook>> /\ parts' = BootSet(saved) BY <1>33 DEF ThroughAndroid, Stop
  <2>2. parts'["init_boot"] = saved /\ parts'["boot"] = saved BY <2>1 DEF BootSet, Partitions
  <2> QED BY <2>1, <2>2
<1>34. CASE PowerLoss
  <2>1. pc' = "off" /\ UNCHANGED <<saved, oldHook>> BY <1>34 DEF PowerLoss, Stop
  <2> SUFFICES ASSUME saved \in Slots PROVE UNCHANGED <<pending, selected, parts>> BY <2>1
  <2>2. pc \in {"slot", "off", "hook", "hook.select", "bricked"} OBVIOUS
  <2> QED BY <1>34, <2>2 DEF PowerLoss, CutWrite
<1>35. CASE UNCHANGED vars BY <1>35 DEF vars
<1> QED
  BY <1>1, <1>2, <1>3, <1>4, <1>5, <1>6, <1>7, <1>8, <1>9, <1>10, <1>11, <1>12, <1>13, <1>14,
     <1>15, <1>16, <1>17, <1>18, <1>19, <1>20, <1>21, <1>22, <1>23, <1>24, <1>25, <1>26, <1>27,
     <1>28, <1>29, <1>30, <1>31, <1>32, <1>33, <1>34, <1>35
  DEF Next, EarlyBoot, Apply, Accept, Bricked

\* The hook keeps the original boot set whole.
LEMMA GuardedPreserved ==
  ASSUME IInv, Written, Marked, Entered, Published, Overtaken, Guarded, [Next]_vars PROVE Guarded'
<1> TypeOK /\ Staged BY DEF IInv
<1> pending \in Slots \cup {None} /\ selected \in Slots \cup {None} /\ trigger \in Slots \cup {None} BY DEF TypeOK
<1> pc \in Applying \cup Restoring \cup Sessions => target \in Slots BY DEF Staged, IInv
<1> USE SlotAssumption DEF TypeOK, Guarded, store, updater, slotFiles, verdict, still, Staging, Originally, Replacing, Restoring, Applying, Sessions, Systems
<1>1. CASE Boot
  <2>1. pc = "off" /\ UNCHANGED <<parts, pending, selected, backup, oldHook>> BY <1>1 DEF Boot, Goto, BootOriginal, Stop
  <2> SUFFICES ASSUME oldHook PROVE pc' \in {"bricked", "hook"} BY <2>1
  <2>2. "init_boot" \in Partitions BY DEF Partitions
  <2>3. parts["init_boot"] \in Slots \cup {Original, Torn} BY <2>2 DEF BootSets
  <2>4. parts["init_boot"] # Torn => Hooked(parts["init_boot"]) BY <2>3 DEF Hooked
  <2>5. pc' \in {"bricked", "hook"} BY <1>1, <2>2, <2>4 DEF Boot, Goto, Stop
  <2> QED BY <2>1, <2>5
<1>2. CASE HookRestore BY <1>2 DEF HookRestore, MustRestore
<1>3. CASE HookTry BY <1>3 DEF HookTry, Goto, MustRestore
<1>4. CASE HookOriginal
  <2>1. pc = "hook.select" /\ selected = None /\ UNCHANGED <<parts, pending, selected, backup, oldHook>> BY <1>4 DEF HookOriginal, BootOriginal
  <2>2. pending = None BY <2>1 DEF Entered
  <2> QED BY <2>1, <2>2
<1>5. CASE HookEnter BY <1>5 DEF HookEnter, Uname
<1>6. CASE HookMismatch BY <1>6 DEF HookMismatch, Uname
<1>7. CASE RestoreCheck BY <1>7 DEF RestoreCheck, Stop
<1>8. CASE RestorePart
  <2>1. UNCHANGED <<pending, selected, backup, oldHook>> /\ pc = "restore.write" /\ pc' \notin Originally BY <1>8 DEF RestorePart, Stop
  <2>2. pending # None \/ selected # None BY <2>1, SlotAssumption DEF Marked
  <2> QED BY <2>1, <2>2
<1>9. CASE RestorePartFails
  <2>1. UNCHANGED <<pending, selected, backup, oldHook>> /\ pc = "restore.write" /\ pc' \notin Originally BY <1>9 DEF RestorePartFails, Stop
  <2>2. pending # None \/ selected # None BY <2>1, SlotAssumption DEF Marked
  <2> QED BY <2>1, <2>2
<1>10. CASE RestoreClear
  <2>1. pc = "restore.clear" /\ pc' = "off" /\ UNCHANGED <<parts, backup, oldHook>> /\ parts = backup[target] BY <1>10 DEF RestoreClear, Stop, Written
  <2>2. (oldHook => backup[target] \in {NoBackup, BootSet(Original)}) /\ NoBackup # parts
    <3>1. target \in Slots BY <1>10 DEF RestoreClear
    <3>2. NoBackup["boot"] = None /\ "boot" \in Partitions BY DEF NoBackup, Partitions
    <3> QED BY <3>1, <3>2, SlotAssumption DEF BootSets
  <2> QED BY <2>1, <2>2
<1>11. CASE ApplyBegin BY <1>11 DEF ApplyBegin, Goto
<1>12. CASE ApplyClone BY <1>12 DEF ApplyClone, Goto
<1>13. CASE ApplyPackages BY <1>13 DEF ApplyPackages, Goto
<1>14. CASE CommitBackup BY <1>14 DEF CommitBackup, Goto
<1>15. CASE CommitReady BY <1>15 DEF CommitReady, Goto
<1>16. CASE CommitPending
  <2>1. target \in Slots /\ pending' = target BY <1>16 DEF CommitPending, Marked
  <2>2. UNCHANGED <<backup, oldHook>> /\ pc' \notin Originally BY <1>16 DEF CommitPending, Goto
  <2> QED BY <2>1, <2>2, SlotAssumption
<1>17. CASE CommitPart
  <2>1. target \in Slots /\ pending' = target BY <1>17 DEF CommitPart, Marked
  <2>2. UNCHANGED <<backup, oldHook>> /\ pc' \notin Originally BY <1>17 DEF CommitPart, Goto
  <2> QED BY <2>1, <2>2, SlotAssumption
<1>18. CASE CommitPartFails
  <2>1. target \in Slots /\ pending' = target BY <1>18 DEF CommitPartFails, Marked
  <2>2. UNCHANGED <<backup, oldHook>> /\ pc' \notin Originally BY <1>18 DEF CommitPartFails, Goto
  <2> QED BY <2>1, <2>2, SlotAssumption
<1>19. CASE CommitSelect
  <2>1. target \in Slots /\ pending' = target BY <1>19 DEF CommitSelect, Marked
  <2>2. UNCHANGED <<backup, oldHook>> /\ pc' \notin Originally BY <1>19 DEF CommitSelect, Goto
  <2> QED BY <2>1, <2>2, SlotAssumption
<1>20. CASE CommitSelectFails
  <2>1. target \in Slots /\ pending' = target BY <1>20 DEF CommitSelectFails, Marked
  <2>2. UNCHANGED <<backup, oldHook>> /\ pc' \notin Originally BY <1>20 DEF CommitSelectFails, Goto
  <2> QED BY <2>1, <2>2, SlotAssumption
<1>21. CASE \E p \in Partitions : RollbackPart(p)
  <2>1. target \in Slots /\ pending' = target BY <1>21 DEF RollbackPart, Marked
  <2>2. UNCHANGED <<backup, oldHook>> /\ pc' \notin Originally BY <1>21 DEF RollbackPart, Goto
  <2> QED BY <2>1, <2>2, SlotAssumption
<1>22. CASE \E p \in Partitions : RollbackPartFails(p)
  <2>1. target \in Slots /\ pending' = target BY <1>22 DEF RollbackPartFails, Marked
  <2>2. UNCHANGED <<backup, oldHook>> /\ pc' \notin Originally BY <1>22 DEF RollbackPartFails, Goto
  <2> QED BY <2>1, <2>2, SlotAssumption
<1>23. CASE RollbackClear
  <2>1. pc = "apply.clear" /\ pc' = "apply.failed" /\ UNCHANGED <<parts, backup, oldHook>> /\ parts = backup[target] BY <1>23 DEF RollbackClear, Goto, Written
  <2>2. (oldHook => backup[target] \in {NoBackup, BootSet(Original)}) /\ NoBackup # parts
    <3>1. target \in Slots BY <1>23 DEF RollbackClear
    <3>2. NoBackup["boot"] = None /\ "boot" \in Partitions BY DEF NoBackup, Partitions
    <3> QED BY <3>1, <3>2, SlotAssumption DEF BootSets
  <2> QED BY <2>1, <2>2
<1>24. CASE ApplyDone BY <1>24 DEF ApplyDone, Stop
<1>25. CASE ApplyRaises
  <2>1. UNCHANGED <<parts, backup, oldHook>> /\ pc' = "apply.failed" /\ target \in Slots BY <1>25 DEF ApplyRaises, Goto
  <2>2. pending' = None => pending = None BY <1>25, <2>1, SlotAssumption DEF ApplyRaises
  <2>3. pending' = None => UNCHANGED selected BY <1>25, <2>1, <2>2, SlotAssumption DEF ApplyRaises, Marked
  <2> QED BY <2>1, <2>2, <2>3
<1>26. CASE ApplyFailed BY <1>26 DEF ApplyFailed, Stop
<1>27. CASE AcceptResult BY <1>27 DEF AcceptResult, Goto
<1>28. CASE AcceptUnlink
  <2>1. target \in Slots /\ selected = target /\ UNCHANGED <<parts, selected, backup, oldHook>> /\ pc' = "accept.sync" BY <1>28 DEF AcceptUnlink, Goto, Entered
  <2> QED BY <2>1, SlotAssumption
<1>29. CASE AcceptSync BY <1>29 DEF AcceptSync, Goto
<1>30. CASE Publish BY <1>30 DEF Publish, Uname
<1>31. CASE \E t \in Slots : Prepare(t) BY <1>31 DEF Prepare
<1>32. CASE Restart BY <1>32 DEF Restart, Stop
<1>33. CASE ThroughAndroid
  <2>1. pc' = "off" /\ UNCHANGED <<pending, selected, backup, oldHook>> /\ parts' = BootSet(saved) /\ pc \in {"slot", "original"} BY <1>33 DEF ThroughAndroid, Stop
  <2>2. CASE pc = "slot"
    <3>1. selected = target /\ target \in Slots BY <2>2 DEF Entered
    <3> QED BY <2>1, <3>1, SlotAssumption
  <2>3. CASE pc = "original"
    <3>1. saved = Original BY <2>3 DEF Published
    <3> QED BY <2>1, <3>1
  <2> QED BY <2>1, <2>2, <2>3
<1>34. CASE PowerLoss
  <2>1. pc' = "off" /\ UNCHANGED oldHook BY <1>34 DEF PowerLoss, Stop
  <2>2. \A s \in Slots : backup'[s] \in {NoBackup, backup[s]} BY <1>34 DEF PowerLoss, LoseUnflushed
  <2> SUFFICES ASSUME oldHook, pending' = None, selected' = None PROVE parts' = BootSet(Original) BY <2>1, <2>2
  <2>3. CASE pc \in {"restore.clear", "apply.clear"}
    <3>1. UNCHANGED parts /\ parts = backup[target] BY <1>34, <2>3 DEF PowerLoss, CutWrite, Written
    <3>2. target \in Slots BY <2>3
    <3>3. NoBackup["boot"] = None /\ "boot" \in Partitions BY DEF NoBackup, Partitions
    <3>4. parts # NoBackup BY <3>3, SlotAssumption DEF BootSets
    <3> QED BY <3>1, <3>2, <3>4
  <2>4. CASE pc \in {"accept.unlink", "accept.sync"}
    <3>1. UNCHANGED selected BY <1>34, <2>4 DEF PowerLoss, LoseAcceptance
    <3>2. selected = target /\ target \in Slots BY <2>4 DEF Entered
    <3> QED BY <3>1, <3>2, SlotAssumption
  <2>5. CASE pc \notin {"restore.clear", "apply.clear", "accept.unlink", "accept.sync"}
    <3>1. UNCHANGED <<pending, selected>> BY <1>34, <2>5 DEF PowerLoss
    <3>2. pc \notin {"apply.write", "apply.rollback"} BY <3>1, SlotAssumption DEF Marked
    <3>3. pc # "restore.write" BY <3>1, SlotAssumption DEF Marked
    <3>4. UNCHANGED parts BY <1>34, <3>2, <3>3 DEF PowerLoss, CutWrite
    <3> QED BY <3>1, <3>4
  <2> QED BY <2>3, <2>4, <2>5
<1>35. CASE UNCHANGED vars BY <1>35 DEF vars
<1> QED
  BY <1>1, <1>2, <1>3, <1>4, <1>5, <1>6, <1>7, <1>8, <1>9, <1>10, <1>11, <1>12, <1>13, <1>14,
     <1>15, <1>16, <1>17, <1>18, <1>19, <1>20, <1>21, <1>22, <1>23, <1>24, <1>25, <1>26, <1>27,
     <1>28, <1>29, <1>30, <1>31, <1>32, <1>33, <1>34, <1>35
  DEF Next, EarlyBoot, Apply, Accept, Bricked

\* A trial is entered on the boot set that was committed.
LEMMA TrialPreserved ==
  ASSUME IInv, Entered, Overtaken, Phased, TrialRunsWhole, [Next]_vars PROVE TrialRunsWhole'
<1> TypeOK /\ Staged BY DEF IInv
<1> pending \in Slots \cup {None} /\ selected \in Slots \cup {None} /\ trigger \in Slots \cup {None} BY DEF TypeOK
<1> pc \in Applying \cup Restoring \cup Sessions => target \in Slots BY DEF Staged, IInv
<1> USE SlotAssumption DEF TypeOK, TrialRunsWhole, store, updater, slotFiles, verdict, still, Staging, Originally, Replacing, Restoring, Applying, Sessions, Systems
<1>1. CASE Boot BY <1>1 DEF Boot, Goto, Hooked, BootOriginal, Stop
<1>2. CASE HookRestore BY <1>2 DEF HookRestore, MustRestore
<1>3. CASE HookTry BY <1>3 DEF HookTry, Goto, MustRestore
<1>4. CASE HookOriginal BY <1>4 DEF HookOriginal, BootOriginal
<1>5. CASE HookEnter
  <2>1. pc = "hook.select" /\ selected # None /\ target' = selected /\ UNCHANGED <<parts, late>> BY <1>5 DEF HookEnter
  <2>2. phase'[selected] = "trial" => phase[selected] # "kept" BY <1>5 DEF HookEnter
  <2> QED BY <2>1, <2>2, AtTheHook
<1>6. CASE HookMismatch BY <1>6 DEF HookMismatch, Uname
<1>7. CASE RestoreCheck BY <1>7 DEF RestoreCheck, Stop
<1>8. CASE RestorePart BY <1>8, AtWork, PartOrder DEF RestorePart
<1>9. CASE RestorePartFails BY <1>9, AtWork, PartOrder DEF RestorePartFails, Stop
<1>10. CASE RestoreClear BY <1>10 DEF RestoreClear, ClearFirst, Stop
<1>11. CASE ApplyBegin BY <1>11 DEF ApplyBegin, Goto
<1>12. CASE ApplyClone BY <1>12 DEF ApplyClone, Goto
<1>13. CASE ApplyPackages BY <1>13 DEF ApplyPackages, Goto
<1>14. CASE CommitBackup BY <1>14 DEF CommitBackup, Goto
<1>15. CASE CommitReady BY <1>15 DEF CommitReady, Goto
<1>16. CASE CommitPending BY <1>16 DEF CommitPending
<1>17. CASE CommitPart BY <1>17, AtWork, PartOrder DEF CommitPart
<1>18. CASE CommitPartFails BY <1>18, AtWork, PartOrder DEF CommitPartFails
<1>19. CASE CommitSelect BY <1>19 DEF CommitSelect, Goto
<1>20. CASE CommitSelectFails BY <1>20 DEF CommitSelectFails
<1>21. CASE \E p \in Partitions : RollbackPart(p) BY <1>21 DEF RollbackPart
<1>22. CASE \E p \in Partitions : RollbackPartFails(p) BY <1>22 DEF RollbackPartFails
<1>23. CASE RollbackClear BY <1>23 DEF RollbackClear, Goto, Deselected
<1>24. CASE ApplyDone BY <1>24 DEF ApplyDone, Stop
<1>25. CASE ApplyRaises BY <1>25 DEF ApplyRaises, Goto, Deselected
<1>26. CASE ApplyFailed BY <1>26 DEF ApplyFailed, Stop
<1>27. CASE AcceptResult BY <1>27 DEF AcceptResult, Goto
<1>28. CASE AcceptUnlink BY <1>28 DEF AcceptUnlink, Goto
<1>29. CASE AcceptSync BY <1>29 DEF AcceptSync, Goto
<1>30. CASE Publish BY <1>30 DEF Publish, Uname
<1>31. CASE \E t \in Slots : Prepare(t) BY <1>31 DEF Prepare
<1>32. CASE Restart BY <1>32 DEF Restart, Stop
<1>33. CASE ThroughAndroid BY <1>33 DEF ThroughAndroid, Stop, BootSet
<1>34. CASE PowerLoss BY <1>34 DEF PowerLoss, Stop
<1>35. CASE UNCHANGED vars BY <1>35 DEF vars
<1> QED
  BY <1>1, <1>2, <1>3, <1>4, <1>5, <1>6, <1>7, <1>8, <1>9, <1>10, <1>11, <1>12, <1>13, <1>14,
     <1>15, <1>16, <1>17, <1>18, <1>19, <1>20, <1>21, <1>22, <1>23, <1>24, <1>25, <1>26, <1>27,
     <1>28, <1>29, <1>30, <1>31, <1>32, <1>33, <1>34, <1>35
  DEF Next, EarlyBoot, Apply, Accept, Bricked
\* Where the invariant starts.
LEMMA InitTrial == ASSUME Init PROVE Written /\ Marked /\ Entered /\ Phased /\ Untried /\ Overtaken /\ Published /\ Guarded /\ TrialRunsWhole
<1> USE SlotAssumption DEF Init, Staging, Originally, Replacing, Restoring, Sessions, Systems
<1>1. Written /\ Marked /\ Entered BY DEF Written, Marked, Entered
<1>2. Phased
  <2> SUFFICES ASSUME NEW s \in Slots PROVE Follows(s) BY DEF Phased
  <2> QED BY DEF Follows
<1>3. Untried /\ Overtaken /\ TrialRunsWhole BY DEF Untried, Overtaken, TrialRunsWhole
<1>4. Published BY DEF Published
<1>5. Guarded BY DEF Guarded
<1> QED BY <1>1, <1>2, <1>3, <1>4, <1>5

\* The invariant of a migration from its first marker to the acceptance of its trial.
THEOREM TInvHolds == Spec => []TInv
<1>1. Init => Written /\ Marked /\ Entered /\ Phased /\ Untried /\ Overtaken /\ Published /\ Guarded /\ TrialRunsWhole BY InitTrial
<1>2. TInv /\ [Next]_vars => (Written /\ Marked /\ Entered /\ Phased /\ Untried /\ Overtaken /\ Published /\ Guarded /\ TrialRunsWhole)'
  BY WrittenPreserved, MarkedPreserved, EnteredPreserved, PhasedPreserved, UntriedPreserved, OvertakenPreserved,
     PublishedPreserved, GuardedPreserved, TrialPreserved DEF TInv
<1> QED BY <1>1, <1>2, IInvHolds, PTL DEF Spec, TInv

\* A trial session runs on the complete boot set of its slot, although the hook
\* compares nothing but the kernel release.
THEOREM TrialAlwaysWhole == Spec => []TrialRunsWhole
BY TInvHolds, PTL DEF TInv

\* Behind the hook the original system never comes up on a mixed boot set.
THEOREM OriginalAlwaysWhole == Spec => []OriginalRunsWhole
<1>1. TInv => OriginalRunsWhole BY DEF TInv, Guarded, Originally, OriginalRunsWhole
<1> QED BY TInvHolds, <1>1, PTL

\* The session of TrialBoot.
Session == IF pc \in Sessions THEN target ELSE IF pc \in {"original", "apply.start"} THEN Original ELSE None

\* Sessions end, and the original one starts, without a change of phase.
LEMMA Quiet ==
  ASSUME UNCHANGED phase, Session' = Session \/ Session' = None \/ (Session = None /\ Session' = Original)
  PROVE  [Promise!Next]_(Promise!vars)
BY DEF Session, Promise!Next, Promise!vars, Promise!EnterOriginal, Promise!Leave

\* A step of the migration is a step of TrialBoot or none.
LEMMA StepRefines == ASSUME TInv, [Next]_vars PROVE [Promise!Next]_(Promise!vars)
<1> IInv /\ Marked /\ Entered /\ Phased /\ Overtaken /\ Staged BY DEF TInv, IInv
<1> pc \in Applying \cup Restoring \cup Sessions => target \in Slots BY DEF Staged
<1> USE DEF Restoring, Applying, Sessions, store, updater, slotFiles, verdict, still
<1>1. CASE HookEnter
  <2>1. pc = "hook.select" /\ selected # None /\ pc' = "slot" /\ target' = selected
        /\ phase' = [phase EXCEPT ![selected] = IF @ = "kept" THEN @ ELSE "trial"] BY <1>1 DEF HookEnter
  <2>2. selected \in Slots /\ phase[selected] \in {"kept", "new"} BY <2>1, AtTheHook
  <2>3. phase \in [Slots -> {"new", "trial", "kept", "withdrawn"}] BY DEF IInv, TypeOK
  <2>4. Session = None /\ Session' = selected BY <2>1 DEF Session
  <2>5. CASE phase[selected] = "kept"
    <3>1. phase' = phase BY <2>1, <2>2, <2>3, <2>5
    <3>2. Promise!EnterKept(selected) BY <2>4, <2>5, <3>1 DEF Promise!EnterKept, Session
    <3> QED BY <2>2, <3>2 DEF Promise!Next
  <2>6. CASE phase[selected] = "new"
    <3>1. Promise!EnterTrial(selected) BY <2>1, <2>4, <2>6 DEF Promise!EnterTrial, Session
    <3> QED BY <2>2, <3>1 DEF Promise!Next
  <2> QED BY <2>2, <2>5, <2>6
<1>2. CASE RestoreClear
  <2>1. target \in Slots /\ pc = "restore.clear" /\ pc' = "off" /\ phase' = [phase EXCEPT ![target] = "withdrawn"]
    BY <1>2 DEF RestoreClear, ClearFirst, Stop
  <2>2. Promise!Withdraw(target) BY <2>1 DEF Promise!Withdraw
  <2> QED BY <2>1, <2>2 DEF Promise!Next
<1>3. CASE AcceptUnlink
  <2>1. target \in Slots /\ pc = "accept.unlink" /\ pc' = "accept.sync" /\ target' = target /\ phase' = [phase EXCEPT ![target] = "kept"]
    BY <1>3 DEF AcceptUnlink, Goto
  <2>2. pending = target /\ phase[target] \in {"trial", "kept"} BY <2>1 DEF Entered
  <2>3. phase[target] = "trial" BY <2>1, <2>2 DEF Phased, Follows
  <2>4. Promise!Keep(target) BY <2>1, <2>3 DEF Promise!Keep
  <2> QED BY <2>1, <2>4 DEF Promise!Next
<1>4. CASE PowerLoss
  <2>1. pc' = "off" /\ Session' = None BY <1>4 DEF PowerLoss, Stop, Session
  <2>2. CASE pc = "restore.clear"
    <3>1. target \in Slots /\ Session = None BY <2>2 DEF Session
    <3>2. UNCHANGED phase \/ phase' = [phase EXCEPT ![target] = "withdrawn"] BY <1>4, <2>2 DEF PowerLoss, LoseClearing, ClearFirst
    <3>3. CASE UNCHANGED phase BY <2>1, <3>3, Quiet
    <3>4. CASE phase' = [phase EXCEPT ![target] = "withdrawn"]
      <4>1. Promise!Withdraw(target) BY <2>1, <2>2, <3>4 DEF Promise!Withdraw
      <4> QED BY <3>1, <4>1 DEF Promise!Next
    <3> QED BY <3>2, <3>3, <3>4
  <2>3. CASE pc \in {"accept.unlink", "accept.sync"}
    <3>1. target \in Slots /\ phase[target] \in {"trial", "kept"} BY <2>3 DEF Entered
    <3>2. phase \in [Slots -> {"new", "trial", "kept", "withdrawn"}] BY DEF IInv, TypeOK
    <3>3. phase' = [phase EXCEPT ![target] = IF pending' = None THEN @ ELSE "trial"] BY <1>4, <2>3 DEF PowerLoss, LoseAcceptance
    <3>4. CASE phase' = phase BY <2>1, <3>4, Quiet
    <3>5. CASE phase' # phase
      <4>1. phase' = [phase EXCEPT ![target] = "trial"] /\ phase[target] = "kept" BY <3>1, <3>2, <3>3, <3>5
      <4>2. Promise!LoseKeep(target) BY <2>1, <2>3, <4>1 DEF Promise!LoseKeep
      <4> QED BY <3>1, <4>2 DEF Promise!Next
    <3> QED BY <3>4, <3>5
  <2>4. CASE pc \notin {"restore.clear", "accept.unlink", "accept.sync"}
    <3>1. UNCHANGED phase BY <1>4, <2>4 DEF PowerLoss, LoseClearing
    <3> QED BY <2>1, <3>1, Quiet
  <2> QED BY <2>2, <2>3, <2>4
<1>5. CASE ~(HookEnter \/ RestoreClear \/ AcceptUnlink \/ PowerLoss)
  <2>1. UNCHANGED phase
    BY <1>5 DEF Next, EarlyBoot, Apply, Accept, vars, Boot, BootOriginal, HookRestore, HookTry, HookOriginal, HookMismatch,
       RestoreCheck, RestorePart, RestorePartFails, ApplyBegin, ApplyClone, ApplyPackages, CommitBackup, CommitReady,
       CommitPending, CommitPart, CommitPartFails, CommitSelect, CommitSelectFails, RollbackPart, RollbackPartFails,
       RollbackClear, ApplyDone, ApplyRaises, ApplyFailed, AcceptResult, AcceptSync, Publish, Prepare, Restart,
       ThroughAndroid, Bricked
  <2>2. CASE pc \in Sessions \cup {"original", "apply.start"}
    <3>1. Session' = Session \/ Session' = None
      BY <1>5, <2>2 DEF Session, Next, EarlyBoot, Apply, Accept, vars, Boot, HookRestore, HookTry, HookOriginal, HookMismatch,
         RestoreCheck, RestorePart, RestorePartFails, ApplyBegin, ApplyClone, ApplyPackages, CommitBackup, CommitReady,
         CommitPending, CommitPart, CommitPartFails, CommitSelect, CommitSelectFails, RollbackPart, RollbackPartFails,
         RollbackClear, ApplyDone, ApplyRaises, ApplyFailed, AcceptResult, AcceptSync, Publish, Prepare, Restart,
         ThroughAndroid, Bricked, Goto, Stop
    <3> QED BY <2>1, <3>1, Quiet
  <2>3. CASE pc \notin Sessions \cup {"original", "apply.start"}
    <3>1. pc' \notin Sessions
      BY <1>5, <2>3 DEF Next, EarlyBoot, Apply, Accept, vars, Boot, BootOriginal, HookRestore, HookTry, HookOriginal, HookMismatch,
         RestoreCheck, RestorePart, RestorePartFails, ApplyBegin, ApplyClone, ApplyPackages, CommitBackup, CommitReady,
         CommitPending, CommitPart, CommitPartFails, CommitSelect, CommitSelectFails, RollbackPart, RollbackPartFails,
         RollbackClear, ApplyDone, ApplyRaises, ApplyFailed, AcceptResult, AcceptSync, Publish, Prepare, Restart,
         ThroughAndroid, Bricked, Goto, Stop
    <3>2. Session = None /\ Session' \in {None, Original} BY <2>3, <3>1 DEF Session
    <3> QED BY <2>1, <3>2, Quiet
  <2> QED BY <2>2, <2>3
<1> QED BY <1>1, <1>2, <1>3, <1>4, <1>5

\* The migration implements TrialBoot: hook, commit, acceptance and power losses together
\* give a migrated system one trial, and none to a system whose boot set was taken away.
THEOREM TrialBootImplemented == Spec => TrialBootSpec
<1>1. Init => Promise!Init BY SlotAssumption DEF Init, Promise!Init, Sessions
<1>2. TInv /\ [Next]_vars => [Promise!Next]_(Promise!vars) BY StepRefines
<1> QED BY TInvHolds, <1>1, <1>2, PTL DEF Spec, TrialBootSpec, Promise!Spec

\* What the promise comes to for one slot: once started it is never new again; a slot
\* whose boot set was taken away stays down for good; an ended trial is not entered
\* again; and a trial is kept only from inside its own session.
SecondChance(s) ==
  /\ phase[s] # "new" => phase'[s] # "new"
  /\ phase[s] = "withdrawn" => phase'[s] = "withdrawn" /\ Session' # s
  /\ phase[s] = "trial" /\ Session # s => Session' # s
  /\ phase[s] = "trial" /\ phase'[s] = "kept" => Session = s /\ Session' = s

\* There is no second chance for a migrated system but its acceptance, whatever power
\* losses, failures and restarts come between (from TrialBoot and the phase of who is up).
THEOREM NoSecondChance == Spec => [][\A s \in Slots : SecondChance(s)]_vars
<1>1. TInv /\ TInv' /\ [Next]_vars => [\A s \in Slots : SecondChance(s)]_vars
  <2> SUFFICES ASSUME TInv, TInv', [Next]_vars, NEW s \in Slots PROVE SecondChance(s) OBVIOUS
  <2>1. Session = s => phase[s] \in {"trial", "kept"}
    BY SlotAssumption DEF TInv, Entered, Session, Systems
  <2>2. Session' = s => phase'[s] \in {"trial", "kept"}
    BY SlotAssumption DEF TInv, Entered, Session, Systems
  <2>3. phase \in [Slots -> {"new", "trial", "kept", "withdrawn"}] /\ s # None /\ s # Original
    BY SlotAssumption DEF TInv, IInv, TypeOK, Systems
  <2>4. [Promise!Next]_(Promise!vars) BY StepRefines
  <2>5. CASE UNCHANGED Promise!vars BY <2>1, <2>5 DEF Promise!vars, Session, SecondChance
  <2>6. CASE Promise!EnterOriginal \/ Promise!Leave
    BY <2>1, <2>3, <2>6 DEF Promise!EnterOriginal, Promise!Leave, Session, SecondChance
  <2>7. CASE \E t \in Slots : Promise!EnterTrial(t)
    BY <2>1, <2>2, <2>3, <2>7 DEF Promise!EnterTrial, Session, SecondChance
  <2>8. CASE \E t \in Slots : Promise!EnterKept(t)
    BY <2>1, <2>2, <2>3, <2>8 DEF Promise!EnterKept, Session, SecondChance
  <2>9. CASE \E t \in Slots : Promise!Keep(t)
    BY <2>1, <2>2, <2>3, <2>9 DEF Promise!Keep, Session, SecondChance
  <2>10. CASE \E t \in Slots : Promise!LoseKeep(t)
    BY <2>1, <2>2, <2>3, <2>10 DEF Promise!LoseKeep, Session, SecondChance
  <2>11. CASE \E t \in Slots : Promise!Withdraw(t)
    BY <2>1, <2>2, <2>3, <2>11 DEF Promise!Withdraw, Session, SecondChance
  <2> QED BY <2>4, <2>5, <2>6, <2>7, <2>8, <2>9, <2>10, <2>11 DEF Promise!Next
<1> QED BY <1>1, TInvHolds, PTL DEF Spec

\* No partition holds the boot set of t.
Untouched(t) == \A p \in Partitions : parts[p] # t

\* The hook starts t, which was accepted, and the original system does not come up.
Kept(t) ==
  /\ pending = None /\ selected = t /\ phase[t] = "kept" /\ pc \notin Applying \cup Restoring
  /\ oldHook \/ parts["init_boot"] \in Slots
  /\ Release[parts["boot"]] = Release[t]

\* A migration works on the slot that is staged, a session runs a kernel of its slot.
Aimed ==
  /\ pc \in Applying => trigger = target
  /\ pc \in Sessions => Release[parts["boot"]] = Release[target]

\* The staged slot's images are in no partition and no backup before its commit.
Fresh ==
  /\ pc \in {"apply.packages", "apply.backup"} => Untouched(target)
  /\ trigger # None => \A s \in Slots, p \in Partitions : backup[s][p] # trigger

\* Later they are in a partition only under its pending marker or where it runs for good.
Accounted == trigger # None => pending = trigger \/ Untouched(trigger) \/ Kept(trigger)

\* What runs stays with its slot.
LEMMA AimedPreserved ==
  ASSUME IInv, Entered, Aimed, [Next]_vars PROVE Aimed'
<1> TypeOK /\ Staged BY DEF IInv
<1> pending \in Slots \cup {None} /\ selected \in Slots \cup {None} /\ trigger \in Slots \cup {None}
  BY DEF TypeOK
<1> pc \in Applying \cup Restoring \cup Sessions => target \in Slots BY DEF Staged, IInv
<1> USE SlotAssumption DEF TypeOK, Aimed, store, updater, slotFiles, verdict, still, Staging, Originally, Replacing, Restoring, Applying, Sessions, Systems
<1>1. CASE Boot BY <1>1 DEF Boot, Goto, Hooked, BootOriginal, Stop
<1>2. CASE HookRestore BY <1>2 DEF HookRestore, MustRestore
<1>3. CASE HookTry BY <1>3 DEF HookTry, Goto, MustRestore
<1>4. CASE HookOriginal BY <1>4 DEF HookOriginal, BootOriginal
<1>5. CASE HookEnter BY <1>5 DEF HookEnter, Uname
<1>6. CASE HookMismatch BY <1>6 DEF HookMismatch, Uname
<1>7. CASE RestoreCheck BY <1>7 DEF RestoreCheck, Stop
<1>8. CASE RestorePart BY <1>8, AtWork, PartOrder DEF RestorePart
<1>9. CASE RestorePartFails BY <1>9, AtWork, PartOrder DEF RestorePartFails, Stop
<1>10. CASE RestoreClear BY <1>10 DEF RestoreClear, ClearFirst, Stop
<1>11. CASE ApplyBegin BY <1>11 DEF ApplyBegin, Goto
<1>12. CASE ApplyClone BY <1>12 DEF ApplyClone, Goto
<1>13. CASE ApplyPackages BY <1>13 DEF ApplyPackages, Goto
<1>14. CASE CommitBackup BY <1>14 DEF CommitBackup, Goto
<1>15. CASE CommitReady BY <1>15 DEF CommitReady, Goto
<1>16. CASE CommitPending BY <1>16 DEF CommitPending
<1>17. CASE CommitPart BY <1>17, AtWork, PartOrder DEF CommitPart
<1>18. CASE CommitPartFails BY <1>18, AtWork, PartOrder DEF CommitPartFails
<1>19. CASE CommitSelect BY <1>19 DEF CommitSelect, Goto
<1>20. CASE CommitSelectFails BY <1>20 DEF CommitSelectFails
<1>21. CASE \E p \in Partitions : RollbackPart(p) BY <1>21 DEF RollbackPart
<1>22. CASE \E p \in Partitions : RollbackPartFails(p) BY <1>22 DEF RollbackPartFails
<1>23. CASE RollbackClear BY <1>23 DEF RollbackClear, Goto, Deselected
<1>24. CASE ApplyDone BY <1>24 DEF ApplyDone, Stop
<1>25. CASE ApplyRaises BY <1>25 DEF ApplyRaises, Goto, Deselected
<1>26. CASE ApplyFailed BY <1>26 DEF ApplyFailed, Stop
<1>27. CASE AcceptResult BY <1>27 DEF AcceptResult, Goto
<1>28. CASE AcceptUnlink BY <1>28 DEF AcceptUnlink, Goto
<1>29. CASE AcceptSync BY <1>29 DEF AcceptSync, Goto
<1>30. CASE Publish BY <1>30 DEF Publish, Uname
<1>31. CASE \E t \in Slots : Prepare(t) BY <1>31 DEF Prepare
<1>32. CASE Restart BY <1>32 DEF Restart, Stop
<1>33. CASE ThroughAndroid BY <1>33 DEF ThroughAndroid, Stop, BootSet
<1>34. CASE PowerLoss BY <1>34 DEF PowerLoss, Stop
<1>35. CASE UNCHANGED vars BY <1>35 DEF vars
<1> QED
  BY <1>1, <1>2, <1>3, <1>4, <1>5, <1>6, <1>7, <1>8, <1>9, <1>10, <1>11, <1>12, <1>13, <1>14,
     <1>15, <1>16, <1>17, <1>18, <1>19, <1>20, <1>21, <1>22, <1>23, <1>24, <1>25, <1>26, <1>27,
     <1>28, <1>29, <1>30, <1>31, <1>32, <1>33, <1>34, <1>35
  DEF Next, EarlyBoot, Apply, Accept, Bricked

\* No image of a slot is backed up for that slot or a later one.
LEMMA FreshPreserved ==
  ASSUME IInv, Marked, Aimed, Fresh, [Next]_vars PROVE Fresh'
<1> TypeOK /\ Staged BY DEF IInv
<1> pending \in Slots \cup {None} /\ selected \in Slots \cup {None} /\ trigger \in Slots \cup {None}
  BY DEF TypeOK
<1> pc \in Applying \cup Restoring \cup Sessions => target \in Slots BY DEF Staged, IInv
<1> USE SlotAssumption DEF TypeOK, Fresh, Untouched, store, updater, slotFiles, verdict, still, Staging, Originally, Replacing, Restoring, Applying, Sessions, Systems
<1>1. CASE Boot BY <1>1 DEF Boot, Goto, Hooked, BootOriginal, Stop
<1>2. CASE HookRestore BY <1>2 DEF HookRestore, MustRestore
<1>3. CASE HookTry BY <1>3 DEF HookTry, Goto, MustRestore
<1>4. CASE HookOriginal BY <1>4 DEF HookOriginal, BootOriginal
<1>5. CASE HookEnter BY <1>5 DEF HookEnter, Uname
<1>6. CASE HookMismatch BY <1>6 DEF HookMismatch, Uname
<1>7. CASE RestoreCheck BY <1>7 DEF RestoreCheck, Stop
<1>8. CASE RestorePart BY <1>8, AtWork, PartOrder DEF RestorePart
<1>9. CASE RestorePartFails BY <1>9, AtWork, PartOrder DEF RestorePartFails, Stop
<1>10. CASE RestoreClear BY <1>10 DEF RestoreClear, ClearFirst, Stop
<1>11. CASE ApplyBegin BY <1>11 DEF ApplyBegin, Goto
<1>12. CASE ApplyClone
  <2>1. pc = "apply.clone" /\ root[target] = "created" /\ UNCHANGED <<target, parts, backup, trigger>>
    BY <1>12 DEF ApplyClone, Goto
  <2>2. target \in Slots /\ ~Whole(target) BY <2>1 DEF Staged, Whole
  <2>3. Untouched(target) BY <2>2 DEF IInv, Named, Names
  <2> QED BY <2>1, <2>3
<1>13. CASE ApplyPackages BY <1>13 DEF ApplyPackages, Goto
<1>14. CASE CommitBackup
  <2>1. pc = "apply.backup" /\ pc' = "apply.flush" /\ backup' = [backup EXCEPT ![target] = parts] /\ UNCHANGED trigger
    BY <1>14 DEF CommitBackup, Goto
  <2>2. Untouched(target) /\ trigger = target /\ target \in Slots BY <2>1 DEF Aimed
  <2> SUFFICES ASSUME trigger # None, NEW s \in Slots, NEW p \in Partitions PROVE backup'[s][p] # trigger
    BY <2>1
  <2>3. CASE s = target BY <2>1, <2>2, <2>3
  <2>4. CASE s # target BY <2>1, <2>2, <2>4
  <2> QED BY <2>3, <2>4
<1>15. CASE CommitReady BY <1>15 DEF CommitReady, Goto
<1>16. CASE CommitPending BY <1>16 DEF CommitPending
<1>17. CASE CommitPart BY <1>17, AtWork, PartOrder DEF CommitPart
<1>18. CASE CommitPartFails BY <1>18, AtWork, PartOrder DEF CommitPartFails
<1>19. CASE CommitSelect BY <1>19 DEF CommitSelect, Goto
<1>20. CASE CommitSelectFails BY <1>20 DEF CommitSelectFails
<1>21. CASE \E p \in Partitions : RollbackPart(p) BY <1>21 DEF RollbackPart
<1>22. CASE \E p \in Partitions : RollbackPartFails(p) BY <1>22 DEF RollbackPartFails
<1>23. CASE RollbackClear BY <1>23 DEF RollbackClear, Goto, Deselected
<1>24. CASE ApplyDone BY <1>24 DEF ApplyDone, Stop
<1>25. CASE ApplyRaises BY <1>25 DEF ApplyRaises, Goto, Deselected
<1>26. CASE ApplyFailed BY <1>26 DEF ApplyFailed, Stop
<1>27. CASE AcceptResult BY <1>27 DEF AcceptResult, Goto
<1>28. CASE AcceptUnlink BY <1>28 DEF AcceptUnlink, Goto
<1>29. CASE AcceptSync BY <1>29 DEF AcceptSync, Goto
<1>30. CASE Publish BY <1>30 DEF Publish, Uname
<1>31. CASE \E t \in Slots : Prepare(t)
  <2> PICK t \in Slots : Prepare(t) BY <1>31
  <2>1. pc = "original" /\ UNCHANGED <<pc, backup>> /\ trigger = None /\ trigger' \in {t, None} BY DEF Prepare
  <2>2. ~Whole(t) BY DEF Prepare, Whole
  <2>3. \A s \in Slots, p \in Partitions : backup[s][p] # t BY <2>2 DEF IInv, Named, Names
  <2> QED BY <2>1, <2>3
<1>32. CASE Restart BY <1>32 DEF Restart, Stop
<1>33. CASE ThroughAndroid BY <1>33 DEF ThroughAndroid, Stop, BootSet
<1>34. CASE PowerLoss
  <2>1. pc' = "off" /\ trigger' \in {trigger, None}
    <3>1. pc \in {"restore.clear", "apply.clear"} => trigger' \in {trigger, None}
      BY <1>34 DEF PowerLoss, LoseClearing, ClearFirst
    <3>2. pc \notin {"restore.clear", "apply.clear"} => trigger' = trigger
      BY <1>34 DEF PowerLoss, LoseAcceptance
    <3>3. pc' = "off" BY <1>34 DEF PowerLoss, Stop
    <3> QED BY <3>1, <3>2, <3>3
  <2>2. LoseUnflushed BY <1>34 DEF PowerLoss
  <2> SUFFICES ASSUME trigger # None, NEW s \in Slots, NEW p \in Partitions PROVE backup'[s][p] # trigger
    BY <2>1
  <2>3. backup'[s] \in {backup[s], NoBackup} BY <2>2 DEF LoseUnflushed
  <2>4. NoBackup[p] = None BY DEF NoBackup
  <2> QED BY <2>3, <2>4
<1>35. CASE UNCHANGED vars BY <1>35 DEF vars
<1> QED
  BY <1>1, <1>2, <1>3, <1>4, <1>5, <1>6, <1>7, <1>8, <1>9, <1>10, <1>11, <1>12, <1>13, <1>14,
     <1>15, <1>16, <1>17, <1>18, <1>19, <1>20, <1>21, <1>22, <1>23, <1>24, <1>25, <1>26, <1>27,
     <1>28, <1>29, <1>30, <1>31, <1>32, <1>33, <1>34, <1>35
  DEF Next, EarlyBoot, Apply, Accept, Bricked

\* A step that leaves partitions, markers and phases alone, and does not begin to put
\* back the boot set of a slot that runs for good.
LEMMA Carried ==
  ASSUME Accounted, UNCHANGED <<parts, store, phase, oldHook>>, trigger' \in {trigger, None},
         trigger # None /\ Kept(trigger) => pc' \notin Applying \cup Restoring
  PROVE  Accounted'
<1> SUFFICES ASSUME trigger' # None PROVE pending' = trigger' \/ Untouched(trigger)' \/ Kept(trigger)'
  BY DEF Accounted
<1>1. trigger' = trigger /\ trigger # None /\ UNCHANGED <<pending, selected>> BY DEF store
<1>2. CASE pending = trigger BY <1>1, <1>2
<1>3. CASE Untouched(trigger) BY <1>1, <1>3 DEF Untouched
<1>4. CASE Kept(trigger) BY <1>1, <1>4 DEF Kept
<1> QED BY <1>1, <1>2, <1>3, <1>4 DEF Accounted

\* The marker goes only after the images, or when their slot is accepted.
LEMMA AccountedPreserved ==
  ASSUME TInv, Aimed, Fresh, Accounted, [Next]_vars PROVE Accounted'
<1> IInv /\ TypeOK /\ Staged /\ Written /\ Marked /\ Entered /\ Overtaken /\ Published BY DEF TInv, IInv
<1> pc \in Applying => trigger = target /\ target \in Slots BY DEF Aimed, Staged
<1> pc \in Restoring \cup Sessions => target \in Slots BY DEF Staged
<1>0. None \notin Slots /\ Original \notin Slots BY SlotAssumption DEF Systems
<1>1. CASE Boot
  <2>1. pc' \in Applying \cup Restoring => ~oldHook /\ parts["init_boot"] \notin Slots
    <3> SUFFICES ASSUME pc' \in Applying \cup Restoring PROVE ~Hooked(parts["init_boot"])
      BY <1>1 DEF Boot, Hooked, TypeOK, BootSets, Partitions, Systems, Goto, Stop, BootOriginal, Applying, Restoring
    <3> QED BY <1>1 DEF Boot, Goto, Stop, Applying, Restoring
  <2> QED BY <1>1, <2>1, Carried DEF Boot, Goto, Stop, BootOriginal, Kept, updater, still
<1>2. CASE HookRestore \/ HookMismatch \/ HookOriginal
  <2>1. UNCHANGED <<parts, store, phase, oldHook, trigger>>
    BY <1>2 DEF HookRestore, HookMismatch, HookOriginal, BootOriginal, updater, still
  <2>2. ASSUME trigger # None, Kept(trigger) PROVE FALSE
    <3>1. pending = None /\ selected = trigger /\ Release[parts["boot"]] = Release[selected] BY <2>2 DEF Kept
    <3> QED BY <1>2, <2>2, <3>1 DEF HookRestore, MustRestore, HookMismatch, Uname, HookOriginal
  <2> QED BY <2>1, <2>2, Carried
<1>3. CASE HookTry \/ AcceptResult \/ AcceptSync \/ Publish \/ Restart
  <2>1. UNCHANGED <<parts, store, phase, oldHook, trigger>>
    BY <1>3 DEF HookTry, AcceptResult, AcceptSync, Publish, Restart, updater, still
  <2>2. pc' \notin Applying \cup Restoring
    BY <1>3 DEF HookTry, AcceptResult, AcceptSync, Publish, Restart, Goto, Stop, Applying, Restoring
  <2> QED BY <2>1, <2>2, Carried
<1>4. CASE RestoreCheck \/ ApplyBegin \/ ApplyClone \/ ApplyPackages \/ CommitBackup \/ CommitReady \/ ApplyDone \/ ApplyFailed
  <2>1. UNCHANGED <<parts, store, phase, oldHook>> /\ trigger' \in {trigger, None}
    BY <1>4 DEF RestoreCheck, ApplyBegin, ApplyClone, ApplyPackages, CommitBackup, CommitReady, ApplyDone, ApplyFailed, updater, still
  <2>2. ~Kept(trigger)
    BY <1>4 DEF RestoreCheck, ApplyBegin, ApplyClone, ApplyPackages, CommitBackup, CommitReady, ApplyDone, ApplyFailed, Kept, Applying, Restoring
  <2> QED BY <2>1, <2>2, Carried
<1>5. CASE HookEnter
  <2>1. pc' = "slot" /\ UNCHANGED <<parts, pending, selected, oldHook, trigger>>
    BY <1>5 DEF HookEnter, updater, store, still
  <2>2. phase' = [phase EXCEPT ![selected] = IF @ = "kept" THEN @ ELSE "trial"] BY <1>5 DEF HookEnter
  <2>3. Kept(trigger) /\ trigger # None => Kept(trigger)'
    <3> SUFFICES ASSUME Kept(trigger), trigger # None PROVE phase'[trigger] = "kept"
      BY <2>1 DEF Kept, Applying, Restoring
    <3>1. trigger \in Slots /\ trigger = selected /\ phase[trigger] = "kept" BY DEF TypeOK, Kept
    <3> QED BY <2>2, <3>1 DEF TypeOK
  <2> QED BY <2>1, <2>3 DEF Accounted, Untouched
<1>6. CASE RestorePart
  <2>1. UNCHANGED <<pending, trigger>> /\ pc \in Restoring BY <1>6 DEF RestorePart, store, updater, Restoring
  <2>2. NextPart \in todo /\ todo \subseteq Partitions BY <1>6, PartOrder DEF RestorePart, TypeOK
  <2>3. parts' = [parts EXCEPT ![NextPart] = backup[target][NextPart]] BY <1>6 DEF RestorePart
  <2>4. trigger # None /\ Untouched(trigger) => Untouched(trigger)'
    BY <2>1, <2>2, <2>3 DEF Untouched, Fresh, TypeOK, BootSets
  <2> QED BY <2>1, <2>4 DEF Accounted, Kept
<1>7. CASE RestorePartFails
  <2>1. UNCHANGED <<pending, trigger>> /\ pc \in Restoring
    BY <1>7 DEF RestorePartFails, store, updater, Restoring
  <2>2. NextPart \in todo /\ todo \subseteq Partitions BY <1>7, PartOrder DEF RestorePartFails, TypeOK
  <2>3. PICK i \in {Torn, parts[NextPart], backup[target][NextPart]} : parts' = [parts EXCEPT ![NextPart] = i]
    BY <1>7 DEF RestorePartFails
  <2>4. trigger # None => trigger # Torn BY SlotAssumption DEF TypeOK, Systems
  <2>5. trigger # None /\ Untouched(trigger) => Untouched(trigger)'
    BY <2>1, <2>2, <2>3, <2>4 DEF Untouched, Fresh, TypeOK, BootSets
  <2> QED BY <2>1, <2>5 DEF Accounted, Kept
<1>8. CASE RestoreClear BY <1>8 DEF RestoreClear, ClearFirst, Accounted
<1>9. CASE CommitPending BY <1>9 DEF CommitPending, Accounted, updater, Applying
<1>10. CASE CommitPart \/ CommitPartFails \/ CommitSelect \/ CommitSelectFails
            \/ \E p \in Partitions : RollbackPart(p) \/ RollbackPartFails(p)
  <2>1. pc \in {"apply.write", "apply.select", "apply.rollback"} /\ UNCHANGED <<pending, trigger>>
    BY <1>10 DEF CommitPart, CommitPartFails, CommitSelect, CommitSelectFails, RollbackPart, RollbackPartFails, updater, store
  <2>2. pending = target /\ trigger = target BY <2>1 DEF Marked, Applying
  <2> QED BY <2>1, <2>2 DEF Accounted
<1>11. CASE RollbackClear
  <2>1. pc = "apply.clear" /\ UNCHANGED <<parts, trigger>> BY <1>11 DEF RollbackClear, updater
  <2>2. parts = backup[target] /\ trigger = target /\ target \in Slots BY <2>1 DEF Written, Applying
  <2>3. Untouched(trigger)' BY <1>0, <2>1, <2>2 DEF Fresh, Untouched
  <2> QED BY <2>1, <2>3 DEF Accounted
<1>12. CASE ApplyRaises
  <2>1. pc \in Applying /\ UNCHANGED <<parts, trigger>> /\ pending' \in {pending, target}
    BY <1>12 DEF ApplyRaises, updater, Applying
  <2>2. trigger = target /\ ~Kept(trigger) BY <2>1 DEF Kept
  <2> QED BY <2>1, <2>2 DEF Accounted, Untouched
<1>13. CASE AcceptUnlink
  <2>1. pc = "accept.unlink" /\ pc' = "accept.sync" /\ pending' = None /\ phase' = [phase EXCEPT ![target] = "kept"]
        /\ UNCHANGED <<parts, target, selected, trigger, oldHook>>
          BY <1>13 DEF AcceptUnlink, Goto, updater, still
  <2>2. pending = target /\ selected = target /\ target \in Slots BY <2>1 DEF Entered, Sessions
  <2>3. CASE trigger = target
    <3>1. phase'[target] = "kept" BY <2>1, <2>2 DEF TypeOK
    <3>2. oldHook \/ parts["init_boot"] \in Slots BY <2>1 DEF Entered, Sessions
    <3>3. Release[parts["boot"]] = Release[target] BY <2>1 DEF Aimed, Sessions
    <3>4. Kept(trigger)' BY <2>1, <2>2, <2>3, <3>1, <3>2, <3>3 DEF Kept, Applying, Restoring
    <3> QED BY <2>1, <3>4 DEF Accounted
  <2>4. CASE trigger # target
    <3>1. trigger # None => Untouched(trigger) BY <1>0, <2>2, <2>4 DEF Accounted, Kept
    <3> QED BY <2>1, <3>1 DEF Accounted, Untouched
  <2> QED BY <2>3, <2>4
<1>14. CASE \E t \in Slots : Prepare(t)
  <2> PICK t \in Slots : Prepare(t) BY <1>14
  <2>1. UNCHANGED parts /\ trigger = None /\ trigger' \in {t, None} BY DEF Prepare
  <2>2. ~Whole(t) BY DEF Prepare, Whole
  <2>3. Untouched(t) BY <2>2 DEF IInv, Named, Names, Untouched
  <2> QED BY <2>1, <2>3 DEF Accounted, Untouched
<1>15. CASE ThroughAndroid
  <2>1. pc \in {"original", "slot"} /\ (pc = "original" => trigger = None) /\ pc' = "off" /\ parts' = BootSet(saved)
        /\ UNCHANGED <<pending, selected, saved, trigger, phase, oldHook>>
          BY <1>15 DEF ThroughAndroid, Stop, store, updater, still
  <2>2. CASE saved # trigger BY <2>1, <2>2 DEF Accounted, Untouched, BootSet
  <2>3. CASE trigger # None /\ saved = trigger
    <3>1. saved \in Slots /\ selected = saved /\ pending = None /\ (oldHook \/ parts["init_boot"] \in Slots)
      BY <2>3 DEF TypeOK, Published
    <3>2. parts["init_boot"] # Original \/ oldHook BY <1>0, <3>1
    <3>3. phase[selected] = "kept" BY <1>0, <3>1, <3>2 DEF Overtaken
    <3>4. parts'["init_boot"] \in Slots /\ parts'["boot"] = saved BY <2>1, <3>1 DEF BootSet, Partitions
    <3>5. Kept(trigger)' BY <2>1, <2>3, <3>1, <3>3, <3>4 DEF Kept, Applying, Restoring
    <3> QED BY <2>1, <3>5 DEF Accounted
  <2>4. CASE trigger = None BY <2>1, <2>4 DEF Accounted
  <2> QED BY <2>2, <2>3, <2>4
<1>16. CASE PowerLoss
  <2>1. pc' = "off" /\ UNCHANGED oldHook /\ CutWrite BY <1>16 DEF PowerLoss, Stop
  <2>2. CASE pc = "restore.clear"
    <3>1. UNCHANGED parts /\ parts = backup[target] BY <2>1, <2>2 DEF CutWrite, Written
    <3>2. PICK n \in 0..5 : ClearFirst(n) BY <1>16, <2>2 DEF PowerLoss, LoseClearing
    <3>3. trigger' \in {trigger, None} BY <3>2 DEF ClearFirst
    <3>4. trigger # None => Untouched(trigger) BY <2>2, <3>1 DEF Fresh, Untouched, Staged, Restoring
    <3> QED BY <3>1, <3>3, <3>4 DEF Accounted, Untouched
  <2>3. CASE pc = "apply.clear"
    <3>1. UNCHANGED parts /\ parts = backup[target] BY <2>1, <2>3 DEF CutWrite, Written
    <3>2. trigger' = trigger BY <1>16, <2>3 DEF PowerLoss, LoseClearing, updater
    <3>3. trigger # None => Untouched(trigger) BY <2>3, <3>1 DEF Fresh, Untouched, Staged, Applying
    <3> QED BY <3>1, <3>2, <3>3 DEF Accounted, Untouched
  <2>4. CASE pc \in {"accept.unlink", "accept.sync"}
    <3>1. UNCHANGED <<parts, trigger, selected>>
      BY <1>16, <2>1, <2>4 DEF PowerLoss, CutWrite, LoseAcceptance, updater
    <3>2. selected = target BY <2>4 DEF Entered, Sessions
    <3>3. CASE pending' = target
      <4>1. trigger # None /\ trigger # target => Untouched(trigger)
        BY <1>0, <2>4, <3>2 DEF Accounted, Kept, Entered, Sessions
      <4> QED BY <3>1, <3>3, <4>1 DEF Accounted, Untouched
    <3>4. CASE pending' # target
      <4>1. pc = "accept.sync" /\ pending' = pending /\ pending = None
        BY <1>16, <2>4, <3>4 DEF PowerLoss, LoseAcceptance, Entered
      <4>2. phase' = phase BY <1>16, <2>4, <4>1 DEF PowerLoss, LoseAcceptance, TypeOK
      <4> QED BY <2>1, <3>1, <4>1, <4>2, Carried DEF store, Applying, Restoring
    <3> QED BY <3>3, <3>4
  <2>5. CASE pc \in {"apply.write", "apply.rollback"}
    <3>1. UNCHANGED <<pending, trigger>> BY <1>16, <2>5 DEF PowerLoss, store, updater
    <3>2. pending = target /\ trigger = target BY <2>5 DEF Marked, Applying
    <3> QED BY <3>1, <3>2 DEF Accounted
  <2>6. CASE pc = "restore.write"
    <3>1. UNCHANGED <<pending, trigger>> BY <1>16, <2>6 DEF PowerLoss, store, updater
    <3>2. NextPart \in todo /\ todo \subseteq Partitions BY <2>6, PartOrder DEF Staged, TypeOK
    <3>3. PICK i \in {Torn, parts[NextPart], backup[target][NextPart]} : parts' = [parts EXCEPT ![NextPart] = i]
      BY <2>1, <2>6, <3>2 DEF CutWrite, TypeOK, BootSets
    <3>4. trigger # None => trigger # Torn BY SlotAssumption DEF TypeOK, Systems
    <3>5. trigger # None /\ Untouched(trigger) => Untouched(trigger)'
      BY <2>6, <3>1, <3>2, <3>3, <3>4 DEF Untouched, Fresh, TypeOK, BootSets, Staged, Restoring
    <3> QED BY <2>6, <3>1, <3>5 DEF Accounted, Kept, Restoring
  <2>7. CASE pc \notin {"restore.clear", "apply.clear", "accept.unlink", "accept.sync", "apply.write", "apply.rollback", "restore.write"}
    <3>1. UNCHANGED <<parts, store, phase, trigger>> BY <1>16, <2>1, <2>7 DEF PowerLoss, CutWrite, updater
    <3> QED BY <2>1, <3>1, Carried DEF Applying, Restoring
  <2> QED BY <2>2, <2>3, <2>4, <2>5, <2>6, <2>7
<1>17. CASE UNCHANGED vars
  <2>1. UNCHANGED <<parts, store, phase, oldHook, trigger, pc>> BY <1>17 DEF vars, updater, still
  <2> QED BY <2>1, Carried DEF Kept
<1> QED
  BY <1>1, <1>2, <1>3, <1>4, <1>5, <1>6, <1>7, <1>8, <1>9, <1>10, <1>11, <1>12, <1>13, <1>14, <1>15, <1>16, <1>17
  DEF Next, EarlyBoot, Apply, Accept, Bricked

\* What the partitions hold of a slot, from its staging on.
THEOREM SettledHolds == Spec => [](TInv /\ Aimed /\ Fresh /\ Accounted)
<1>1. Init => Aimed /\ Fresh /\ Accounted
  BY SlotAssumption DEF Init, Aimed, Fresh, Accounted, Applying, Sessions
<1>2. TInv /\ Aimed /\ Fresh /\ Accounted /\ [Next]_vars => (Aimed /\ Fresh /\ Accounted)'
  BY AimedPreserved, FreshPreserved, AccountedPreserved DEF TInv
<1> QED BY <1>1, <1>2, TInvHolds, PTL DEF Spec

\* Of the actions only ApplyFailed leaves a failed migration for a restart, and none of
\* the slot's images is left then.
THEOREM FailedAlwaysRestored == Spec => FailedApplyRestartsRestored
<1>1. TInv /\ Aimed /\ Fresh /\ Accounted /\ [Next]_vars
      => [pc = "apply.failed" /\ pc' = "off" /\ losses' = losses => \A p \in Partitions : parts[p] # target]_vars
  <2> SUFFICES ASSUME TInv, Aimed, Accounted, [Next]_vars, pc = "apply.failed", pc' = "off", losses' = losses
               PROVE  \A p \in Partitions : parts[p] # target
    OBVIOUS
  <2>1. target \in Slots /\ trigger = target BY DEF TInv, IInv, Staged, Aimed, Applying
  <2>2. ~PowerLoss
    <3>1. losses \in Nat BY SlotAssumption DEF TInv, IInv, TypeOK
    <3> QED BY <3>1 DEF PowerLoss
  <2>3. ApplyFailed
    BY <2>2 DEF Next, EarlyBoot, Apply, Accept, vars, Bricked, Boot, HookRestore, HookTry, HookOriginal, HookEnter,
       HookMismatch, RestoreCheck, RestorePart, RestorePartFails, RestoreClear, ApplyBegin, ApplyClone, ApplyPackages,
       CommitBackup, CommitReady, CommitPending, CommitPart, CommitPartFails, CommitSelect, CommitSelectFails,
       RollbackPart, RollbackPartFails, RollbackClear, ApplyDone, ApplyRaises, AcceptResult, AcceptUnlink, AcceptSync,
       Publish, Prepare, Restart, ThroughAndroid, Sessions
  <2>4. pending = None BY <2>3 DEF ApplyFailed, Stop
  <2>5. Untouched(trigger)
    <3>1. trigger # None BY <2>1, SlotAssumption DEF Systems
    <3> QED BY <3>1, <2>4 DEF Accounted, Kept, Applying
  <2> QED BY <2>1, <2>5 DEF Untouched
<1> QED BY <1>1, SettledHolds, PTL DEF Spec, FailedApplyRestartsRestored

\* Nothing that early boot or a migration would stop for is ever missing: the selected
\* slot has its ready file and its root, a restore has its backup, and a loop over
\* partitions has one left to write.
NothingMissing ==
  /\ pc = "hook.select" /\ selected # None => ready[selected] /\ root[selected] = "complete"
  /\ pc = "restore.check" => backup[target] # NoBackup
  /\ pc \in {"restore.write", "apply.write", "apply.rollback"} => todo # {}

\* A rollback starts with all partitions and leaves its loop with the last of them.
LEMMA RollbackNonempty ==
  ASSUME IInv, pc = "apply.rollback" => todo # {}, [Next]_vars
  PROVE  (pc = "apply.rollback" => todo # {})'
<1> USE DEF store, updater, slotFiles, verdict, still
<1>1. CASE CommitPartFails BY <1>1 DEF CommitPartFails, Partitions
<1>2. CASE CommitSelectFails BY <1>2 DEF CommitSelectFails, Partitions
<1>3. CASE \E p \in Partitions : RollbackPart(p) BY <1>3 DEF RollbackPart
<1>4. CASE \E p \in Partitions : RollbackPartFails(p) BY <1>4 DEF RollbackPartFails
<1>5. CASE UNCHANGED vars BY <1>5 DEF vars
<1> QED
  BY <1>1, <1>2, <1>3, <1>4, <1>5
  DEF Next, EarlyBoot, Apply, Accept, Bricked, Goto, Stop,
      Boot, BootOriginal, HookRestore, HookTry, HookOriginal, HookEnter, HookMismatch,
      RestoreCheck, RestorePart, RestorePartFails, RestoreClear,
      ApplyBegin, ApplyClone, ApplyPackages, CommitBackup, CommitReady, CommitPending, CommitPart,
      CommitSelect, RollbackClear, ApplyDone, ApplyRaises, ApplyFailed,
      AcceptResult, AcceptUnlink, AcceptSync, Publish, Prepare, Restart, ThroughAndroid, PowerLoss

\* The hook's messages about an incomplete slot or a missing backup are never shown,
\* wherever power was lost before: what a marker names is whole (Named).
THEOREM NeverMissing == Spec => []NothingMissing
<1>1. Init => (pc = "apply.rollback" => todo # {}) BY DEF Init
<1>2. TInv /\ (pc = "apply.rollback" => todo # {}) => NothingMissing
  <2> SUFFICES ASSUME TInv, pc = "apply.rollback" => todo # {} PROVE NothingMissing OBVIOUS
  <2> USE DEF TInv, IInv
  <2>1. ASSUME pc = "hook.select", selected # None PROVE ready[selected] /\ root[selected] = "complete"
    <3>1. selected \in Slots BY <2>1 DEF TypeOK
    <3> QED BY <3>1 DEF Named, Names, Whole
  <2>2. ASSUME pc = "restore.check" PROVE backup[target] # NoBackup
    <3>1. target \in Slots BY <2>2 DEF Staged, Restoring
    <3>2. Names(target) BY <2>2 DEF Marked, Restoring, Names
    <3>3. backup[target]["boot"] # None BY <3>1, <3>2, SlotAssumption DEF Named, Whole, BootSets, Systems, Partitions
    <3> QED BY <3>3 DEF NoBackup, Partitions
  <2> QED BY <2>1, <2>2 DEF NothingMissing, Staged
<1>3. TInv /\ [Next]_vars /\ (pc = "apply.rollback" => todo # {}) => (pc = "apply.rollback" => todo # {})'
  BY RollbackNonempty DEF TInv
<1> QED BY <1>1, <1>2, <1>3, TInvHolds, PTL DEF Spec

\* Nobody has to act: a session is up, or the device stopped and says why.
AtRest == Sessions \cup {"original"} \cup Halted

\* How many partitions are still to be written.
Left ==
  LET One(p) == IF p \in todo THEN 1 ELSE 0
  IN One("init_boot") + One("boot") + One("vendor_boot") + One("dtbo")

\* How far a start of the device, or a migration, is from its end.
Ahead ==
  CASE pc = "off" -> 20
    [] pc = "hook" -> 19
    [] pc = "hook.select" -> 18
    [] pc = "restore.check" -> 17
    [] pc = "restore.write" -> 12 + Left
    [] pc = "restore.clear" -> 11
    [] pc = "apply.start" -> 25
    [] pc = "apply.clone" -> 24
    [] pc = "apply.packages" -> 23
    [] pc = "apply.backup" -> 22
    [] pc = "apply.flush" -> 21
    [] pc = "apply.pending" -> 20
    [] pc = "apply.write" -> 15 + Left
    [] pc = "apply.select" -> 15
    [] pc = "apply.rollback" -> 10 + Left
    [] pc = "apply.clear" -> 10
    [] pc = "apply.done" -> 9
    [] pc = "apply.failed" -> 8
    [] OTHER -> 0

\* What is left to be undertaken at all: a staged migration, its run, the markers that a
\* restore clears. A step that goes back to the start of the device takes one of them away.
Undertakings ==
  IF pc \in Applying THEN 2
  ELSE IF trigger # None THEN 3
  ELSE IF pending # None \/ selected # None THEN 1
  ELSE 0

Distance == 30 * Undertakings + Ahead

Closer == pc \notin AtRest /\ losses' = losses => Distance' < Distance

\* A partition that was written is one less to write.
LEMMA LeftFewer ==
  ASSUME NEW p \in todo, todo \in SUBSET Partitions, todo' = todo \ {p}
  PROVE  Left \in 1..4 /\ Left' = Left - 1
BY DEF Left, Partitions

\* A loop starts with all four.
LEMMA LeftAll == ASSUME todo' = Partitions PROVE Left' = 4
BY DEF Left, Partitions

\* There are never more than four.
LEMMA LeftBound == Left \in 0..4
BY DEF Left

\* Both parts of the distance are small numbers.
LEMMA Bounds == Ahead \in 0..29 /\ Ahead' \in 0..29 /\ Undertakings \in 0..3 /\ Undertakings' \in 0..3
<1>1. Undertakings \in 0..3 /\ Undertakings' \in 0..3 BY DEF Undertakings
<1>2. Left \in 0..4 /\ Left' \in 0..4 BY DEF Left
<1>3. Ahead \in 0..29 BY <1>2 DEF Ahead
<1>4. Ahead' \in 0..29 BY <1>2 DEF Ahead
<1> QED BY <1>1, <1>3, <1>4

\* Fewer undertakings outweigh whatever is still to do in one.
LEMMA Lexicographic ==
  ASSUME NEW a \in 0..29, NEW b \in 0..29, NEW u \in 0..3, NEW v \in 0..3, v < u \/ (v = u /\ b < a)
  PROVE  30 * v + b < 30 * u + a
OBVIOUS

\* A step ends an undertaking, or comes closer to the end of the same one.
LEMMA Nearer ==
  ASSUME Undertakings' < Undertakings \/ (Undertakings' = Undertakings /\ Ahead' < Ahead) PROVE Distance' < Distance
BY Bounds, Lexicographic DEF Distance

\* The markers and the trigger are left alone by early boot and, within a migration, do not count.
LEMMA SameUndertakings ==
  ASSUME \/ pc \in Applying /\ pc' \in Applying
         \/ pc \notin Applying /\ pc' \notin Applying /\ UNCHANGED <<trigger, pending, selected>>
  PROVE  Undertakings' = Undertakings
BY DEF Undertakings

\* Early boot comes closer to a session or to a halt.
LEMMA BootsCloser == ASSUME TInv, EarlyBoot, pc \notin AtRest PROVE Distance' < Distance
<1> USE DEF store, updater, Goto, Stop, Applying
<1>0. TypeOK /\ todo \in SUBSET Partitions BY DEF TInv, IInv, TypeOK
<1>1. ASSUME BootOriginal, pc \in {"off", "hook.select"} PROVE Distance' < Distance
  <2>1. CASE trigger = None
    <3>1. pc' = "original" /\ UNCHANGED <<trigger, pending, selected>> BY <1>1, <2>1 DEF BootOriginal
    <3>2. Undertakings' = Undertakings BY <1>1, <3>1, SameUndertakings
    <3>3. Ahead' < Ahead BY <1>1, <3>1 DEF Ahead
    <3> QED BY <3>2, <3>3, Nearer
  <2>2. CASE trigger # None
    <3>1. pc' = "apply.start" BY <1>1, <2>2 DEF BootOriginal
    <3>2. Undertakings = 3 /\ Undertakings' = 2 BY <1>1, <2>2, <3>1 DEF Undertakings
    <3> QED BY <3>2, Nearer
  <2> QED BY <2>1, <2>2
<1>2. CASE Boot
  <2>1. CASE BootOriginal BY <1>1, <1>2, <2>1 DEF Boot
  <2>2. CASE ~BootOriginal
    <3>1. pc = "off" /\ pc' \in {"bricked", "hook"} /\ UNCHANGED <<trigger, pending, selected>> BY <1>2, <2>2 DEF Boot
    <3>2. Undertakings' = Undertakings BY <3>1, SameUndertakings
    <3>3. Ahead' < Ahead BY <3>1 DEF Ahead
    <3> QED BY <3>2, <3>3, Nearer
  <2> QED BY <2>1, <2>2
<1>3. CASE HookOriginal BY <1>1, <1>3 DEF HookOriginal
<1>4. CASE HookRestore \/ HookTry \/ HookEnter \/ HookMismatch
  <2>1. /\ \/ pc = "hook" /\ pc' \in {"restore.check", "hook.select"}
           \/ pc = "hook.select" /\ pc' \in {"slot", "restore.check"}
        /\ UNCHANGED <<trigger, pending, selected>>
    BY <1>4 DEF HookRestore, HookTry, HookEnter, HookMismatch
  <2>2. Undertakings' = Undertakings BY <2>1, SameUndertakings
  <2>3. Ahead' < Ahead BY <2>1 DEF Ahead
  <2> QED BY <2>2, <2>3, Nearer
<1>5. CASE RestoreCheck
  <2>1. pc = "restore.check" /\ UNCHANGED <<trigger, pending, selected>>
        /\ (pc' = "panic" \/ (pc' = "restore.write" /\ todo' = Partitions))
    BY <1>5 DEF RestoreCheck
  <2>2. Undertakings' = Undertakings BY <2>1, SameUndertakings
  <2>3. Ahead' < Ahead BY <2>1, LeftAll DEF Ahead
  <2> QED BY <2>2, <2>3, Nearer
<1>6. CASE RestorePart
  <2>1. pc = "restore.write" /\ pc' \in {"restore.write", "restore.clear"} /\ UNCHANGED <<trigger, pending, selected>>
        /\ todo' = todo \ {NextPart}
    BY <1>6 DEF RestorePart
  <2>2. NextPart \in todo BY <1>0, <1>6, PartOrder DEF RestorePart
  <2>3. Left \in 1..4 /\ Left' = Left - 1 BY <1>0, <2>1, <2>2, LeftFewer
  <2>4. Undertakings' = Undertakings BY <2>1, SameUndertakings
  <2>5. Ahead' < Ahead BY <2>1, <2>3 DEF Ahead
  <2> QED BY <2>4, <2>5, Nearer
<1>7. CASE RestorePartFails
  <2>1. pc = "restore.write" /\ pc' = "panic" /\ UNCHANGED <<trigger, pending, selected>> BY <1>7 DEF RestorePartFails
  <2>2. Undertakings' = Undertakings BY <2>1, SameUndertakings
  <2>3. Ahead' < Ahead BY <2>1, LeftBound DEF Ahead
  <2> QED BY <2>2, <2>3, Nearer
<1>8. CASE RestoreClear
  <2>1. pc = "restore.clear" /\ pc' = "off" /\ trigger' = None /\ pending' = None /\ selected' = None
    BY <1>8 DEF RestoreClear, ClearFirst
  <2>2. Undertakings' = 0 BY <2>1 DEF Undertakings
  <2>3. target \in Slots /\ (pending = target \/ selected = target) BY <2>1 DEF TInv, IInv, Staged, Marked, Restoring
  <2>4. Undertakings \in {1, 3} BY <2>1, <2>3, SlotAssumption DEF Undertakings, Systems
  <2> QED BY <2>2, <2>4, Nearer
<1> QED BY <1>2, <1>3, <1>4, <1>5, <1>6, <1>7, <1>8 DEF EarlyBoot

\* So does a migration, whether it commits or is rolled back.
LEMMA AppliesCloser == ASSUME TInv, Apply PROVE Distance' < Distance
<1> USE DEF store, updater, Goto, Stop
<1>0. TypeOK /\ todo \in SUBSET Partitions BY DEF TInv, IInv, TypeOK
<1>1. ASSUME pc \in Applying, pc' \in Applying, Ahead' < Ahead PROVE Distance' < Distance
  BY <1>1, SameUndertakings, Nearer
<1>2. ASSUME pc \in Applying, pc' \notin Applying, trigger' = None PROVE Distance' < Distance
  <2>1. Undertakings = 2 /\ Undertakings' \in 0..1 BY <1>2 DEF Undertakings
  <2> QED BY <2>1, Nearer
<1>3. CASE ApplyBegin \/ ApplyClone \/ ApplyPackages \/ CommitBackup \/ CommitReady \/ CommitSelect \/ RollbackClear
  <2>1. \/ pc = "apply.start" /\ pc' = "apply.clone"
        \/ pc = "apply.clone" /\ pc' = "apply.packages"
        \/ pc = "apply.packages" /\ pc' = "apply.backup"
        \/ pc = "apply.backup" /\ pc' = "apply.flush"
        \/ pc = "apply.flush" /\ pc' = "apply.pending"
        \/ pc = "apply.select" /\ pc' = "apply.done"
        \/ pc = "apply.clear" /\ pc' = "apply.failed"
    BY <1>3 DEF ApplyBegin, ApplyClone, ApplyPackages, CommitBackup, CommitReady, CommitSelect, RollbackClear
  <2>2. Ahead' < Ahead BY <2>1 DEF Ahead
  <2> QED BY <1>1, <2>1, <2>2 DEF Applying
<1>4. CASE CommitPending
  <2>1. pc = "apply.pending" /\ pc' = "apply.write" /\ todo' = Partitions BY <1>4 DEF CommitPending
  <2>2. Ahead' < Ahead BY <2>1, LeftAll DEF Ahead
  <2> QED BY <1>1, <2>1, <2>2 DEF Applying
<1>5. CASE CommitPart
  <2>1. pc = "apply.write" /\ pc' \in {"apply.write", "apply.select"} /\ todo' = todo \ {NextPart} BY <1>5 DEF CommitPart
  <2>2. NextPart \in todo BY <1>0, <2>1, PartOrder DEF TInv, IInv, Staged
  <2>3. Left \in 1..4 /\ Left' = Left - 1 BY <1>0, <2>1, <2>2, LeftFewer
  <2>4. Ahead' < Ahead BY <2>1, <2>3 DEF Ahead
  <2> QED BY <1>1, <2>1, <2>4 DEF Applying
<1>6. CASE CommitPartFails \/ CommitSelectFails
  <2>1. pc \in {"apply.write", "apply.select"} /\ pc' = "apply.rollback" /\ todo' = Partitions
    BY <1>6 DEF CommitPartFails, CommitSelectFails
  <2>2. Ahead' = 14 BY <2>1, LeftAll DEF Ahead
  <2>3. Ahead \in 15..19 BY <2>1, LeftBound DEF Ahead
  <2> QED BY <1>1, <2>1, <2>2, <2>3 DEF Applying
<1>7. CASE \E p \in Partitions : RollbackPart(p)
  <2> PICK p \in Partitions : RollbackPart(p) BY <1>7
  <2>1. pc = "apply.rollback" /\ pc' \in {"apply.rollback", "apply.clear"} /\ p \in todo /\ todo' = todo \ {p} BY DEF RollbackPart
  <2>2. Left \in 1..4 /\ Left' = Left - 1 BY <1>0, <2>1, LeftFewer
  <2>3. Ahead' < Ahead BY <2>1, <2>2 DEF Ahead
  <2> QED BY <1>1, <2>1, <2>3 DEF Applying
<1>8. CASE \E p \in Partitions : RollbackPartFails(p)
  <2>1. pc = "apply.rollback" /\ pc' = "apply.failed" BY <1>8 DEF RollbackPartFails
  <2>2. Ahead' < Ahead BY <2>1, LeftBound DEF Ahead
  <2> QED BY <1>1, <2>1, <2>2 DEF Applying
<1>9. CASE ApplyRaises
  <2>1. pc \in Applying \ {"apply.write", "apply.select", "apply.rollback", "apply.failed"} /\ pc' = "apply.failed"
    BY <1>9 DEF ApplyRaises, Applying
  <2>2. Ahead' < Ahead BY <2>1 DEF Ahead, Applying
  <2> QED BY <1>1, <2>1, <2>2 DEF Applying
<1>10. CASE ApplyDone \/ ApplyFailed
  <2>1. pc \in Applying /\ pc' \notin Applying /\ trigger' = None BY <1>10 DEF ApplyDone, ApplyFailed, Applying
  <2> QED BY <1>2, <2>1
<1> QED BY <1>3, <1>4, <1>5, <1>6, <1>7, <1>8, <1>9, <1>10 DEF Apply

\* No restart loop: until a session is up or the device has stopped, every step but a
\* loss of power comes closer to that, counting restores and migrations that are still
\* ahead. Between two losses of power at most 119 steps are taken before the device is at rest.
THEOREM ComesCloser == Spec => [][Closer]_vars
<1>1. TInv /\ [Next]_vars => [Closer]_vars
  <2> SUFFICES ASSUME TInv, Next, pc \notin AtRest, losses' = losses PROVE Distance' < Distance \/ UNCHANGED vars
    BY DEF Closer
  <2>1. CASE EarlyBoot BY <2>1, BootsCloser
  <2>2. CASE Apply BY <2>2, AppliesCloser
  <2>3. ~PowerLoss
    <3>1. losses \in Nat BY SlotAssumption DEF TInv, IInv, TypeOK
    <3> QED BY <3>1 DEF PowerLoss
  <2>4. ~(Accept \/ Publish \/ (\E s \in Slots : Prepare(s)) \/ Restart \/ ThroughAndroid)
    BY DEF AtRest, Sessions, Halted, Accept, AcceptResult, AcceptUnlink, AcceptSync, Publish, Prepare, Restart, ThroughAndroid
  <2> QED BY <2>1, <2>2, <2>3, <2>4 DEF Next, Bricked
<1> QED BY <1>1, TInvHolds, PTL DEF Spec

\* The distance is a natural number.
THEOREM DistanceBounded == Distance \in 0..119
BY Bounds DEF Distance
=============================================================================
