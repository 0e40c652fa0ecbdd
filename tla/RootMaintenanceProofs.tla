----------------------- MODULE RootMaintenanceProofs -----------------------
(***************************************************************************)
(* Proofs about RootMaintenance, for any set of paths, any Limit and Cap,  *)
(* and any number of faults.                                               *)
(*                                                                         *)
(* RetiredAfterHealthyWeek rests on Counted: seconds never exceeds the     *)
(* uptime behind it while health.json can be trusted, that is until it     *)
(* names a boot that ended without --shutdown. What is on disk is older    *)
(* than what programs see, so the bound is kept for both.                  *)
(*                                                                         *)
(* The disk is never further than what programs see (Lagging), so nothing  *)
(* on it comes back, and a run that was cut short leaves what the next one *)
(* takes up (Resumable). A run has a number of steps that its own commands *)
(* use up (Ahead).                                                         *)
(***************************************************************************)
EXTENDS RootMaintenance, FiniteSetTheorems, TLAPS

\* The seconds in a file count on, and are not reset, at the next run.
Trusted(f) ==
  f.health.boot = "none" \/ f.health.clean \/ (up = "ubuntu" /\ f.health.boot = "this")

Counted ==
  /\ Trusted(fs) => fs.health.seconds <= streak
  /\ up = "ubuntu" /\ fs.health.boot = "this" => Sat(fs.health.seconds + since) <= streak
  /\ Trusted(disk) /\ ~(up = "ubuntu" /\ disk.health.boot = "this") =>
       disk.health.seconds <= onDisk

\* A file names the running boot as clean only once that boot is over.
NotYetClean ==
  up = "ubuntu" => \A f \in {fs, disk} : f.health.boot = "this" => ~f.health.clean

\* A removal that nobody asked for is due from its start to its end.
StillDue == run # "idle" /\ run # "record" /\ after = "delete" /\ kind = "timer" => streak > Limit

Stepped ==
  /\ run # "idle" => up = "ubuntu"
  /\ run = "delete" => after = "delete" /\ fs.dest = "link"
  /\ run \in {"link", "replace"} => fs.dest = "none"
  /\ run = "sync" => fs.dest = "link"
  /\ \A f \in {fs, disk} : f.dest # "dir" => f.previous
  /\ \A f \in {fs, disk} : f.left # Paths => f.dest = "link"

IInv == TypeOK /\ Counted /\ NotYetClean /\ StillDue /\ Stepped /\ RetiredIsGone

\* Counters stay counters.
LEMMA SatCounts == \A n \in Nat : Sat(n) \in Count
BY MaintenanceAssumption DEF Sat, Count

\* A run that advances the record leaves a record.
LEMMA AdvancedIsHealth == ASSUME TypeOK PROVE Advanced \in Health
<1>1. fs.health \in Health /\ fs.health.seconds \in Nat /\ since \in Nat
  BY MaintenanceAssumption DEF TypeOK, Files, Health, Count
<1>2. (IF ~fit \/ Unclean THEN 0 ELSE fs.health.seconds) + Gained \in Nat BY <1>1 DEF Gained
<1>3. fit \in BOOLEAN BY DEF TypeOK
<1> QED BY <1>1, <1>2, <1>3, SatCounts DEF Advanced, Health

\* Every step leaves well-formed files.
LEMMA FilesPreserved ==
  ASSUME TypeOK, [Next]_vars PROVE fs' \in Files /\ disk' \in Files
<1> fs \in Files /\ disk \in Files BY DEF TypeOK
<1>1. CASE UNCHANGED fs /\ (UNCHANGED disk \/ disk' = fs) BY <1>1
<1>2. CASE Boot BY <1>2 DEF Boot, NextBoot, Files, Health
<1>3. CASE Shutdown
  <2>1. ASSUME NEW c \in BOOLEAN PROVE [fs EXCEPT !.health.clean = c] \in Files
    BY DEF Files, Health
  <2>2. (fs.health.boot = "this") \in BOOLEAN OBVIOUS
  <2>3. fs' \in Files BY <1>3, <2>1, <2>2 DEF Shutdown
  <2> QED BY <1>3, <2>3 DEF Shutdown
<1>4. CASE PowerLoss BY <1>4 DEF PowerLoss
<1>5. CASE PublishRetain BY <1>5 DEF PublishRetain, Files, machine
<1>6. CASE PublishLink BY <1>6 DEF PublishLink, Files, machine
<1>7. CASE PublishReplace BY <1>7 DEF PublishReplace, Files, machine
<1>8. CASE Record BY <1>8, AdvancedIsHealth DEF Record, Files
<1>9. CASE Delete BY <1>9 DEF Delete, Files, machine
<1>10. CASE MarkRemoved BY <1>10 DEF MarkRemoved, Files, machine
<1> QED
  BY <1>1, <1>2, <1>3, <1>4, <1>5, <1>6, <1>7, <1>8, <1>9, <1>10
  DEF Next, Run, Over, vars, running, history, machine, Tick, HealthChanges, KernelReplaced,
      Commit, StartTimer, StartCleanup, PublishAlready, PublishAgain, PublishUnfinished,
      PublishSync, RunFails

\* Every step keeps the types.
LEMMA TypePreserved ==
  ASSUME IInv, [Next]_vars PROVE TypeOK'
<1> TypeOK BY DEF IInv
<1>0. fs' \in Files /\ disk' \in Files BY FilesPreserved
<1> USE MaintenanceAssumption DEF TypeOK, Count, Sat, Least, running, history, machine
<1>1. CASE Boot BY <1>0, <1>1 DEF Boot
<1>2. CASE Tick BY <1>0, <1>2 DEF Tick
<1>3. CASE HealthChanges BY <1>0, <1>3 DEF HealthChanges
<1>4. CASE KernelReplaced BY <1>0, <1>4 DEF KernelReplaced
<1>5. CASE Commit BY <1>0, <1>5 DEF Commit
<1>6. CASE Shutdown BY <1>0, <1>6 DEF Shutdown
<1>7. CASE PowerLoss BY <1>0, <1>7 DEF PowerLoss
<1>8. CASE StartTimer BY <1>0, <1>8 DEF StartTimer
<1>9. CASE StartCleanup BY <1>0, <1>9 DEF StartCleanup
<1>10. CASE PublishAlready BY <1>0, <1>10 DEF PublishAlready, Goto
<1>11. CASE PublishRetain BY <1>0, <1>11 DEF PublishRetain, Goto
<1>12. CASE PublishAgain BY <1>0, <1>12 DEF PublishAgain, Goto
<1>13. CASE PublishLink BY <1>0, <1>13 DEF PublishLink, Goto
<1>14. CASE PublishUnfinished BY <1>0, <1>14 DEF PublishUnfinished, Goto
<1>15. CASE PublishReplace BY <1>0, <1>15 DEF PublishReplace, Goto
<1>16. CASE PublishSync BY <1>0, <1>16 DEF PublishSync, Goto
<1>17. CASE Record BY <1>0, <1>17 DEF Record
<1>18. CASE Delete BY <1>0, <1>18 DEF Delete
<1>19. CASE MarkRemoved BY <1>0, <1>19 DEF MarkRemoved, Goto
<1>20. CASE RunFails BY <1>0, <1>20 DEF RunFails, Goto
<1>21. CASE UNCHANGED vars BY <1>21 DEF vars
<1> QED
  BY <1>1, <1>2, <1>3, <1>4, <1>5, <1>6, <1>7, <1>8, <1>9, <1>10, <1>11, <1>12, <1>13,
     <1>14, <1>15, <1>16, <1>17, <1>18, <1>19, <1>20, <1>21
  DEF Next, Run, Over

\* Every step keeps what the position of a run says of the files.
LEMMA SteppedPreserved ==
  ASSUME IInv, [Next]_vars PROVE Stepped'
<1> USE DEF IInv, Stepped, TypeOK, Files, running, history, machine
<1>1. CASE Boot BY <1>1 DEF Boot, NextBoot
<1>2. CASE Tick BY <1>2 DEF Tick
<1>3. CASE HealthChanges BY <1>3 DEF HealthChanges
<1>4. CASE KernelReplaced BY <1>4 DEF KernelReplaced
<1>5. CASE Commit BY <1>5 DEF Commit
<1>6. CASE Shutdown BY <1>6 DEF Shutdown
<1>7. CASE PowerLoss BY <1>7 DEF PowerLoss
<1>8. CASE StartTimer BY <1>8 DEF StartTimer
<1>9. CASE StartCleanup BY <1>9 DEF StartCleanup
<1>10. CASE PublishAlready BY <1>10 DEF PublishAlready, Goto
<1>11. CASE PublishRetain BY <1>11 DEF PublishRetain, Goto
<1>12. CASE PublishAgain BY <1>12 DEF PublishAgain, Goto
<1>13. CASE PublishLink BY <1>13 DEF PublishLink, Goto
<1>14. CASE PublishUnfinished BY <1>14 DEF PublishUnfinished, Goto
<1>15. CASE PublishReplace BY <1>15 DEF PublishReplace, Goto
<1>16. CASE PublishSync BY <1>16 DEF PublishSync, Goto
<1>17. CASE Record BY <1>17 DEF Record, Due, Advanced
<1>18. CASE Delete BY <1>18 DEF Delete
<1>19. CASE MarkRemoved BY <1>19 DEF MarkRemoved, Goto
<1>20. CASE RunFails BY <1>20 DEF RunFails, Goto
<1>21. CASE UNCHANGED vars BY <1>21 DEF vars
<1> QED
  BY <1>1, <1>2, <1>3, <1>4, <1>5, <1>6, <1>7, <1>8, <1>9, <1>10, <1>11, <1>12, <1>13,
     <1>14, <1>15, <1>16, <1>17, <1>18, <1>19, <1>20, <1>21
  DEF Next, Run, Over

\* Every step keeps the marker of a retired system truthful.
LEMMA GonePreserved ==
  ASSUME IInv, [Next]_vars PROVE RetiredIsGone'
<1> USE DEF IInv, RetiredIsGone, Stepped, TypeOK, Files, running, history, machine
<1>1. CASE Boot BY <1>1 DEF Boot, NextBoot
<1>2. CASE Tick BY <1>2 DEF Tick
<1>3. CASE HealthChanges BY <1>3 DEF HealthChanges
<1>4. CASE KernelReplaced BY <1>4 DEF KernelReplaced
<1>5. CASE Commit BY <1>5 DEF Commit
<1>6. CASE Shutdown BY <1>6 DEF Shutdown
<1>7. CASE PowerLoss BY <1>7 DEF PowerLoss
<1>8. CASE StartTimer BY <1>8 DEF StartTimer
<1>9. CASE StartCleanup BY <1>9 DEF StartCleanup
<1>10. CASE PublishAlready BY <1>10 DEF PublishAlready, Goto
<1>11. CASE PublishRetain BY <1>11 DEF PublishRetain, Goto
<1>12. CASE PublishAgain BY <1>12 DEF PublishAgain, Goto
<1>13. CASE PublishLink BY <1>13 DEF PublishLink, Goto
<1>14. CASE PublishUnfinished BY <1>14 DEF PublishUnfinished, Goto
<1>15. CASE PublishReplace BY <1>15 DEF PublishReplace, Goto
<1>16. CASE PublishSync BY <1>16 DEF PublishSync, Goto
<1>17. CASE Record BY <1>17 DEF Record, Due, Advanced
<1>18. CASE Delete BY <1>18 DEF Delete
<1>19. CASE MarkRemoved BY <1>19 DEF MarkRemoved, Goto
<1>20. CASE RunFails BY <1>20 DEF RunFails, Goto
<1>21. CASE UNCHANGED vars BY <1>21 DEF vars
<1> QED
  BY <1>1, <1>2, <1>3, <1>4, <1>5, <1>6, <1>7, <1>8, <1>9, <1>10, <1>11, <1>12, <1>13,
     <1>14, <1>15, <1>16, <1>17, <1>18, <1>19, <1>20, <1>21
  DEF Next, Run, Over

\* Every step keeps the count below the uptime behind it.
LEMMA CountedPreserved ==
  ASSUME IInv, [Next]_vars PROVE Counted' /\ NotYetClean'
<1> USE MaintenanceAssumption DEF IInv, Counted, NotYetClean, Trusted, TypeOK, Files, Health, Count
<1>1. CASE fs'.health = fs.health /\ UNCHANGED <<up, since, disk, streak, onDisk>>
  BY <1>1
<1>2. CASE Boot BY <1>2 DEF Boot, NextBoot, history
<1>3. CASE Tick BY <1>3 DEF Tick, Least, Sat
<1>4. CASE Commit BY <1>4 DEF Commit, Sat
<1>5. CASE Shutdown BY <1>5 DEF Shutdown
<1>6. CASE PowerLoss BY <1>6 DEF PowerLoss
<1>7. CASE PublishSync BY <1>7 DEF PublishSync, Sat
<1>8. CASE Record
  <2>1. /\ fs'.health = Advanced /\ since' = 0 /\ disk' = disk /\ onDisk' = onDisk /\ up' = up
        /\ streak' = IF ~fit THEN 0 ELSE streak
    BY <1>8 DEF Record
  <2>2. Advanced.boot = "this" /\ Advanced.clean = FALSE
    BY DEF Advanced
  <2>3. Advanced.seconds <= streak'
    <3>1. Advanced.seconds = Sat((IF ~fit \/ Unclean THEN 0 ELSE fs.health.seconds) + Gained)
      BY DEF Advanced
    <3>2. CASE ~fit BY <2>1, <3>1, <3>2 DEF Gained, Sat
    <3>3. CASE fit /\ fs.health.boot = "this" /\ up = "ubuntu"
      BY <2>1, <3>1, <3>3 DEF Gained, Unclean, Sat
    <3>4. CASE fit /\ fs.health.boot # "this" BY <2>1, <3>1, <3>4 DEF Gained, Unclean, Sat
    <3> QED BY <1>8, <3>2, <3>3, <3>4 DEF Record, Stepped
  <2>4. Advanced.seconds \in Count BY AdvancedIsHealth
  <2> QED BY <2>1, <2>2, <2>3, <2>4 DEF Sat
<1> QED
  BY <1>1, <1>2, <1>3, <1>4, <1>5, <1>6, <1>7, <1>8
  DEF Next, Run, Over, vars, running, history, machine, Goto, HealthChanges, KernelReplaced,
      StartTimer, StartCleanup, PublishAlready, PublishRetain, PublishAgain, PublishLink,
      PublishUnfinished, PublishReplace, Delete, MarkRemoved, RunFails

\* Every step keeps an automatic removal due.
LEMMA StillDuePreserved ==
  ASSUME IInv, [Next]_vars PROVE StillDue'
<1> USE MaintenanceAssumption DEF IInv, StillDue, TypeOK, Count
<1>1. CASE Record
  <2>1. CASE Due /\ kind = "timer"
    <3>1. fs'.health.seconds > Limit BY <2>1 DEF Due
    <3>2. up' = "ubuntu" /\ fs'.health.boot = "this" /\ fs'.health.seconds \in Count
      BY <1>1, AdvancedIsHealth DEF Record, Stepped, Advanced, Files, Health
    <3>3. fs'.health.seconds <= streak'
      BY <3>2, CountedPreserved DEF Counted, Trusted
    <3>4. streak' \in Count BY TypePreserved
    <3> QED BY <3>1, <3>2, <3>3, <3>4
  <2>2. CASE ~(Due /\ kind = "timer") BY <1>1, <2>2 DEF Record
  <2> QED BY <2>1, <2>2
<1>2. CASE Tick BY <1>2 DEF Tick, Sat, running
<1>3. CASE StartTimer BY <1>3 DEF StartTimer
<1>4. CASE run' = "idle" BY <1>4
<1>5. CASE UNCHANGED <<after, kind, streak>> /\ (run' \notin {"idle", "record"} => run \notin {"idle", "record"})
  BY <1>5
<1>6. CASE PublishAlready \/ PublishSync BY <1>6 DEF PublishAlready, PublishSync, Goto
<1> QED
  BY <1>1, <1>2, <1>3, <1>4, <1>5, <1>6
  DEF Next, Run, Over, vars, running, history, machine, Goto, Boot, HealthChanges, KernelReplaced,
      Commit, Shutdown, PowerLoss, StartCleanup, PublishRetain, PublishAgain, PublishLink,
      PublishUnfinished, PublishReplace, Delete, MarkRemoved, RunFails

\* The strengthened invariant.
THEOREM IInvHolds == Spec => []IInv
<1>1. Init => IInv
  <2> SUFFICES ASSUME Init PROVE IInv OBVIOUS
  <2> USE MaintenanceAssumption DEF Init
  <2>0. 0 \in Count BY DEF Count
  <2>1. FirstFiles \in Files BY <2>0 DEF FirstFiles, Files, Health
  <2>2. fs \in Files /\ disk \in Files /\ since \in 0..Cap /\ faults \in 0..MaxFaults BY <2>1
  <2>3. fit \in BOOLEAN /\ broken \in BOOLEAN OBVIOUS
  <2>4. streak \in Count /\ onDisk \in Count BY <2>0
  <2> TypeOK BY <2>2, <2>3, <2>4 DEF TypeOK
  <2>5. Counted /\ NotYetClean BY DEF Counted, NotYetClean, Trusted, FirstFiles
  <2>6. StillDue /\ Stepped /\ RetiredIsGone BY DEF StillDue, Stepped, RetiredIsGone, FirstFiles
  <2> QED BY <2>5, <2>6 DEF IInv
<1>2. IInv /\ [Next]_vars => IInv'
  BY TypePreserved, SteppedPreserved, GonePreserved, CountedPreserved, StillDuePreserved DEF IInv
<1> QED BY <1>1, <1>2, PTL DEF Spec

\* The type invariant holds for every instance.
THEOREM TypeCorrect == Spec => []TypeOK
<1>1. IInv => TypeOK BY DEF IInv
<1> QED BY <1>1, IInvHolds, PTL

\* The service never removes the old system by itself before it has counted more than LIMIT
\* of Ubuntu uptime free of failed checks and of power losses it had a record to notice by.
THEOREM RetiredOnTime == Spec => []RetiredAfterHealthyWeek
<1>1. IInv => RetiredAfterHealthyWeek BY DEF IInv, StillDue, Stepped, RetiredAfterHealthyWeek
<1> QED BY <1>1, IInvHolds, PTL

\* Nothing is removed before Android's Ubuntu set is the slot's and the old one is kept.
THEOREM RemovalPublished == Spec => []RemovalFollowsPublication
<1>1. IInv => RemovalFollowsPublication BY DEF IInv, Stepped, RemovalFollowsPublication
<1> QED BY <1>1, IInvHolds, PTL

\* A system marked as retired is gone, and the hook starts none that is.
THEOREM RetiredForGood == Spec => []RetiredIsGone
<1>1. IInv => RetiredIsGone BY DEF IInv
<1> QED BY <1>1, IInvHolds, PTL

-----------------------------------------------------------------------------
(* What reached the disk is never undone. *)

\* g is at least as far on the way from the old installation to the slot as f.
Further(f, g) ==
  /\ g.left \subseteq f.left
  /\ f.removed => g.removed
  /\ f.previous => g.previous
  /\ f.dest = "link" => g.dest = "link"
  /\ f.dest = "none" => g.dest # "dir"

\* What is on disk lags behind what programs see, and Android's old set has one place at a time.
Lagging ==
  /\ Further(disk, fs)
  /\ \A f \in {fs, disk} : f.dest = "dir" => ~f.previous

\* Every step, a power loss included, leaves the disk at least as far as it found it.
LEMMA LaggingPreserved ==
  ASSUME IInv, Lagging, [Next]_vars PROVE Lagging' /\ Further(disk, disk')
<1> USE DEF IInv, Lagging, Further, Stepped, TypeOK, Files, running, history, machine
<1>1. CASE Boot BY <1>1 DEF Boot, NextBoot
<1>2. CASE Tick BY <1>2 DEF Tick
<1>3. CASE HealthChanges BY <1>3 DEF HealthChanges
<1>4. CASE KernelReplaced BY <1>4 DEF KernelReplaced
<1>5. CASE Commit BY <1>5 DEF Commit
<1>6. CASE Shutdown BY <1>6 DEF Shutdown
<1>7. CASE PowerLoss BY <1>7 DEF PowerLoss
<1>8. CASE StartTimer BY <1>8 DEF StartTimer
<1>9. CASE StartCleanup BY <1>9 DEF StartCleanup
<1>10. CASE PublishAlready BY <1>10 DEF PublishAlready, Goto
<1>11. CASE PublishRetain BY <1>11 DEF PublishRetain, Goto
<1>12. CASE PublishAgain BY <1>12 DEF PublishAgain, Goto
<1>13. CASE PublishLink BY <1>13 DEF PublishLink, Goto
<1>14. CASE PublishUnfinished BY <1>14 DEF PublishUnfinished, Goto
<1>15. CASE PublishReplace BY <1>15 DEF PublishReplace, Goto
<1>16. CASE PublishSync BY <1>16 DEF PublishSync, Goto
<1>17. CASE Record BY <1>17 DEF Record
<1>18. CASE Delete BY <1>18 DEF Delete
<1>19. CASE MarkRemoved BY <1>19 DEF MarkRemoved, Goto
<1>20. CASE RunFails BY <1>20 DEF RunFails, Goto
<1>21. CASE UNCHANGED vars BY <1>21 DEF vars
<1> QED
  BY <1>1, <1>2, <1>3, <1>4, <1>5, <1>6, <1>7, <1>8, <1>9, <1>10, <1>11, <1>12, <1>13,
     <1>14, <1>15, <1>16, <1>17, <1>18, <1>19, <1>20, <1>21
  DEF Next, Run, Over

\* The disk lags behind in every behaviour.
LEMMA LaggingHolds == Spec => [](IInv /\ Lagging)
<1>1. Init => Lagging BY DEF Init, FirstFiles, Lagging, Further
<1> QED BY <1>1, LaggingPreserved, IInvHolds, PTL DEF Spec

\* The way from the old installation to the slot is gone one way only: whatever fails or is cut
\* short, no later step brings back on disk a path that is gone, an old set that was retained, a
\* set that was published or a system that was retired (publish, remove_previous).
THEOREM NothingComesBack == Spec => [][Further(disk, disk')]_vars
<1>1. IInv /\ Lagging /\ [Next]_vars => [Further(disk, disk')]_vars BY LaggingPreserved
<1> QED BY <1>1, LaggingHolds, PTL DEF Spec

\* What each step of a run asks of the files it finds.
Resumable ==
  /\ run = "publish" => fs.dest \in {"link", "none"} \/ ~fs.previous
  /\ run \in {"link", "replace"} => fs.dest = "none" /\ fs.previous
  /\ run = "delete" => fs.dest = "link" /\ fs.previous

\* A run that was cut short anywhere leaves files that the next run takes up: it never finds
\* previous-boot-set in its way while Android's own set is still there (publish refuses that), nor
\* Android's set at the place of the link it is about to rename.
THEOREM RunsGoOn == Spec => []Resumable
<1>1. IInv /\ Lagging => Resumable BY DEF IInv, Lagging, Stepped, TypeOK, Files, Resumable
<1> QED BY <1>1, LaggingHolds, PTL

-----------------------------------------------------------------------------
(* Every run ends. *)

\* How many steps a run may still take: what precedes the record, the record, the publication
\* that precedes a removal, the removal of each path and its marker.
Ahead ==
  CASE run = "idle" -> 0
    [] run = "delete" -> 1 + Cardinality(fs.left)
    [] run = "sync" -> (IF after = "delete" THEN 2 ELSE 7) + Cardinality(fs.left)
    [] run = "replace" -> (IF after = "delete" THEN 3 ELSE 8) + Cardinality(fs.left)
    [] run = "link" -> (IF after = "delete" THEN 4 ELSE 9) + Cardinality(fs.left)
    [] run = "publish" -> (IF after = "delete" THEN 5 ELSE 10) + Cardinality(fs.left)
    [] run = "record" -> 6 + Cardinality(fs.left)

\* A step of the run brings its end closer; any other leaves it where it is or is its end.
Closer ==
  IF Run \/ RunFails THEN Ahead' < Ahead
  ELSE run # "idle" => UNCHANGED <<run, after, fs.left>> \/ run' = "idle"

\* What is left can be counted.
LEMMA LeftCounts ==
  ASSUME IsFiniteSet(Paths), TypeOK, TypeOK'
  PROVE  /\ IsFiniteSet(fs.left)
         /\ Cardinality(fs.left) \in Nat /\ Cardinality(fs'.left) \in Nat
<1>1. fs.left \in SUBSET Paths /\ fs'.left \in SUBSET Paths BY DEF TypeOK, Files
<1>2. IsFiniteSet(fs.left) /\ IsFiniteSet(fs'.left) BY <1>1, FS_Subset
<1> QED BY <1>2, FS_CardinalityType

\* Every step of a run is one of those that its end is away.
LEMMA StepCloser ==
  ASSUME IsFiniteSet(Paths), IInv, IInv', Run \/ RunFails PROVE Ahead' < Ahead
<1> DEFINE n == Cardinality(fs.left)
           m == Cardinality(fs'.left)
<1>0. /\ n \in Nat /\ m \in Nat /\ after \in {"record", "delete"} /\ fs \in Files
      /\ IsFiniteSet(fs.left)
  BY LeftCounts DEF IInv, TypeOK
<1> USE <1>0 DEF Goto, Ahead
<1>1. CASE PublishAlready BY <1>1 DEF PublishAlready
<1>2. CASE PublishRetain
  <2>1. fs'.left = fs.left BY <1>2 DEF PublishRetain, Files
  <2> QED BY <1>2, <2>1 DEF PublishRetain
<1>3. CASE PublishAgain BY <1>3 DEF PublishAgain
<1>4. CASE PublishLink
  <2>1. fs'.left = fs.left BY <1>4 DEF PublishLink, Files
  <2> QED BY <1>4, <2>1 DEF PublishLink
<1>5. CASE PublishUnfinished BY <1>5 DEF PublishUnfinished
<1>6. CASE PublishReplace
  <2>1. fs'.left = fs.left BY <1>6 DEF PublishReplace, Files
  <2> QED BY <1>6, <2>1 DEF PublishReplace
<1>7. CASE PublishSync BY <1>7 DEF PublishSync
<1>8. CASE Record
  <2>1. fs'.left = fs.left BY <1>8 DEF Record, Files
  <2>2. run = "record" /\ (run' = "idle" \/ (run' = "publish" /\ after' = "delete")) BY <1>8 DEF Record
  <2> QED BY <2>1, <2>2
<1>9. CASE Delete
  <2>1. PICK p \in fs.left : fs'.left = fs.left \ {p} BY <1>9 DEF Delete, Files
  <2>2. m = n - 1 BY <2>1, FS_RemoveElement
  <2>3. run = "delete" /\ run' = "delete" BY <1>9 DEF Delete, running
  <2> QED BY <2>2, <2>3
<1>10. CASE MarkRemoved BY <1>10 DEF MarkRemoved
<1>11. CASE RunFails
  <2>1. Ahead' = 0 BY <1>11 DEF RunFails
  <2>2. run \in {"publish", "link", "replace", "sync", "record", "delete"} BY <1>11 DEF RunFails, IInv, TypeOK
  <2>3. Ahead \in Nat /\ Ahead > 0 BY <2>2
  <2> HIDE DEF Ahead
  <2> QED BY <2>1, <2>3
<1> QED BY <1>1, <1>2, <1>3, <1>4, <1>5, <1>6, <1>7, <1>8, <1>9, <1>10, <1>11 DEF Run

\* A run takes at most ten steps of its own and one for each path, its commands failing or not and
\* whatever happens to the machine meanwhile: it removes each path once, publishes at most
\* before its record and before its removal, never in a circle, and gives back the lock that
\* the shutdown's run and the next timer's need.
THEOREM RunsEnd ==
  ASSUME IsFiniteSet(Paths)
  PROVE  Spec => [][Closer]_vars /\ [](Ahead \in 0..10 + Cardinality(Paths))
<1>1. ASSUME IInv, IInv', [Next]_vars PROVE [Closer]_vars
  <2>1. CASE Run \/ RunFails BY <1>1, <2>1, StepCloser DEF Closer
  <2>2. CASE ~(Run \/ RunFails)
    <3>1. fs \in Files BY <1>1 DEF IInv, TypeOK
    <3>2. run # "idle" => up = "ubuntu" BY <1>1 DEF IInv, Stepped
    <3>3. run # "idle" => UNCHANGED <<run, after, fs.left>> \/ run' = "idle"
      BY <1>1, <2>2, <3>1, <3>2
      DEF Next, Boot, Tick, HealthChanges, KernelReplaced, Commit, Shutdown, PowerLoss, StartTimer, StartCleanup,
          Over, running, vars
    <3> QED BY <2>2, <3>3 DEF Closer
  <2> QED BY <2>1, <2>2
<1>2. ASSUME IInv PROVE Ahead \in 0..10 + Cardinality(Paths)
  <2>1. fs.left \in SUBSET Paths /\ run \in {"idle", "publish", "link", "replace", "sync", "record", "delete"}
    BY <1>2 DEF IInv, TypeOK, Files
  <2>2. /\ Cardinality(fs.left) \in Nat /\ Cardinality(Paths) \in Nat
        /\ Cardinality(fs.left) <= Cardinality(Paths)
    BY <2>1, FS_Subset, FS_CardinalityType
  <2> QED BY <2>1, <2>2 DEF Ahead
<1> QED BY <1>1, <1>2, IInvHolds, PTL DEF Spec
=============================================================================
