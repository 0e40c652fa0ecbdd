-------------------------- MODULE RootMaintenance --------------------------
(***************************************************************************)
(* ubuntu-gts9u-root-maintenance: the service that, inside an accepted     *)
(* root slot, points Android's Ubuntu set at the slot (publish), counts    *)
(* healthy uptime (advance_health) and removes the previous installation   *)
(* after seven such days or when the owner asks for it.                    *)
(*                                                                         *)
(* Every run holds a lock. Runs are interrupted by errors, by the shutdown *)
(* of the system, whose own run records it as clean, and by power losses.  *)
(* Files live twice: fs is what programs see, disk what a power loss       *)
(* leaves. The journal commits at any time, in order; os.sync forces it.   *)
(*                                                                         *)
(* Time is counted in ticks of Ubuntu uptime. What health.json says of     *)
(* time and of boots is kept relative to now: uptime as its distance, boot *)
(* as this boot or an earlier one, clean_boot as being that boot or not.   *)
(***************************************************************************)
EXTENDS Integers

CONSTANTS
  Paths,     \* the old installation's paths: what candidates() lists
  Limit,     \* LIMIT, in ticks
  Cap,       \* the most one run may add, 900 seconds
  MaxFaults  \* bound on power losses and failed runs

ASSUME MaintenanceAssumption == Limit \in Nat /\ Cap \in Nat \ {0} /\ MaxFaults \in Nat

VARIABLES
  up,      \* what runs: "off", "ubuntu" (the slot), "old" or "panic"
  kernel,  \* whether the boot partition holds the kernel that ready names
  fit,     \* what healthy() returns
  since,   \* ticks since the uptime in health.json, up to Cap
  fs, disk,
  run,     \* the step at which the run that holds the lock is
  kind,    \* "timer" or "cleanup"
  after,   \* what the run does after it has published
  streak, onDisk,  \* history: uptime since the last interruption that was recorded; for disk
  broken,  \* history: whether a power loss falls in the time health.json has counted
  faults

running == <<run, kind, after>>
history == <<streak, onDisk, broken>>
vars == <<up, kernel, fit, since, fs, disk, running, history, faults>>

\* Counters stop just above Limit, where nothing tells larger values apart.
Sat(n) == IF n > Limit THEN Limit + 1 ELSE n
Least(m, n) == IF m < n THEN m ELSE n
Count == 0..Limit + 1

\* clean: clean_boot names the boot in boot.
Health == [boot: {"none", "this", "earlier"}, clean: BOOLEAN, seconds: Count, healthy: BOOLEAN]

\* dest: Android's Ubuntu set, a directory until publish makes it a link into the slot;
\* temp: .ubuntu-selected; left: the paths not removed; removed: previous-system-removed.
Files == [dest: {"dir", "none", "link"}, previous: BOOLEAN, temp: BOOLEAN,
          left: SUBSET Paths, removed: BOOLEAN, health: Health]

FirstFiles ==
  [dest |-> "dir", previous |-> FALSE, temp |-> FALSE, left |-> Paths, removed |-> FALSE,
   health |-> [boot |-> "none", clean |-> FALSE, seconds |-> 0, healthy |-> FALSE]]

Init ==
  /\ up = "off" /\ kernel = "ready" /\ fit = TRUE /\ since = 0
  /\ fs = FirstFiles /\ disk = FirstFiles
  /\ run = "idle" /\ kind = "timer" /\ after = "record"
  /\ streak = 0 /\ onDisk = 0 /\ broken = FALSE /\ faults = 0

-----------------------------------------------------------------------------
(* The machine. *)

\* boot_id is new in every boot.
NextBoot(f) == [f EXCEPT !.health.boot = IF @ = "none" THEN @ ELSE "earlier"]

\* The hook enters the slot where the kernel is the one ready names, and otherwise restores
\* the old boot set unless the old system was retired. The uptime of an
\* earlier boot is at any distance from now.
Boot ==
  /\ up = "off"
  /\ up' = IF kernel = "ready" THEN "ubuntu" ELSE IF fs.removed THEN "panic" ELSE "old"
  /\ fs' = NextBoot(fs) /\ disk' = NextBoot(disk)
  /\ since' \in 0..Cap
  /\ UNCHANGED <<kernel, fit, running, history, faults>>

Tick ==
  /\ up = "ubuntu"
  /\ since' = Least(since + 1, Cap)
  /\ streak' = Sat(streak + 1) /\ onDisk' = Sat(onDisk + 1)
  /\ UNCHANGED <<up, kernel, fit, fs, disk, running, broken, faults>>

\* A pending update, a dead display manager, a broken package database.
HealthChanges ==
  /\ up = "ubuntu" /\ fit' = ~fit
  /\ UNCHANGED <<up, kernel, since, fs, disk, running, history, faults>>

\* Another kernel is written to the boot partition, by an update or from Android.
KernelReplaced ==
  /\ up \in {"ubuntu", "off"} /\ kernel = "ready" /\ kernel' = "other"
  /\ UNCHANGED <<up, fit, since, fs, disk, running, history, faults>>

Commit ==
  /\ disk # fs /\ disk' = fs /\ onDisk' = streak
  /\ UNCHANGED <<up, kernel, fit, since, fs, running, streak, broken, faults>>

\* root-health-boot's ExecStop runs --shutdown, which gives up when another run still holds
\* the lock; that run is killed, before or after.
Shutdown ==
  /\ up = "ubuntu"
  /\ \/ fs' = [fs EXCEPT !.health.clean = fs.health.boot = "this"]
     \/ run # "idle" /\ UNCHANGED fs
  /\ disk' = fs' /\ onDisk' = streak
  /\ up' = "off" /\ run' = "idle"
  /\ UNCHANGED <<kernel, fit, since, kind, after, streak, broken, faults>>

\* A boot whose first maintenance run reached the disk is found unclean by the next run.
PowerLoss ==
  /\ up = "ubuntu" /\ faults < MaxFaults /\ faults' = faults + 1
  /\ up' = "off" /\ run' = "idle" /\ fs' = disk
  /\ streak' = (IF disk.health.boot = "this" THEN 0 ELSE onDisk) /\ onDisk' = streak'
  /\ broken' = (disk.health.seconds > 0 /\ disk.health.boot # "this")
  /\ UNCHANGED <<kernel, fit, since, disk, kind, after>>

-----------------------------------------------------------------------------
(* One run of main(). *)

Goto(l) == run' = l /\ UNCHANGED <<kind, after>>
machine == <<up, kernel, fit, disk, broken, faults>>

StartTimer ==
  /\ up = "ubuntu" /\ run = "idle"
  /\ run' = "publish" /\ kind' = "timer" /\ after' = "record"
  /\ UNCHANGED <<machine, since, fs, streak, onDisk>>

StartCleanup ==
  /\ up = "ubuntu" /\ run = "idle" /\ ~fs.removed
  /\ run' = "record" /\ kind' = "cleanup" /\ UNCHANGED after
  /\ UNCHANGED <<machine, since, fs, streak, onDisk>>

PublishAlready ==
  /\ run = "publish" /\ fs.dest = "link" /\ Goto(after)
  /\ UNCHANGED <<machine, since, fs, streak, onDisk>>

\* Android's Ubuntu set is kept as the slot's previous-boot-set.
PublishRetain ==
  /\ run = "publish" /\ fs.dest = "dir" /\ ~fs.previous
  /\ fs' = [fs EXCEPT !.dest = "none", !.previous = TRUE] /\ Goto("link")
  /\ UNCHANGED <<machine, since, streak, onDisk>>

PublishAgain ==
  /\ run = "publish" /\ fs.dest = "none" /\ Goto("link")
  /\ UNCHANGED <<machine, since, fs, streak, onDisk>>

PublishLink ==
  /\ run = "link" /\ ~fs.temp
  /\ fs' = [fs EXCEPT !.temp = TRUE] /\ Goto("replace")
  /\ UNCHANGED <<machine, since, streak, onDisk>>

\* A publication that was cut short between the link and its renaming is not taken up.
PublishUnfinished ==
  /\ run = "link" /\ fs.temp /\ Goto("idle")
  /\ UNCHANGED <<machine, since, fs, streak, onDisk>>

PublishReplace ==
  /\ run = "replace"
  /\ fs' = [fs EXCEPT !.temp = FALSE, !.dest = "link"] /\ Goto("sync")
  /\ UNCHANGED <<machine, since, streak, onDisk>>

PublishSync ==
  /\ run = "sync" /\ disk' = fs /\ onDisk' = streak /\ Goto(after)
  /\ UNCHANGED <<up, kernel, fit, since, fs, streak, broken, faults>>

\* The run recorded last belongs to another boot that was not shut down cleanly.
Unclean == fs.health.boot = "earlier" /\ ~fs.health.clean

\* Mutant: what was healthy is not remembered, so nothing is ever gained.
GainedNever == 0

\* Mutant: the uptime of an earlier boot is subtracted, without a floor of zero.
GainedAcrossBoots ==
  IF fit /\ fs.health.healthy THEN (IF fs.health.boot = "this" THEN since ELSE since - Cap) ELSE 0

Gained == IF fit /\ fs.health.healthy /\ fs.health.boot = "this" THEN since ELSE 0

\* Mutant: an unclean restart goes unnoticed.
AdvancedTrusting == [fs.health EXCEPT
  !.seconds = Sat((IF fit THEN @ ELSE 0) + Gained), !.boot = "this", !.clean = FALSE,
  !.healthy = fit]

\* advance_health.
Advanced == [fs.health EXCEPT
  !.seconds = Sat((IF ~fit \/ Unclean THEN 0 ELSE @) + Gained), !.boot = "this", !.clean = FALSE,
  !.healthy = fit]

Due == (kind = "cleanup" \/ fs'.health.seconds > Limit) /\ ~fs.removed /\ fit

\* Mutant: the removal does not publish first.
RecordUnpublished ==
  /\ run = "record"
  /\ fs' = [fs EXCEPT !.health = Advanced]
  /\ since' = 0
  /\ streak' = (IF ~fit THEN 0 ELSE streak) /\ UNCHANGED onDisk
  /\ broken' = (broken /\ fs'.health.seconds > 0)
  /\ run' = (IF Due THEN "delete" ELSE "idle") /\ UNCHANGED after
  /\ UNCHANGED <<up, kernel, fit, disk, faults, kind>>

\* health.json is replaced; the run goes on to the removal when it is due. A removal asked
\* for while the system is not healthy is refused.
Record ==
  /\ run = "record"
  /\ fs' = [fs EXCEPT !.health = Advanced]
  /\ since' = 0
  /\ streak' = (IF ~fit THEN 0 ELSE streak) /\ UNCHANGED onDisk /\ broken' = (broken /\ fs'.health.seconds > 0)
  /\ IF Due THEN run' = "publish" /\ after' = "delete" ELSE run' = "idle" /\ UNCHANGED after
  /\ UNCHANGED <<up, kernel, fit, disk, faults, kind>>

Delete ==
  /\ run = "delete" /\ fs.left # {}
  /\ \E p \in fs.left : fs' = [fs EXCEPT !.left = @ \ {p}]
  /\ UNCHANGED <<machine, running, since, streak, onDisk>>

\* Mutant: the marker does not wait for the last path.
MarkRemovedEarly ==
  /\ run = "delete"
  /\ fs' = [fs EXCEPT !.removed = TRUE] /\ Goto("idle")
  /\ UNCHANGED <<machine, since, streak, onDisk>>

MarkRemoved ==
  /\ run = "delete" /\ fs.left = {}
  /\ fs' = [fs EXCEPT !.removed = TRUE] /\ Goto("idle")
  /\ UNCHANGED <<machine, since, streak, onDisk>>

RunFails ==
  /\ run # "idle" /\ faults < MaxFaults /\ faults' = faults + 1 /\ Goto("idle")
  /\ UNCHANGED <<up, kernel, fit, since, fs, disk, history>>

\* The old system runs again, or nothing does: out of this module's scope.
Over == up \in {"old", "panic"} /\ UNCHANGED vars

Run ==
  \/ PublishAlready \/ PublishRetain \/ PublishAgain \/ PublishLink \/ PublishUnfinished
  \/ PublishReplace \/ PublishSync \/ Record \/ Delete \/ MarkRemoved

Next ==
  \/ Boot \/ Tick \/ HealthChanges \/ KernelReplaced \/ Commit \/ Shutdown \/ PowerLoss
  \/ StartTimer \/ StartCleanup \/ Run \/ RunFails \/ Over

Spec == Init /\ [][Next]_vars

\* Time passes and a run proceeds while Ubuntu is up, and the timer, which fires every ten
\* minutes whatever its last run came to, finds the lock free again and again.
FairSpec == Spec /\ WF_vars(Tick) /\ SF_vars(StartTimer) /\ WF_vars(Run)

-----------------------------------------------------------------------------
(* Properties. *)

TypeOK ==
  /\ up \in {"off", "ubuntu", "old", "panic"}
  /\ kernel \in {"ready", "other"} /\ fit \in BOOLEAN
  /\ since \in 0..Cap /\ fs \in Files /\ disk \in Files
  /\ run \in {"idle", "publish", "link", "replace", "sync", "record", "delete"}
  /\ kind \in {"timer", "cleanup"} /\ after \in {"record", "delete"}
  /\ streak \in Count /\ onDisk \in Count /\ broken \in BOOLEAN /\ faults \in 0..MaxFaults

\* The service removes the old system by itself only after more than LIMIT of Ubuntu uptime
\* without a failed health check or a power loss that a run had a record to notice by:
\* neither sleep between runs, nor a change of boot, nor a lost write adds to the count.
RetiredAfterHealthyWeek == run = "delete" /\ kind = "timer" => streak > Limit

\* Nothing of the old system is removed, on disk or in memory, before Android's Ubuntu set
\* is the slot's and the old set is kept beside it: with the old system goes the only
\* userspace its boot set can start.
RemovalFollowsPublication ==
  \A f \in {fs, disk} : f.left # Paths => f.dest = "link" /\ f.previous

\* The marker of a retired system is written after its last path is gone, so that what the
\* hook refuses to start is never whole, and the hook starts nothing that has the marker.
RetiredIsGone ==
  /\ \A f \in {fs, disk} : f.removed => f.left = {}
  /\ up = "old" => ~fs.removed

\* If Ubuntu stays up and healthy the old system is removed at last, however runs were
\* interrupted before, except for a publication cut short between its two last steps.
EventuallyRetired ==
  <>[](up = "ubuntu" /\ fit) => <>fs.removed \/ <>[]fs.temp

\* "An unclean reboot must reset the seven-day trial" (test-root-maintenance.py:24): no
\* power loss falls in the time after which the old system is removed by itself.
RetiredAfterUnbrokenWeek == run = "delete" /\ kind = "timer" => ~broken
=============================================================================
