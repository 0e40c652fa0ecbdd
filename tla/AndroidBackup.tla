--------------------------- MODULE AndroidBackup ---------------------------
(***************************************************************************)
(* The Dualboot app on the Android side: it writes a boot set over the     *)
(* four boot partitions (BootSets.write), and keeps the saved Android set  *)
(* equal to the Android in those partitions, which updates and root tools  *)
(* change (BootMaintenance.refresh and refresh-android.sh).                *)
(*                                                                         *)
(* The saved set lives in Ubuntu's file system. It is replaced by two      *)
(* renames, and recoverInterrupted undoes the first where the second is    *)
(* missing. The app's operations exclude each other (synchronized on       *)
(* BootSets), up to the return of write: the restart that may follow it    *)
(* waits for no lock. Root tools, failures of any command and power losses *)
(* wait for nothing. A saved set whose hashes cannot be read is listed     *)
(* without any, as is an incomplete one.                                   *)
(*                                                                         *)
(* An image is a number: the version of Android it belongs to, Ubuntu or   *)
(* Torn. Tools only write versions that were not there before. One Android *)
(* set is known, in Ubuntu's file system, beside Ubuntu's own, which       *)
(* nothing changes: sets placed by hand in /sdcard/BootSets, for which     *)
(* nothing is refreshed, are not modelled.                                 *)
(***************************************************************************)
EXTENDS Integers

CONSTANTS
  Release,    \* the kernel release of an Android version
  MaxChanges, \* bound on updates and on changes by root tools
  MaxFaults,  \* bound on failed commands and power losses
  MaxEvents   \* bound on both together

Ubuntu == 0
Torn == -1
None == -2
Android == 1..MaxChanges + 1

ASSUME BackupAssumption ==
  MaxChanges \in Nat /\ MaxFaults \in Nat /\ MaxEvents \in Nat /\ Release \in [Android -> Nat]

\* PARTITIONS, in the order in which they are hashed, copied and written.
Order == <<"boot", "init_boot", "vendor_boot", "dtbo">>
Parts == {Order[k] : k \in 1..4}

\* A directory of images; a missing one holds none.
Dirs == [Parts -> Android \cup {Ubuntu, Torn, None}]
Missing == [p \in Parts |-> None]
UbuntuSet == [p \in Parts |-> Ubuntu]
Complete(d) == \A p \in Parts : d[p] # None
Systems == {"android", "ubuntu"}

VARIABLES
  up,       \* "off", "android", "ubuntu", or "stuck" where no system starts
  live,     \* the images in the partitions
  uname,    \* the release of the Android kernel that runs
  version,  \* the newest Android version so far
  mount,    \* how Android has mounted Ubuntu's file system
  dirty,    \* whether that file system needs recovery
  set, previous, stage,  \* android, android.previous and android.pending
  named,    \* whether name.txt of the saved set is what this Android calls itself
  due,      \* whether the job of this start of Android has yet to run
  shown, next,  \* the saved sets and the next system as the owner was shown them
  op, i, goal,  \* the app's step, the partition it is at, what it is for
  changed,  \* CHANGED of the script
  expected, \* the hashes read by liveHashes
  current,  \* history: whether live was the staged set when copying ended
  leaving,  \* whether a write that ended is about to restart the tablet
  overtaken, \* history: whether another write began since, and has not ended well
  blind,    \* history: whether a mix was taken for a change for want of Ubuntu's hashes
  faults

saved == <<set, previous, stage, named>>
ui == <<due, shown, next>>
locals == <<goal, changed, expected, current>>
app == <<op, i, locals>>
restart == <<leaving, overtaken>>
rest == <<restart, blind, faults>>
platform == <<up, uname, version, dirty>>
vars == <<live, platform, mount, saved, ui, app, rest>>

Init ==
  /\ up = "off" /\ live \in {[p \in Parts |-> 1], UbuntuSet} /\ uname = 0 /\ version = 1
  /\ mount = "none" /\ dirty = FALSE
  /\ set = [p \in Parts |-> 1] /\ previous = Missing /\ stage = Missing /\ named \in BOOLEAN
  /\ due = FALSE /\ shown = [s \in Systems |-> Missing] /\ next = "none"
  /\ op = "idle" /\ i = 1 /\ goal = "show" /\ changed = FALSE /\ expected = Missing
  /\ current = FALSE /\ leaving = FALSE /\ overtaken = FALSE /\ blind = FALSE /\ faults = 0

Here == Order[i]
Room == version + faults <= MaxEvents
Fault == faults < MaxFaults /\ Room /\ faults' = faults + 1
Goto(o) == op' = o /\ i' = 1
Return ==
  Goto("idle") /\ goal' = "show" /\ changed' = FALSE /\ expected' = Missing /\ current' = FALSE

-----------------------------------------------------------------------------
(* The machine, Ubuntu and the tools of Android. *)

\* A mix of two systems starts as the kernel's system or not at all.
Starts ==
  IF \E p \in Parts : live[p] = Torn THEN {"stuck"}
  ELSE IF live = UbuntuSet THEN {"ubuntu"}
  ELSE IF \A p \in Parts : live[p] \in Android THEN {"android"}
  ELSE {"stuck", IF live["boot"] = Ubuntu THEN "ubuntu" ELSE "android"}

Boot ==
  /\ up = "off" /\ up' \in Starts
  /\ uname' = IF up' = "android" THEN Release[live["boot"]] ELSE 0
  /\ due' = (up' = "android") /\ dirty' = (dirty /\ up' # "ubuntu")
  /\ UNCHANGED <<live, version, mount, saved, shown, next, app, rest>>

\* What dies with Android: the app, its mounts and what it showed.
AndroidEnds ==
  /\ up' = "off" /\ uname' = 0 /\ mount' = "none"
  /\ due' = FALSE /\ shown' = [s \in Systems |-> Missing] /\ next' = "none"
  /\ Return /\ leaving' = FALSE /\ overtaken' = FALSE /\ UNCHANGED blind

Restart ==
  /\ up \in {"android", "ubuntu"} /\ op = "idle" /\ AndroidEnds
  /\ dirty' = (dirty \/ mount = "rw")
  /\ UNCHANGED <<live, version, saved, faults>>

\* An over-the-air update replaces all images from recovery; Android's name changes with it.
Ota ==
  /\ up = "off" /\ \A p \in Parts : live[p] \in Android
  /\ version <= MaxChanges /\ Room /\ version' = version + 1
  /\ live' = [p \in Parts |-> version'] /\ named' = FALSE
  /\ UNCHANGED <<up, uname, dirty, mount, set, previous, stage, ui, app, rest>>

RootTool ==
  /\ up = "android" /\ version <= MaxChanges /\ Room /\ version' = version + 1
  /\ \E p \in Parts : live[p] \in Android /\ live' = [live EXCEPT ![p] = version']
  /\ UNCHANGED <<up, uname, dirty, mount, saved, ui, app, rest>>

\* Ubuntu's own switch writes the saved Android set, as far as it gets.
FromUbuntu ==
  /\ up = "ubuntu" /\ Complete(set)
  /\ \E W \in SUBSET Parts :
       /\ live' = [p \in Parts |-> IF p \in W THEN set[p] ELSE live[p]]
       /\ IF W = Parts THEN UNCHANGED faults ELSE Fault
  /\ AndroidEnds
  /\ UNCHANGED <<version, dirty, saved>>

-----------------------------------------------------------------------------
(* Reading: BootState.read, and what precedes a switch. *)

\* Mutant: an interrupted replacement is not undone.
RecoveredNever == UNCHANGED <<set, previous>>

\* recoverInterrupted, after mountLinuxRoot: a file system that needs recovery may be
\* mounted without it.
Recovered ==
  IF set = Missing /\ previous # Missing /\ mount' # "noload"
  THEN set' = previous /\ previous' = Missing
  ELSE UNCHANGED <<set, previous>>

\* mountLinuxRoot, where it succeeds.
Mounts == IF mount # "none" THEN {mount} ELSE IF dirty THEN {"ro", "noload"} ELSE {"ro"}

StartRead ==
  /\ up = "android" /\ op = "idle"
  /\ \/ mount' \in Mounts /\ Recovered /\ UNCHANGED faults
     \/ mount' \in Mounts \cup {mount} /\ UNCHANGED <<set, previous>> /\ Fault
  /\ dirty' = (dirty /\ mount' \in {"none", "noload"})
  /\ Goto("hash") /\ goal' = "show" /\ due' = FALSE
  /\ UNCHANGED <<live, up, uname, version, stage, named, shown, next, changed, expected, current, restart, blind>>

\* discover: the images of the sets whose hashes can be read, of the others none.
Discover(known) == IF known = Systems THEN UNCHANGED faults ELSE Fault
Saved(s) == IF mount = "none" THEN Missing ELSE IF s = "ubuntu" THEN UbuntuSet ELSE set
Found(known) == [s \in Systems |-> IF s \in known THEN Saved(s) ELSE Missing]

\* The owner picks a system that was shown as complete: where the app believes it is the next
\* one, only a restart is left.
StartSwitch(g) ==
  /\ up = "android" /\ op = "idle" /\ Complete(shown[g])
  /\ Goto("hash") /\ goal' = IF next = g THEN "restart" ELSE g
  /\ UNCHANGED <<live, platform, mount, saved, ui, changed, expected, current, rest>>

\* Mutant: one partition too many.
HashPastEnd ==
  /\ op = "hash"
  /\ expected' = [expected EXCEPT ![Here] = live[Here]]
  /\ IF i <= 4 THEN i' = i + 1 /\ UNCHANGED op ELSE Goto("decide")
  /\ UNCHANGED <<live, platform, mount, saved, ui, goal, changed, current, rest>>

\* liveHashes.
Hash ==
  /\ op = "hash"
  /\ expected' = [expected EXCEPT ![Here] = live[Here]]
  /\ IF i < 4 THEN i' = i + 1 /\ UNCHANGED op ELSE Goto("decide")
  /\ UNCHANGED <<live, platform, mount, saved, ui, goal, changed, current, rest>>

\* After the refresh: a read is shown, a switch goes on.
Proceed ==
  /\ Goto(CASE goal = "show" -> "show" [] goal = "restart" -> "reboot" [] OTHER -> "fresh")
  /\ changed' = FALSE /\ current' = FALSE /\ UNCHANGED <<goal, expected>>

\* Mutant: a switch does not look at the result of the refresh.
RefuseIgnored == Proceed

\* A read goes on whatever a refresh came to, a switch stops.
Refuse == IF goal = "show" THEN Proceed ELSE Return

\* A command before the script fails, the script's first check cannot be made, or the restart is
\* not carried out. Hashes of some partitions identify nothing.
CommandFails ==
  /\ op \in {"hash", "decide", "script", "fresh", "reboot"} /\ Fault /\ Refuse
  /\ UNCHANGED <<live, platform, mount, saved, ui, restart, blind>>

\* identify: the first of the sets that has these hashes; an incomplete set has none.
Identified(sets, h) ==
  IF Complete(sets["android"]) /\ h = sets["android"] THEN "android"
  ELSE IF Complete(sets["ubuntu"]) /\ h = sets["ubuntu"] THEN "ubuntu" ELSE "none"

\* Mutant: a partition of Ubuntu is taken for a change.
MixedNever(sets, h) == FALSE

\* A partition holds the image of Ubuntu, and that is not Android's own.
Mixed(sets, h) ==
  Complete(sets["ubuntu"]) /\ \E p \in Parts :
    h[p] = Ubuntu /\ (Complete(sets["android"]) => sets["android"][p] # Ubuntu)

\* backupDecision. A saved Android that is there is listed, whether or not it could be read.
Decision(sets) ==
  IF Saved("android") = Missing THEN "ambiguous"
  ELSE IF Identified(sets, expected) = "ubuntu"
  THEN IF Complete(sets["android"]) THEN "linux staged" ELSE "ambiguous"
  ELSE IF Mixed(sets, expected) THEN "mixed"
  ELSE IF Identified(sets, expected) = "android" THEN "unchanged" ELSE "changed"

\* refresh, up to the script.
Decide ==
  /\ op = "decide"
  /\ \E known \in SUBSET Systems :
       LET d == Decision(Found(known)) IN
       /\ Discover(known)
       /\ blind' = (blind \/ (d = "changed" /\ "ubuntu" \notin known /\ \E p \in Parts : expected[p] = Ubuntu))
       /\ CASE d \in {"ambiguous", "mixed"} -> Refuse
            [] d = "linux staged" \/ (d = "unchanged" /\ named) -> Proceed
            [] OTHER -> Goto("script") /\ changed' = (d = "changed") /\ UNCHANGED <<goal, expected, current>>
  /\ UNCHANGED <<live, platform, mount, saved, ui, restart>>

-----------------------------------------------------------------------------
(* refresh-android.sh. *)

OwnKernel == live["boot"] \in Android /\ Release[live["boot"]] = uname

\* Before anything is written: no recovery needed, and the kernel of changed images is the
\* running one.
ScriptRefuses ==
  /\ op = "script" /\ (mount = "noload" \/ (changed /\ ~OwnKernel))
  /\ Refuse
  /\ UNCHANGED <<live, platform, mount, saved, ui, rest>>

\* The file system becomes writable; a changed Android is staged, else only named. The saved
\* set exists here (backupDecision), so the script's own recovery has nothing to do.
ScriptStarts ==
  /\ op = "script" /\ mount # "noload" /\ (changed => OwnKernel)
  /\ mount' = "rw"
  /\ IF changed THEN Goto("copy") /\ stage' = Missing /\ UNCHANGED named
     ELSE Goto("finish") /\ named' = TRUE /\ UNCHANGED stage
  /\ UNCHANGED <<live, platform, set, previous, ui, locals, rest>>

Copy ==
  /\ op = "copy"
  /\ stage' = [stage EXCEPT ![Here] = live[Here]]
  /\ IF i < 4 THEN i' = i + 1 /\ UNCHANGED <<op, current>>
     ELSE Goto("check") /\ current' = (live = stage')
  /\ UNCHANGED <<live, platform, mount, set, previous, named, ui, goal, changed, expected, rest>>

\* sha256sum -c expected
Check ==
  /\ op = "check" /\ Goto(IF stage = expected THEN "recheck" ELSE "cleanup")
  /\ UNCHANGED <<live, platform, mount, saved, ui, locals, rest>>

\* Mutant: the partitions are not read again.
RecheckSkipped ==
  /\ op = "recheck" /\ Goto("discard")
  /\ UNCHANGED <<live, platform, mount, saved, ui, locals, rest>>

\* "A concurrent OTA/root tool must not turn the snapshot into a mixed set."
Recheck ==
  /\ op = "recheck"
  /\ IF live[Here] # stage[Here] THEN Goto("cleanup")
     ELSE IF i < 4 THEN i' = i + 1 /\ UNCHANGED op ELSE Goto("discard")
  /\ UNCHANGED <<live, platform, mount, saved, ui, locals, rest>>

\* The staged set is synced, then the copy before the last is removed.
Discard ==
  /\ op = "discard" /\ previous' = Missing /\ Goto("retain")
  /\ UNCHANGED <<live, platform, mount, set, stage, named, ui, goal, changed, expected, current,
                 rest>>

\* Mutant: the saved set is removed rather than retained.
RetainNothing ==
  /\ op = "retain" /\ set' = Missing /\ Goto("promote")
  /\ UNCHANGED <<live, platform, mount, previous, stage, named, ui, goal, changed, expected,
                 current, rest>>

Retain ==
  /\ op = "retain" /\ previous' = set /\ set' = Missing /\ Goto("promote")
  /\ UNCHANGED <<live, platform, mount, stage, named, ui, locals, rest>>

Promote ==
  /\ op = "promote" /\ set' = stage /\ stage' = Missing /\ named' = TRUE /\ Goto("finish")
  /\ UNCHANGED <<live, platform, mount, previous, ui, locals, rest>>

\* The exit trap after success.
Finish ==
  /\ op = "finish" /\ mount' = "ro" /\ Proceed
  /\ UNCHANGED <<live, platform, saved, ui, rest>>

Scripted == {"copy", "check", "recheck", "discard", "retain", "promote", "finish"}

\* What is left of the older copy where its removal is cut short.
Removing ==
  IF op = "discard" THEN previous' \in {previous, [previous EXCEPT !["boot"] = None]} ELSE UNCHANGED previous

ScriptFails ==
  /\ op \in Scripted /\ Fault /\ Goto("cleanup") /\ Removing
  /\ UNCHANGED <<live, platform, mount, set, stage, named, ui, locals, restart, blind>>

\* The exit trap's undoing of the first rename.
Undo ==
  IF set = Missing /\ previous # Missing THEN set' = previous /\ previous' = Missing
  ELSE UNCHANGED <<set, previous>>

\* The exit trap after a failure.
Cleanup ==
  /\ op = "cleanup" /\ mount' = "ro" /\ Refuse /\ Undo
  /\ UNCHANGED <<live, platform, stage, named, ui, rest>>

\* The rename or the remount of either trap fails, or both.
TrapFails ==
  /\ op \in {"finish", "cleanup"} /\ Fault /\ Refuse
  /\ mount' \in {"ro", "rw"} /\ (Undo \/ UNCHANGED <<set, previous>>)
  /\ UNCHANGED <<live, platform, stage, named, ui, restart, blind>>

-----------------------------------------------------------------------------
(* The end of a read, and the writing of a set. *)

Show ==
  /\ op = "show" /\ Return
  /\ \E known \in SUBSET Systems :
       /\ Discover(known)
       /\ shown' = Found(known) /\ next' = Identified(Found(known), expected)
  /\ UNCHANGED <<live, platform, mount, saved, due, restart, blind>>

\* write discovers again: the set must be complete and still the one that was shown.
Fresh ==
  /\ op = "fresh"
  /\ IF Saved(goal) = shown[goal] /\ Complete(Saved(goal))
     THEN Goto("write") /\ overtaken' = leaving /\ UNCHANGED locals ELSE Return /\ UNCHANGED overtaken
  /\ UNCHANGED <<live, platform, mount, saved, ui, leaving, blind, faults>>

Target == Saved(goal)

\* One partition, read back. After the last, write returns, and with it the monitor; the owner may
\* have asked for a restart as well.
Write ==
  /\ op = "write"
  /\ live' = [live EXCEPT ![Here] = Target[Here]]
  /\ IF i < 4 THEN i' = i + 1 /\ UNCHANGED <<op, locals, next, restart>>
     ELSE Return /\ next' = goal /\ leaving' \in {leaving, TRUE} /\ overtaken' = FALSE
  /\ UNCHANGED <<platform, mount, saved, due, shown, blind, faults>>

\* A write under way leaves its partition torn or not.
Tearing ==
  IF op = "write" THEN \E m \in {Torn, live[Here], Target[Here]} : live' = [live EXCEPT ![Here] = m]
  ELSE UNCHANGED live

WriteFails ==
  /\ op = "write" /\ Fault /\ Return /\ Tearing
  /\ UNCHANGED <<platform, mount, saved, ui, restart, blind>>

\* The restart into a system that was written before: the monitor is held until the tablet goes down.
Reboot ==
  /\ op = "reboot" /\ AndroidEnds
  /\ dirty' = (dirty \/ mount = "rw")
  /\ UNCHANGED <<live, version, saved, faults>>

\* The restart after a write goes on without the monitor, whatever another operation is doing.
Leave ==
  /\ leaving /\ AndroidEnds /\ Tearing /\ Removing
  /\ dirty' = (dirty \/ mount = "rw")
  /\ UNCHANGED <<version, set, stage, named, faults>>

-----------------------------------------------------------------------------
\* The renames reach the disk in their order, and any number of them: as if power was lost earlier.
PowerLoss ==
  /\ up \in {"android", "ubuntu"} /\ Fault /\ AndroidEnds /\ Tearing /\ Removing
  /\ dirty' = (dirty \/ mount = "rw" \/ up = "ubuntu")
  /\ UNCHANGED <<version, set, stage, named>>

Stuck == up = "stuck" /\ UNCHANGED vars

App ==
  \/ Hash \/ Decide \/ ScriptRefuses \/ ScriptStarts \/ Copy \/ Check \/ Recheck \/ Discard
  \/ Retain \/ Promote \/ Finish \/ Cleanup \/ Show \/ Fresh \/ Write \/ Reboot

Next ==
  \/ Boot \/ Restart \/ Ota \/ RootTool \/ FromUbuntu \/ PowerLoss \/ Stuck
  \/ StartRead \/ (\E g \in {"ubuntu", "android"} : StartSwitch(g))
  \/ App \/ Leave \/ CommandFails \/ ScriptFails \/ TrapFails \/ WriteFails

Spec == Init /\ [][Next]_vars

\* The app goes on with what it began, and the job of a start gets the lock that every other
\* operation of the app gives back.
FairSpec == Spec /\ WF_vars(App) /\ SF_vars(due /\ StartRead)

-----------------------------------------------------------------------------
(* Properties. *)

TypeOK ==
  /\ up \in {"off", "android", "ubuntu", "stuck"} /\ live \in Dirs /\ expected \in Dirs
  /\ set \in Dirs /\ previous \in Dirs /\ stage \in Dirs /\ shown \in [Systems -> Dirs]
  /\ uname \in Nat /\ version \in Android /\ mount \in {"none", "ro", "rw", "noload"}
  /\ dirty \in BOOLEAN /\ named \in BOOLEAN /\ due \in BOOLEAN
  /\ changed \in BOOLEAN /\ current \in BOOLEAN
  /\ leaving \in BOOLEAN /\ overtaken \in BOOLEAN /\ blind \in BOOLEAN
  /\ next \in {"none", "android", "ubuntu"}
  /\ op \in {"idle", "hash", "decide", "script", "cleanup", "show", "fresh", "write", "reboot"} \cup Scripted
  /\ i \in 1..4 /\ goal \in {"show", "restart", "ubuntu", "android"} /\ faults \in 0..MaxFaults

\* What the owner would get back as Android: the saved set, or else what recovery restores.
Backup == IF set # Missing THEN set ELSE previous

\* An image that the backup may hold: a torn one too (BackupHoldsNoTorn), but never as the kernel's,
\* which is compared with the running one.
Good(p, m) == m \in Android \/ (p # "boot" /\ m = Torn)

\* In every state a failure or a crash can leave, the backup is a complete set, and no image of Ubuntu
\* gets into it, however a switch or its undoing was cut short; but for a refresh of partitions
\* that hold such an image while the saved Ubuntu cannot be hashed.
BackupIsAndroid ==
  \A p \in Parts : Backup[p] # None /\ (blind \/ Good(p, Backup[p]))

\* A staged set that is about to become the backup stood in the partitions, all four images at
\* the same time, though they were hashed, copied and compared one by one while tools wrote.
BackupIsSnapshot == op \in {"discard", "retain", "promote"} => current

\* The backup changes in one step, from one complete set to another that was staged, although
\* it takes a removal and two renames, any of which may be the last before a crash.
BackupReplacedWhole == [][Backup' # Backup => Backup' = stage /\ Complete(stage) /\ current]_vars

\* The partitions hold one system.
Whole == live = UbuntuSet \/ \A p \in Parts : Good(p, live[p])

\* The app never restarts into partitions of two systems: after a failed write it
\* neither restarts nor lets a later restart pass. A restart that follows a write may be overtaken by
\* another write, which it then cuts short or whose failure it ignores; a backup that holds
\* images of Ubuntu is excepted as above.
RestartsWhole == (op = "reboot" \/ (leaving /\ ~overtaken)) /\ ~blind => Whole

\* A replacement that was cut short is undone by the job of the next start of Android, unless
\* the file system is mounted without recovery or Android ends first.
JobRestores ==
  due /\ set = Missing /\ faults = MaxFaults ~> set # Missing \/ mount = "noload" \/ up # "android"

\* "Verify a changed kernel belongs to this running Android before trusting any unknown image,
\* including images left by an interrupted external switch" (refresh-android.sh:29-30): no
\* torn image gets into the backup.
BackupHoldsNoTorn == \A p \in Parts : Backup[p] # Torn
=============================================================================
