------------------------- MODULE AndroidBackupProofs -------------------------
(***************************************************************************)
(* Proofs about AndroidBackup, for any number of updates and failures and  *)
(* any releases. Images of Ubuntu stay out of the backup because the       *)
(* script only runs where the hashes showed none (Scripting), unless it is *)
(* blind to Ubuntu's own, and tools, which are all that writes beside the  *)
(* app, replace Android by Android (Hashed). A restart is not overtaken    *)
(* only where no write is under way (Writing). That the staged set stood   *)
(* in the partitions rests on versions that only grow (Old): a partition   *)
(* that was replaced since it was copied is newer than its copy, and the   *)
(* second reading will find it (Newer).                                    *)
(*                                                                         *)
(* NotOlder says that an image of Android in a partition is as new as the  *)
(* backup's, and that the copies are too: the backup never goes back.      *)
(* Ahead counts what an operation of the app has left to do.               *)
(***************************************************************************)
EXTENDS AndroidBackup, TLAPS

\* An image that is in the backup, and a set of such images.
Sound(p, m) == m # None /\ (blind \/ Good(p, m))
SoundSet(d) == \A p \in Parts : Sound(p, d[p])

\* Tools replace an image of Android by another one only.
Like(m, n) == m = n \/ (m \in Android /\ n \in Android)

\* The app works only while Android runs; partitions always hold an image.
Alone == op # "idle" \/ leaving => up = "android"
Images == live \in [Parts -> Android \cup {Ubuntu, Torn}]

\* No image is newer than the newest version, so that what a tool writes is new everywhere.
Old == \A p \in Parts : live[p] <= version /\ set[p] <= version /\ previous[p] <= version /\ stage[p] <= version

\* Hashes age, but tell Android's images from others.
Hashed ==
  /\ op = "hash" => \A k \in 1..i - 1 : Like(live[Order[k]], expected[Order[k]])
  /\ op \in {"decide", "script"} => \A p \in Parts : Like(live[p], expected[p])

\* The script is reached, and runs, only on partitions without an image of Ubuntu.
Scripting ==
  /\ op = "script" => (blind \/ \A p \in Parts : expected[p] # Ubuntu) /\ (~changed => SoundSet(expected))
  /\ op \in Scripted => SoundSet(live)

\* What is copied is good, and the set it will replace is there until it is retained.
Staged ==
  /\ op = "copy" => \A k \in 1..i - 1 : Sound(Order[k], stage[Order[k]])
  /\ op \in {"check", "recheck", "discard", "retain", "promote"} => SoundSet(stage)
  /\ op \in {"script", "copy", "check", "recheck", "discard", "retain"} => set # Missing

\* A write has its target, and the partitions it has passed are the target's or newer.
Writing ==
  /\ op \in {"fresh", "write"} => goal \in Systems
  /\ op = "write" => mount # "none" /\ (goal = "android" => set # Missing) /\ (leaving => overtaken)
  /\ op = "write" => \A k \in 1..i - 1 :
       IF goal = "ubuntu" THEN live[Order[k]] = Ubuntu ELSE Sound(Order[k], live[Order[k]])

\* A partition that changed since it was copied is newer than its copy, and will be found.
Newer ==
  /\ op = "copy" => \A k \in 1..i - 1 : live[Order[k]] >= stage[Order[k]]
  /\ op = "check" /\ ~current => \E k \in 1..4 : live[Order[k]] > stage[Order[k]]
  /\ op = "recheck" /\ ~current => \E k \in i..4 : live[Order[k]] > stage[Order[k]]

Goals == BackupIsAndroid /\ BackupIsSnapshot /\ RestartsWhole
IInv == TypeOK /\ Alone /\ Images /\ Old /\ Hashed /\ Scripting /\ Staged /\ Writing /\ Newer /\ Goals


\* The partitions and their order.
LEMMA Partitions ==
  /\ Order[1] = "boot" /\ "boot" \in Parts
  /\ \A k \in 1..4 : Order[k] \in Parts
  /\ \A p \in Parts : \E k \in 1..4 : p = Order[k]
  /\ \A j, k \in 1..4 : Order[j] = Order[k] => j = k
<1>1. Order[1] = "boot" /\ Order[2] = "init_boot" /\ Order[3] = "vendor_boot" /\ Order[4] = "dtbo" BY DEF Order
<1>2. 1..4 = {1, 2, 3, 4} OBVIOUS
<1> QED BY <1>1, <1>2 DEF Parts

\* Images are numbers.
LEMMA Numbers == \A d \in Dirs : \A p \in Parts : d[p] \in Int
BY BackupAssumption DEF Dirs, Android, Ubuntu, Torn, None

\* The directories that the app names without reading them.
LEMMA Known == Missing \in Dirs /\ UbuntuSet \in Dirs /\ [s \in Systems |-> Missing] \in [Systems -> Dirs]
BY DEF Missing, UbuntuSet, Dirs

\* What an operation is left with where it ends, goes on, or may not go on.
LEMMA Ends ==
  /\ Return => /\ op' = "idle" /\ i' = 1 /\ goal' = "show" /\ changed' = FALSE /\ current' = FALSE
               /\ expected' = Missing
  /\ Proceed => /\ op' = IF goal = "show" THEN "show" ELSE IF goal = "restart" THEN "reboot" ELSE "fresh"
                /\ i' = 1 /\ goal' = goal /\ changed' = FALSE /\ current' = FALSE /\ expected' = expected
  /\ Refuse => /\ i' = 1 /\ goal' = "show" /\ changed' = FALSE /\ current' = FALSE
               /\ IF goal = "show" THEN op' = "show" /\ expected' = expected
                  ELSE op' = "idle" /\ expected' = Missing
<1>1. Return => /\ op' = "idle" /\ i' = 1 /\ goal' = "show" /\ changed' = FALSE /\ current' = FALSE
                /\ expected' = Missing
  BY DEF Return, Goto
<1>2. Proceed => /\ op' = IF goal = "show" THEN "show" ELSE IF goal = "restart" THEN "reboot" ELSE "fresh"
                 /\ i' = 1 /\ goal' = goal /\ changed' = FALSE /\ current' = FALSE /\ expected' = expected
  BY DEF Proceed, Goto
<1> QED BY <1>1, <1>2 DEF Refuse

\* The parts of the type invariant.
LocalsOK ==
  /\ op \in {"idle", "hash", "decide", "script", "cleanup", "show", "fresh", "write", "reboot"} \cup Scripted
  /\ i \in 1..4 /\ goal \in {"show", "restart", "ubuntu", "android"}
  /\ changed \in BOOLEAN /\ expected \in Dirs /\ current \in BOOLEAN
PlatformOK ==
  /\ up \in {"off", "android", "ubuntu", "stuck"} /\ uname \in Nat /\ version \in Android /\ dirty \in BOOLEAN
  /\ mount \in {"none", "ro", "rw", "noload"}
SavedOK == set \in Dirs /\ previous \in Dirs /\ stage \in Dirs /\ named \in BOOLEAN
UiOK == due \in BOOLEAN /\ shown \in [Systems -> Dirs] /\ next \in {"none", "android", "ubuntu"}
RestOK == leaving \in BOOLEAN /\ overtaken \in BOOLEAN /\ blind \in BOOLEAN /\ faults \in 0..MaxFaults

\* Together they are the type invariant.
LEMMA TypeParts == TypeOK <=> live \in Dirs /\ LocalsOK /\ PlatformOK /\ SavedOK /\ UiOK /\ RestOK
BY DEF TypeOK, LocalsOK, PlatformOK, SavedOK, UiOK, RestOK

\* What an operation leaves has its type, and what the end of Android leaves.
LEMMA EndTypes == ASSUME TypeOK PROVE (Return \/ Proceed \/ Refuse => LocalsOK') /\ (AndroidEnds => LocalsOK' /\ UiOK')
<1> USE Ends, Known DEF TypeOK, LocalsOK
<1>0. Return \/ Proceed \/ Refuse => changed' \in BOOLEAN /\ current' \in BOOLEAN OBVIOUS
<1>1. Return \/ Proceed \/ Refuse => LocalsOK'
  <2>1. Return => LocalsOK' BY <1>0
  <2>2. Proceed => LocalsOK' BY <1>0
  <2>3. Refuse => LocalsOK' BY <1>0
  <2> QED BY <2>1, <2>2, <2>3
<1>2. AndroidEnds => LocalsOK' /\ UiOK' BY <1>1, Known DEF AndroidEnds, UiOK
<1> QED BY <1>1, <1>2

\* A refresh stops, goes on, or comes to the script.
LEMMA Decides ==
  ASSUME Decide
  PROVE  /\ op = "decide" /\ UNCHANGED <<live, platform, mount, saved, ui, restart>>
         /\ \/ Refuse \/ Proceed
            \/ /\ op' = "script" /\ i' = 1 /\ changed' \in BOOLEAN /\ UNCHANGED <<goal, expected, current>>
               /\ mount # "none" /\ set # Missing
<1>1. op = "decide" /\ UNCHANGED <<live, platform, mount, saved, ui, restart>> BY DEF Decide
<1>2. PICK known \in SUBSET Systems :
        LET d == Decision(Found(known)) IN
        CASE d \in {"ambiguous", "mixed"} -> Refuse
          [] d = "linux staged" \/ (d = "unchanged" /\ named) -> Proceed
          [] OTHER -> Goto("script") /\ changed' = (d = "changed") /\ UNCHANGED <<goal, expected, current>>
  BY DEF Decide
<1>3. CASE Saved("android") = Missing BY <1>1, <1>2, <1>3 DEF Decision
<1>4. CASE Saved("android") # Missing
  <2>1. mount # "none" /\ set # Missing BY <1>4 DEF Saved
  <2> QED BY <1>1, <1>2, <2>1 DEF Goto
<1> QED BY <1>3, <1>4

\* What a write leaves in the partitions, done or cut short, and what is left of the older copy.
LEMMA Torns ==
  ASSUME TypeOK, Tearing \/ (op = "write" /\ live' = [live EXCEPT ![Here] = Target[Here]])
  PROVE  /\ \A p \in Parts : live'[p] = live[p] \/ (op = "write" /\ live'[p] \in {Torn, Target[p]})
         /\ op # "write" => live' = live
<1>1. CASE op # "write" BY <1>1 DEF Tearing
<1>2. CASE op = "write"
  <2>1. PICK m \in {Torn, live[Here], Target[Here]} : live' = [live EXCEPT ![Here] = m] BY <1>2 DEF Tearing
  <2> QED BY <1>2, <2>1 DEF TypeOK, Dirs
<1> QED BY <1>1, <1>2

\* What a discovery finds are directories.
LEMMA FoundTypes == ASSUME TypeOK PROVE (\A s : Saved(s) \in Dirs) /\ \A known : Found(known) \in [Systems -> Dirs]
<1>1. \A s : Saved(s) \in Dirs BY Known DEF TypeOK, Saved
<1> QED BY <1>1, Known DEF Found

\* Every step keeps the types of the app's operation.
LEMMA LocalsPreserved == ASSUME TypeOK, [Next]_vars PROVE LocalsOK'
<1> USE Partitions DEF TypeOK, LocalsOK, Goto, app, locals
<1>1. CASE Boot \/ Ota \/ RootTool \/ Stuck \/ UNCHANGED vars BY <1>1 DEF Boot, Ota, RootTool, Stuck, vars
<1>2. CASE Restart \/ FromUbuntu \/ PowerLoss \/ Reboot \/ Leave
  BY <1>2, EndTypes DEF Restart, FromUbuntu, PowerLoss, Reboot, Leave
<1>3. CASE CommandFails \/ ScriptRefuses \/ Finish \/ Cleanup \/ TrapFails \/ Show \/ WriteFails
  BY <1>3, EndTypes DEF CommandFails, ScriptRefuses, Finish, Cleanup, TrapFails, Show, WriteFails
<1>4. CASE StartRead \/ \E g \in {"ubuntu", "android"} : StartSwitch(g) BY <1>4 DEF StartRead, StartSwitch
<1>5. CASE Hash
  <2>1. expected' \in Dirs BY <1>5 DEF Hash, Here, Dirs
  <2> QED BY <1>5, <2>1 DEF Hash
<1>6. CASE Decide BY <1>6, EndTypes, Decides
<1>7. CASE ScriptStarts BY <1>7 DEF ScriptStarts, Scripted
<1>8. CASE Copy
  <2>1. current' \in BOOLEAN BY <1>8 DEF Copy
  <2> QED BY <1>8, <2>1 DEF Copy, Scripted
<1>9. CASE Check \/ Recheck \/ Discard \/ Retain \/ Promote \/ ScriptFails
  BY <1>9 DEF Check, Recheck, Discard, Retain, Promote, ScriptFails, Scripted
<1>10. CASE Fresh BY <1>10, EndTypes DEF Fresh
<1>11. CASE Write
  <2>1. CASE i < 4
    <3>1. op' = "write" /\ i' = i + 1 /\ UNCHANGED locals BY <1>11, <2>1 DEF Write
    <3> QED BY <2>1, <3>1
  <2>2. CASE ~(i < 4) BY <1>11, <2>2, EndTypes DEF Write
  <2> QED BY <2>1, <2>2
<1> QED BY <1>1, <1>2, <1>3, <1>4, <1>5, <1>6, <1>7, <1>8, <1>9, <1>10, <1>11 DEF Next, App

\* Every step keeps the types of the machine's state.
LEMMA PlatformPreserved == ASSUME TypeOK, Images, [Next]_vars PROVE PlatformOK'
<1> USE DEF TypeOK, PlatformOK, platform
<1>1. CASE Boot
  <2>1. up' = "android" => live["boot"] \in Android BY <1>1, Partitions DEF Boot, Starts, Images, Ubuntu, Torn
  <2>2. live["boot"] \in Android => Release[live["boot"]] \in Nat BY BackupAssumption
  <2>3. uname' \in Nat BY <1>1, <2>1, <2>2 DEF Boot
  <2> QED BY <1>1, <2>3 DEF Boot, Starts
<1>2. CASE Ota \/ RootTool
  <2>1. version' \in Android BY <1>2, BackupAssumption DEF Ota, RootTool, Android
  <2> QED BY <1>2, <2>1 DEF Ota, RootTool
<1>3. CASE Restart \/ FromUbuntu \/ PowerLoss \/ Reboot \/ Leave
  <2>1. dirty' \in BOOLEAN BY <1>3 DEF Restart, FromUbuntu, PowerLoss, Reboot, Leave
  <2>2. up' = "off" /\ uname' = 0 /\ mount' = "none" /\ version' = version
    BY <1>3 DEF Restart, FromUbuntu, PowerLoss, Reboot, Leave, AndroidEnds
  <2> QED BY <2>1, <2>2
<1>4. CASE StartRead
  <2>1. dirty' \in BOOLEAN BY <1>4 DEF StartRead
  <2> QED BY <1>4, <2>1 DEF StartRead, Mounts
<1>5. CASE ScriptStarts \/ Finish \/ Cleanup \/ TrapFails BY <1>5 DEF ScriptStarts, Finish, Cleanup, TrapFails
<1>6. CASE UNCHANGED <<platform, mount>> BY <1>6
<1> QED
  BY <1>1, <1>2, <1>3, <1>4, <1>5, <1>6
  DEF Next, App, Stuck, vars, StartSwitch, Hash, Decide, ScriptRefuses, Copy, Check, Recheck, Discard, Retain, Promote,
      Show, Fresh, Write, CommandFails, ScriptFails, WriteFails

\* Every step keeps the types of the saved sets.
LEMMA SavedPreserved == ASSUME TypeOK, [Next]_vars PROVE SavedOK'
<1> USE Known, Partitions DEF TypeOK, SavedOK, saved
<1>1. CASE PowerLoss \/ Leave \/ ScriptFails
  <2>1. previous' \in {previous, [previous EXCEPT !["boot"] = None]} BY <1>1 DEF PowerLoss, Leave, ScriptFails, Removing
  <2>2. previous' \in Dirs BY <2>1 DEF Dirs
  <2> QED BY <1>1, <2>2 DEF PowerLoss, Leave, ScriptFails
<1>2. CASE StartRead BY <1>2 DEF StartRead, Recovered
<1>3. CASE Copy
  <2>1. stage' \in Dirs BY <1>3 DEF Copy, Here, Dirs
  <2> QED BY <1>3, <2>1 DEF Copy
<1>4. CASE ScriptStarts \/ Discard \/ Retain \/ Promote BY <1>4 DEF ScriptStarts, Discard, Retain, Promote
<1>5. CASE Cleanup \/ TrapFails BY <1>5 DEF Cleanup, TrapFails, Undo
<1>6. CASE Ota BY <1>6 DEF Ota
<1>7. CASE UNCHANGED saved BY <1>7
<1> QED
  BY <1>1, <1>2, <1>3, <1>4, <1>5, <1>6, <1>7
  DEF Next, App, Boot, Restart, RootTool, FromUbuntu, Stuck, vars, StartSwitch, Hash, Decide, ScriptRefuses, Check,
      Recheck, Finish, Show, Fresh, Write, Reboot, CommandFails, WriteFails

\* Every step keeps the types of what the owner sees.
LEMMA UiPreserved == ASSUME TypeOK, Writing, [Next]_vars PROVE UiOK'
<1> USE DEF TypeOK, UiOK, ui
<1>1. CASE Restart \/ FromUbuntu \/ PowerLoss \/ Reboot \/ Leave
  BY <1>1, EndTypes DEF Restart, FromUbuntu, PowerLoss, Reboot, Leave
<1>2. CASE Boot BY <1>2 DEF Boot
<1>3. CASE Show
  <2>1. PICK known : shown' = Found(known) /\ next' = Identified(Found(known), expected) BY <1>3 DEF Show
  <2> QED BY <1>3, <2>1, FoundTypes DEF Show, Identified
<1>4. CASE Write
  <2>1. next' = next \/ (op = "write" /\ next' = goal) BY <1>4 DEF Write
  <2>2. next' \in {"none", "android", "ubuntu"} BY <2>1 DEF Writing, Systems
  <2> QED BY <1>4, <2>2 DEF Write
<1>5. CASE StartRead BY <1>5 DEF StartRead
<1>6. CASE UNCHANGED ui BY <1>6
<1> QED
  BY <1>1, <1>2, <1>3, <1>4, <1>5, <1>6
  DEF Next, App, Ota, RootTool, Stuck, vars, StartSwitch, Hash, Decide, ScriptRefuses, ScriptStarts, Copy, Check,
      Recheck, Discard, Retain, Promote, Finish, Cleanup, Fresh, CommandFails, ScriptFails, TrapFails, WriteFails

\* Every step keeps the types of the restart and of the history.
LEMMA RestPreserved == ASSUME TypeOK, [Next]_vars PROVE RestOK'
<1> USE BackupAssumption DEF TypeOK, RestOK, rest, restart
<1>1. Fault => faults' \in 0..MaxFaults BY DEF Fault
<1>2. \A known : Discover(known) => faults' \in 0..MaxFaults BY <1>1 DEF Discover
<1>3. CASE Restart \/ Reboot \/ Leave BY <1>3 DEF Restart, Reboot, Leave, AndroidEnds
<1>4. CASE FromUbuntu \/ PowerLoss BY <1>1, <1>4 DEF FromUbuntu, PowerLoss, AndroidEnds
<1>5. CASE Decide
  <2>1. blind' \in BOOLEAN BY <1>5 DEF Decide
  <2> QED BY <1>2, <1>5, <2>1 DEF Decide
<1>6. CASE Show BY <1>2, <1>6 DEF Show
<1>7. CASE Fresh BY <1>7 DEF Fresh
<1>8. CASE Write BY <1>8 DEF Write
<1>9. CASE StartRead BY <1>1, <1>9 DEF StartRead
<1>10. CASE CommandFails \/ ScriptFails \/ TrapFails \/ WriteFails
  BY <1>1, <1>10 DEF CommandFails, ScriptFails, TrapFails, WriteFails
<1>11. CASE UNCHANGED rest BY <1>11
<1> QED
  BY <1>3, <1>4, <1>5, <1>6, <1>7, <1>8, <1>9, <1>10, <1>11
  DEF Next, App, Boot, Ota, RootTool, Stuck, vars, StartSwitch, Hash, ScriptRefuses, ScriptStarts, Copy, Check, Recheck,
      Discard, Retain, Promote, Finish, Cleanup

\* Every step keeps the types, and puts images only into the partitions.
LEMMA LivePreserved == ASSUME TypeOK, Images, Writing, BackupIsAndroid, [Next]_vars PROVE live' \in Dirs /\ Images'
<1> USE DEF TypeOK, Images
<1> DEFINE Image == Android \cup {Ubuntu, Torn}
<1>0. /\ Image \subseteq Android \cup {Ubuntu, Torn, None} /\ live \in [Parts -> Image] /\ Torn \in Image /\ Ubuntu \in Image
      /\ \A p \in Parts : Backup[p] \in Image
  <2>1. Backup \in Dirs BY DEF Backup
  <2> QED BY <2>1 DEF BackupIsAndroid, Dirs
<1>1. \A p \in Parts : op = "write" => Target[p] \in Image
  <2> SUFFICES ASSUME NEW p \in Parts, op = "write" PROVE Target[p] \in Image OBVIOUS
  <2>1. mount # "none" /\ goal \in Systems BY DEF Writing
  <2>2. CASE goal = "ubuntu" BY <1>0, <2>1, <2>2 DEF Target, Saved, UbuntuSet
  <2>3. CASE goal = "android"
    <3>1. Target = Backup BY <2>1, <2>3 DEF Writing, Target, Saved, Backup
    <3> QED BY <1>0, <3>1
  <2> QED BY <2>1, <2>2, <2>3 DEF Systems
<1>2. live' \in [Parts -> Image]
  <2> HIDE DEF Image, TypeOK, Images
  <2> USE <1>0, <1>1
  <2>1. CASE Ota \/ RootTool
    <3>1. version' \in Android BY <2>1, PlatformPreserved DEF PlatformOK, TypeOK, Images
    <3>2. version' \in Image BY <3>1 DEF Image
    <3> QED BY <2>1, <3>2 DEF Ota, RootTool
  <2>2. CASE FromUbuntu
    <3>1. set = Backup BY <2>2, Partitions DEF FromUbuntu, Complete, Missing, Backup
    <3> QED BY <2>2, <3>1 DEF FromUbuntu
  <2>3. CASE Write BY <2>3 DEF Write
  <2>4. CASE WriteFails \/ PowerLoss \/ Leave
    <3>1. Tearing BY <2>4 DEF WriteFails, PowerLoss, Leave
    <3>2. CASE op = "write"
      <4>1. PICK m \in {Torn, live[Here], Target[Here]} : live' = [live EXCEPT ![Here] = m] BY <3>1, <3>2 DEF Tearing
      <4>2. Here \in Parts BY Partitions DEF Here, TypeOK
      <4>3. m \in Image BY <3>2, <4>1, <4>2
      <4> QED BY <4>1, <4>3
    <3>3. CASE op # "write" BY <3>1, <3>3 DEF Tearing
    <3> QED BY <3>2, <3>3
  <2>5. CASE UNCHANGED live BY <2>5
  <2> QED
    BY <2>1, <2>2, <2>3, <2>4, <2>5
    DEF Next, App, Boot, Restart, Stuck, vars, StartRead, StartSwitch, Hash, Decide, ScriptRefuses, ScriptStarts, Copy,
        Check, Recheck, Discard, Retain, Promote, Finish, Cleanup, Show, Fresh, Reboot, CommandFails, ScriptFails,
        TrapFails
<1> QED BY <1>0, <1>2 DEF Dirs

\* Every step keeps the types.
LEMMA TypePreserved == ASSUME TypeOK, Images, Writing, BackupIsAndroid, [Next]_vars PROVE TypeOK'
<1>1. live' \in Dirs /\ LocalsOK' /\ PlatformOK' /\ SavedOK' /\ UiOK' /\ RestOK'
  BY LivePreserved, LocalsPreserved, PlatformPreserved, SavedPreserved, UiPreserved, RestPreserved
<1> QED BY <1>1 DEF TypeOK, LocalsOK, PlatformOK, SavedOK, UiOK, RestOK

\* The app ends with Android.
LEMMA AlonePreserved == ASSUME TypeOK, Alone, [Next]_vars PROVE Alone'
<1> USE Ends DEF TypeOK, Alone, Scripted, platform, saved, ui, app, locals, restart, rest, Goto
<1>1. CASE Boot BY <1>1 DEF Boot, Starts
<1>2. CASE Restart BY <1>2 DEF Restart, AndroidEnds
<1>3. CASE Ota BY <1>3 DEF Ota
<1>4. CASE RootTool BY <1>4 DEF RootTool
<1>5. CASE FromUbuntu BY <1>5 DEF FromUbuntu, AndroidEnds, Complete
<1>6. CASE PowerLoss BY <1>6 DEF PowerLoss, AndroidEnds
<1>7. CASE Stuck BY <1>7 DEF Stuck, vars
<1>8. CASE StartRead BY <1>8 DEF StartRead, Mounts, Recovered
<1>9. CASE \E g \in {"ubuntu", "android"} : StartSwitch(g) BY <1>9 DEF StartSwitch
<1>10. CASE Hash BY <1>10 DEF Hash, Here
<1>11. CASE Decide BY <1>11 DEF Decide
<1>12. CASE ScriptRefuses BY <1>12 DEF ScriptRefuses
<1>13. CASE ScriptStarts BY <1>13 DEF ScriptStarts
<1>14. CASE Copy BY <1>14 DEF Copy, Here
<1>15. CASE Check BY <1>15 DEF Check
<1>16. CASE Recheck BY <1>16 DEF Recheck, Here
<1>17. CASE Discard BY <1>17 DEF Discard
<1>18. CASE Retain BY <1>18 DEF Retain
<1>19. CASE Promote BY <1>19 DEF Promote
<1>20. CASE Finish BY <1>20 DEF Finish
<1>21. CASE Cleanup BY <1>21 DEF Cleanup, Undo
<1>22. CASE Show BY <1>22 DEF Show
<1>23. CASE Fresh BY <1>23 DEF Fresh, Complete
<1>24. CASE Write BY <1>24 DEF Write, Target, Saved
<1>25. CASE Reboot BY <1>25 DEF Reboot, AndroidEnds
<1>26. CASE CommandFails BY <1>26 DEF CommandFails
<1>27. CASE ScriptFails BY <1>27 DEF ScriptFails, Removing, Scripted
<1>28. CASE TrapFails BY <1>28 DEF TrapFails, Undo
<1>29. CASE WriteFails BY <1>29 DEF WriteFails, Tearing, Target, Saved
<1>30. CASE UNCHANGED vars BY <1>30 DEF vars
<1>31. CASE Leave BY <1>31 DEF Leave, AndroidEnds
<1> QED BY <1>1, <1>2, <1>3, <1>4, <1>5, <1>6, <1>7, <1>8, <1>9, <1>10, <1>11, <1>12, <1>13, <1>14, <1>15, <1>16, <1>17, <1>18, <1>19, <1>20, <1>21, <1>22, <1>23, <1>24, <1>25, <1>26, <1>27, <1>28, <1>29, <1>30, <1>31 DEF Next, App

\* Only tools write a newer image, and only of the newest version.
LEMMA OldPreserved == ASSUME TypeOK, Old, [Next]_vars PROVE Old'
<1> USE BackupAssumption, Partitions, Ends DEF TypeOK, Old, Dirs, Missing, UbuntuSet, Android, Ubuntu, Torn, None, platform, saved, ui, app, locals, restart, rest, Goto
<1>1. CASE Boot BY <1>1 DEF Boot, Starts
<1>2. CASE Restart BY <1>2 DEF Restart, AndroidEnds
<1>3. CASE Ota
  <2>1. \A p \in Parts : live'[p] = version' BY <1>3 DEF Ota
  <2>2. version \in Int /\ version' = version + 1 /\ UNCHANGED <<set, previous, stage>> BY <1>3 DEF Ota
  <2>3. set \in Dirs /\ previous \in Dirs /\ stage \in Dirs OBVIOUS
  <2>4. SUFFICES ASSUME NEW p \in Parts
        PROVE live'[p] <= version' /\ set'[p] <= version' /\ previous'[p] <= version' /\ stage'[p] <= version' OBVIOUS
  <2>5. set[p] <= version /\ previous[p] <= version /\ stage[p] <= version OBVIOUS
  <2> HIDE BackupAssumption, Partitions DEF TypeOK, Dirs, Missing, UbuntuSet, Android
  <2>6. set[p] \in Int /\ previous[p] \in Int /\ stage[p] \in Int BY <2>3, Numbers
  <2> QED BY <2>1, <2>2, <2>5, <2>6
<1>4. CASE RootTool
  <2>1. \A p \in Parts : live'[p] \in {live[p], version'} BY <1>4 DEF RootTool
  <2>2. version \in Int /\ version' = version + 1 /\ UNCHANGED <<set, previous, stage>> BY <1>4 DEF RootTool
  <2>3. live \in Dirs /\ set \in Dirs /\ previous \in Dirs /\ stage \in Dirs OBVIOUS
  <2>4. SUFFICES ASSUME NEW p \in Parts
        PROVE live'[p] <= version' /\ set'[p] <= version' /\ previous'[p] <= version' /\ stage'[p] <= version' OBVIOUS
  <2>5. live[p] <= version /\ set[p] <= version /\ previous[p] <= version /\ stage[p] <= version OBVIOUS
  <2> HIDE BackupAssumption, Partitions DEF TypeOK, Dirs, Missing, UbuntuSet, Android
  <2>6. live[p] \in Int /\ set[p] \in Int /\ previous[p] \in Int /\ stage[p] \in Int BY <2>3, Numbers
  <2> QED BY <2>1, <2>2, <2>5, <2>6
<1>5. CASE FromUbuntu BY <1>5 DEF FromUbuntu, AndroidEnds, Complete
<1>6. CASE PowerLoss
  <2>1. \A p \in Parts : live'[p] \in {Torn, live[p], Target[p]} BY <1>6, Torns DEF PowerLoss
  <2>2. \A p \in Parts : previous'[p] \in {previous[p], None} BY <1>6 DEF PowerLoss, Removing
  <2>3. version \in Nat /\ UNCHANGED <<version, set, stage>> BY <1>6 DEF PowerLoss
  <2>4. SUFFICES ASSUME NEW p \in Parts
        PROVE live'[p] <= version' /\ set'[p] <= version' /\ previous'[p] <= version' /\ stage'[p] <= version' OBVIOUS
  <2>5. live[p] <= version /\ set[p] <= version /\ previous[p] <= version /\ stage[p] <= version OBVIOUS
  <2>6. Target[p] <= version BY <2>3, <2>5 DEF Target, Saved
  <2> HIDE BackupAssumption, Partitions DEF TypeOK, Dirs, Missing, UbuntuSet, Android
  <2> QED BY <2>1, <2>2, <2>3, <2>5, <2>6
<1>7. CASE Stuck BY <1>7 DEF Stuck, vars
<1>8. CASE StartRead BY <1>8 DEF StartRead, Mounts, Recovered
<1>9. CASE \E g \in {"ubuntu", "android"} : StartSwitch(g) BY <1>9 DEF StartSwitch
<1>10. CASE Hash
  <2>1. UNCHANGED <<live, set, previous, stage, version>> BY <1>10 DEF Hash
  <2> QED BY <2>1
<1>11. CASE Decide BY <1>11 DEF Decide
<1>12. CASE ScriptRefuses BY <1>12 DEF ScriptRefuses
<1>13. CASE ScriptStarts BY <1>13 DEF ScriptStarts
<1>14. CASE Copy BY <1>14 DEF Copy, Here
<1>15. CASE Check BY <1>15 DEF Check
<1>16. CASE Recheck BY <1>16 DEF Recheck, Here
<1>17. CASE Discard BY <1>17 DEF Discard
<1>18. CASE Retain BY <1>18 DEF Retain
<1>19. CASE Promote BY <1>19 DEF Promote
<1>20. CASE Finish BY <1>20 DEF Finish
<1>21. CASE Cleanup BY <1>21 DEF Cleanup, Undo
<1>22. CASE Show
  <2>1. UNCHANGED <<live, set, previous, stage, version>> BY <1>22 DEF Show
  <2> QED BY <2>1
<1>23. CASE Fresh BY <1>23 DEF Fresh, Complete
<1>24. CASE Write BY <1>24 DEF Write, Target, Saved, Here
<1>25. CASE Reboot BY <1>25 DEF Reboot, AndroidEnds
<1>26. CASE CommandFails BY <1>26 DEF CommandFails
<1>27. CASE ScriptFails
  <2>1. UNCHANGED <<live, set, stage, version>> BY <1>27 DEF ScriptFails
  <2>2. \A p \in Parts : previous'[p] \in {previous[p], None} BY <1>27 DEF ScriptFails, Removing
  <2>3. version \in Nat OBVIOUS
  <2>4. SUFFICES ASSUME NEW p \in Parts
        PROVE live'[p] <= version' /\ set'[p] <= version' /\ previous'[p] <= version' /\ stage'[p] <= version' OBVIOUS
  <2>5. live[p] <= version /\ set[p] <= version /\ previous[p] <= version /\ stage[p] <= version OBVIOUS
  <2> HIDE BackupAssumption, Partitions DEF TypeOK, Dirs, Missing, UbuntuSet, Android
  <2> QED BY <2>1, <2>2, <2>3, <2>5
<1>28. CASE TrapFails BY <1>28 DEF TrapFails, Undo
<1>29. CASE WriteFails BY <1>29 DEF WriteFails, Tearing, Target, Saved, Here
<1>30. CASE UNCHANGED vars BY <1>30 DEF vars
<1>31. CASE Leave
  <2>1. \A p \in Parts : live'[p] \in {Torn, live[p], Target[p]} BY <1>31, Torns DEF Leave
  <2>2. \A p \in Parts : previous'[p] \in {previous[p], None} BY <1>31 DEF Leave, Removing
  <2>3. version \in Nat /\ UNCHANGED <<version, set, stage>> BY <1>31 DEF Leave
  <2>4. SUFFICES ASSUME NEW p \in Parts
        PROVE live'[p] <= version' /\ set'[p] <= version' /\ previous'[p] <= version' /\ stage'[p] <= version' OBVIOUS
  <2>5. live[p] <= version /\ set[p] <= version /\ previous[p] <= version /\ stage[p] <= version OBVIOUS
  <2>6. Target[p] <= version BY <2>3, <2>5 DEF Target, Saved
  <2> HIDE BackupAssumption, Partitions DEF TypeOK, Dirs, Missing, UbuntuSet, Android
  <2> QED BY <2>1, <2>2, <2>3, <2>5, <2>6
<1> QED BY <1>1, <1>2, <1>3, <1>4, <1>5, <1>6, <1>7, <1>8, <1>9, <1>10, <1>11, <1>12, <1>13, <1>14, <1>15, <1>16, <1>17, <1>18, <1>19, <1>20, <1>21, <1>22, <1>23, <1>24, <1>25, <1>26, <1>27, <1>28, <1>29, <1>30, <1>31 DEF Next, App

\* Tools keep Android\'s images apart from others.
LEMMA HashedPreserved == ASSUME TypeOK, Alone, Hashed, [Next]_vars PROVE Hashed'
<1> USE BackupAssumption, Partitions, Ends DEF TypeOK, Alone, Hashed, Like, Dirs, Scripted, Android, Ubuntu, Torn, None, platform, saved, ui, app, locals, restart, rest, Goto
<1>1. CASE Boot BY <1>1 DEF Boot, Starts
<1>2. CASE Restart BY <1>2 DEF Restart, AndroidEnds
<1>3. CASE Ota BY <1>3 DEF Ota
<1>4. CASE RootTool
  <2>1. UNCHANGED <<op, i, expected>> BY <1>4 DEF RootTool
  <2>2. \A p \in Parts : live'[p] = live[p] \/ (live[p] \in Android /\ live'[p] \in Android) BY <1>4 DEF RootTool
  <2>3. \A p \in Parts : Like(live[p], expected[p]) => Like(live'[p], expected[p]) BY <2>2
  <2>4. i \in 1..4 /\ \A k \in 1..i - 1 : Order[k] \in Parts OBVIOUS
  <2> QED BY <2>1, <2>3, <2>4
<1>5. CASE FromUbuntu BY <1>5 DEF FromUbuntu, AndroidEnds, Complete
<1>6. CASE PowerLoss BY <1>6 DEF PowerLoss, AndroidEnds, Tearing, Removing, Target, Saved
<1>7. CASE Stuck BY <1>7 DEF Stuck, vars
<1>8. CASE StartRead BY <1>8 DEF StartRead, Mounts, Recovered
<1>9. CASE \E g \in {"ubuntu", "android"} : StartSwitch(g) BY <1>9 DEF StartSwitch
<1>10. CASE Hash
  <2>1. op = "hash" /\ live' = live /\ expected' = [expected EXCEPT ![Order[i]] = live[Order[i]]]
    BY <1>10 DEF Hash, Here
  <2>2. i \in 1..4 /\ \A k \in 1..i - 1 : Like(live[Order[k]], expected[Order[k]]) BY <2>1
  <2>3. \A p \in Parts : expected'[p] = IF p = Order[i] THEN live[p] ELSE expected[p] BY <2>1
  <2>4. \A k \in 1..i : Order[k] \in Parts BY <2>2
  <2>5. ASSUME NEW k \in 1..i PROVE Like(live'[Order[k]], expected'[Order[k]])
    <3>1. k = i \/ k \in 1..i - 1 BY <2>2
    <3>2. CASE k = i BY <2>1, <2>3, <2>4, <3>2
    <3>3. CASE k \in 1..i - 1 BY <2>1, <2>2, <2>3, <2>4, <3>3
    <3> QED BY <3>1, <3>2, <3>3
  <2>6. CASE i < 4
    <3>1. i' = i + 1 /\ op' = "hash" BY <1>10, <2>6 DEF Hash
    <3>2. 1..i' - 1 = 1..i BY <2>2, <3>1
    <3> QED BY <2>5, <3>1, <3>2
  <2>7. CASE ~(i < 4)
    <3>1. i = 4 /\ op' = "decide" BY <1>10, <2>2, <2>7 DEF Hash
    <3>2. ASSUME NEW p \in Parts PROVE Like(live'[p], expected'[p])
      <4>1. PICK k \in 1..4 : p = Order[k] OBVIOUS
      <4> HIDE DEF Like, TypeOK
      <4> QED BY <2>5, <3>1, <4>1
    <3>3. op' # "hash" BY <3>1
    <3> HIDE DEF Like, TypeOK
    <3> QED BY <3>1, <3>2, <3>3
  <2> QED BY <2>6, <2>7
<1>11. CASE Decide BY <1>11 DEF Decide
<1>12. CASE ScriptRefuses BY <1>12 DEF ScriptRefuses
<1>13. CASE ScriptStarts BY <1>13 DEF ScriptStarts
<1>14. CASE Copy BY <1>14 DEF Copy, Here
<1>15. CASE Check BY <1>15 DEF Check
<1>16. CASE Recheck BY <1>16 DEF Recheck, Here
<1>17. CASE Discard BY <1>17 DEF Discard
<1>18. CASE Retain BY <1>18 DEF Retain
<1>19. CASE Promote BY <1>19 DEF Promote
<1>20. CASE Finish BY <1>20 DEF Finish
<1>21. CASE Cleanup BY <1>21 DEF Cleanup, Undo
<1>22. CASE Show BY <1>22 DEF Show
<1>23. CASE Fresh BY <1>23 DEF Fresh, Complete
<1>24. CASE Write BY <1>24 DEF Write, Target, Saved
<1>25. CASE Reboot BY <1>25 DEF Reboot, AndroidEnds
<1>26. CASE CommandFails BY <1>26 DEF CommandFails
<1>27. CASE ScriptFails BY <1>27 DEF ScriptFails, Removing, Scripted
<1>28. CASE TrapFails BY <1>28 DEF TrapFails, Undo
<1>29. CASE WriteFails BY <1>29 DEF WriteFails, Tearing, Target, Saved
<1>30. CASE UNCHANGED vars BY <1>30 DEF vars
<1>31. CASE Leave BY <1>31 DEF Leave, AndroidEnds
<1> QED BY <1>1, <1>2, <1>3, <1>4, <1>5, <1>6, <1>7, <1>8, <1>9, <1>10, <1>11, <1>12, <1>13, <1>14, <1>15, <1>16, <1>17, <1>18, <1>19, <1>20, <1>21, <1>22, <1>23, <1>24, <1>25, <1>26, <1>27, <1>28, <1>29, <1>30, <1>31 DEF Next, App

\* The decision and the check of the kernel keep Ubuntu out of the script.
LEMMA ScriptingPreserved == ASSUME TypeOK, Alone, Images, Hashed, Scripting, BackupIsAndroid, [Next]_vars PROVE Scripting'
<1> USE BackupAssumption, Partitions, Ends DEF TypeOK, Alone, Images, Scripting, Good, Sound, SoundSet, Dirs, Scripted, Android, Ubuntu, Torn, None, platform, saved, ui, app, locals, restart, rest, Goto
<1>1. CASE Boot BY <1>1 DEF Boot, Starts
<1>2. CASE Restart BY <1>2 DEF Restart, AndroidEnds
<1>3. CASE Ota BY <1>3 DEF Ota
<1>4. CASE RootTool BY <1>4 DEF RootTool
<1>5. CASE FromUbuntu BY <1>5 DEF FromUbuntu, AndroidEnds, Complete
<1>6. CASE PowerLoss BY <1>6 DEF PowerLoss, AndroidEnds
<1>7. CASE Stuck BY <1>7 DEF Stuck, vars
<1>8. CASE StartRead BY <1>8 DEF StartRead, Mounts, Recovered
<1>9. CASE \E g \in {"ubuntu", "android"} : StartSwitch(g) BY <1>9 DEF StartSwitch
<1>10. CASE Hash BY <1>10 DEF Hash, Here
<1>11. CASE Decide
  <2>1. op = "decide" /\ op' \notin Scripted /\ UNCHANGED <<live, mount, set, previous>> BY <1>11 DEF Decide
  <2> SUFFICES ASSUME op' = "script"
               PROVE  (blind' \/ \A p \in Parts : expected'[p] # Ubuntu) /\ (~changed' => SoundSet(expected)')
    BY <2>1
  <2>2. PICK known \in SUBSET Systems :
          LET d == Decision(Found(known)) IN
          /\ blind' = (blind \/ (d = "changed" /\ "ubuntu" \notin known /\ \E p \in Parts : expected[p] = Ubuntu))
          /\ d \in {"changed", "unchanged"} /\ changed' = (d = "changed") /\ UNCHANGED expected
    BY <1>11 DEF Decide, Decision
  <2>3. mount # "none" /\ set # Missing BY <2>2 DEF Decision, Saved
  <2>4. SoundSet(set) BY <2>3 DEF BackupIsAndroid, Backup
  <2>5. \A s \in known : Found(known)[s] = IF s = "ubuntu" THEN UbuntuSet ELSE set
    BY <2>3 DEF Found, Saved, Systems
  <2>6. CASE Decision(Found(known)) = "unchanged"
    <3>1. expected = Found(known)["android"] /\ Complete(Found(known)["android"]) BY <2>6 DEF Decision, Identified
    <3>2. "android" \in known BY <3>1 DEF Complete, Found, Missing, Systems
    <3>3. expected = set BY <2>5, <3>1, <3>2
    <3>4. (blind' \/ \A p \in Parts : expected[p] # Ubuntu) /\ SoundSet(expected) BY <2>2, <2>4, <3>3
    <3> QED BY <2>2, <3>4
  <2>7. CASE Decision(Found(known)) = "changed"
    <3>1. ASSUME NEW p \in Parts, expected[p] = Ubuntu PROVE blind'
      <4>1. CASE "ubuntu" \notin known BY <2>2, <2>7, <3>1, <4>1
      <4>2. CASE "ubuntu" \in known
        <5>1. Found(known)["ubuntu"] = UbuntuSet BY <2>5, <4>2
        <5>2. Complete(UbuntuSet) BY DEF Complete, UbuntuSet
        <5>3. ~Mixed(Found(known), expected) BY <2>7 DEF Decision
        <5>4. Complete(Found(known)["android"]) /\ Found(known)["android"][p] = Ubuntu
          BY <3>1, <5>1, <5>2, <5>3 DEF Mixed
        <5>5. "android" \in known BY <5>4 DEF Found, Missing, Systems
        <5>6. set[p] = Ubuntu BY <2>5, <5>4, <5>5
        <5> QED BY <2>2, <2>4, <5>6
      <4> QED BY <4>1, <4>2
    <3> QED BY <2>2, <2>7, <3>1
  <2> QED BY <2>2, <2>6, <2>7
<1>12. CASE ScriptRefuses BY <1>12 DEF ScriptRefuses
<1>13. CASE ScriptStarts
  <2>1. UNCHANGED <<live, expected, changed, blind>> /\ op' # "script" /\ op = "script" BY <1>13 DEF ScriptStarts
  <2>2. \A p \in Parts : Like(live[p], expected[p]) BY <2>1 DEF Hashed
  <2>3. changed => live["boot"] \in Android BY <1>13 DEF ScriptStarts, OwnKernel
  <2>4. blind \/ \A p \in Parts : expected[p] # Ubuntu BY <2>1
  <2>5. CASE changed
    <3>1. blind \/ \A p \in Parts : live[p] # Ubuntu BY <2>2, <2>4 DEF Like
    <3>2. SoundSet(live) BY <3>1, <2>3, <2>5
    <3> QED BY <3>2, <2>1
  <2>6. CASE ~changed
    <3>1. SoundSet(expected) BY <2>1, <2>6
    <3>2. SoundSet(live) BY <3>1, <2>2 DEF Like
    <3> QED BY <3>2, <2>1
  <2> QED BY <2>5, <2>6
<1>14. CASE Copy BY <1>14 DEF Copy, Here
<1>15. CASE Check BY <1>15 DEF Check
<1>16. CASE Recheck BY <1>16 DEF Recheck, Here
<1>17. CASE Discard BY <1>17 DEF Discard
<1>18. CASE Retain BY <1>18 DEF Retain
<1>19. CASE Promote BY <1>19 DEF Promote
<1>20. CASE Finish BY <1>20 DEF Finish
<1>21. CASE Cleanup BY <1>21 DEF Cleanup, Undo
<1>22. CASE Show BY <1>22 DEF Show
<1>23. CASE Fresh BY <1>23 DEF Fresh, Complete
<1>24. CASE Write BY <1>24 DEF Write, Target, Saved
<1>25. CASE Reboot BY <1>25 DEF Reboot, AndroidEnds
<1>26. CASE CommandFails BY <1>26 DEF CommandFails
<1>27. CASE ScriptFails BY <1>27 DEF ScriptFails, Removing, Scripted
<1>28. CASE TrapFails BY <1>28 DEF TrapFails, Undo
<1>29. CASE WriteFails BY <1>29 DEF WriteFails, Tearing, Target, Saved
<1>30. CASE UNCHANGED vars BY <1>30 DEF vars
<1>31. CASE Leave BY <1>31 DEF Leave, AndroidEnds
<1> QED BY <1>1, <1>2, <1>3, <1>4, <1>5, <1>6, <1>7, <1>8, <1>9, <1>10, <1>11, <1>12, <1>13, <1>14, <1>15, <1>16, <1>17, <1>18, <1>19, <1>20, <1>21, <1>22, <1>23, <1>24, <1>25, <1>26, <1>27, <1>28, <1>29, <1>30, <1>31 DEF Next, App

\* Only what the script may copy is staged.
LEMMA StagedPreserved == ASSUME TypeOK, Scripting, Staged, [Next]_vars PROVE Staged'
<1> USE BackupAssumption, Partitions, Ends DEF TypeOK, Scripting, Staged, Good, Sound, SoundSet, Dirs, Scripted, platform, saved, ui, app, locals, restart, rest, Goto
<1>1. CASE Boot BY <1>1 DEF Boot, Starts
<1>2. CASE Restart BY <1>2 DEF Restart, AndroidEnds
<1>3. CASE Ota BY <1>3 DEF Ota
<1>4. CASE RootTool BY <1>4 DEF RootTool
<1>5. CASE FromUbuntu BY <1>5 DEF FromUbuntu, AndroidEnds, Complete
<1>6. CASE PowerLoss BY <1>6 DEF PowerLoss, AndroidEnds
<1>7. CASE Stuck BY <1>7 DEF Stuck, vars
<1>8. CASE StartRead BY <1>8 DEF StartRead, Mounts, Recovered
<1>9. CASE \E g \in {"ubuntu", "android"} : StartSwitch(g) BY <1>9 DEF StartSwitch
<1>10. CASE Hash BY <1>10 DEF Hash, Here
<1>11. CASE Decide BY <1>11, Decides
<1>12. CASE ScriptRefuses BY <1>12 DEF ScriptRefuses
<1>13. CASE ScriptStarts BY <1>13 DEF ScriptStarts
<1>14. CASE Copy
  <2>1. op = "copy" /\ UNCHANGED <<live, set, blind>> /\ stage' = [stage EXCEPT ![Here] = live[Here]] BY <1>14 DEF Copy
  <2>2. \A k \in 1..i : Sound(Order[k], stage'[Order[k]])
    <3>1. Here = Order[i] /\ Here \in Parts /\ stage'[Here] = live[Here] BY <2>1 DEF Here
    <3>2. Sound(Order[i], stage'[Order[i]]) BY <2>1, <3>1
    <3>3. ASSUME NEW k \in 1..i - 1 PROVE stage'[Order[k]] = stage[Order[k]] /\ Sound(Order[k], stage[Order[k]])
      <4>1. Order[k] \in Parts /\ Order[k] # Here
        <5>1. i \in 1..4 OBVIOUS
        <5>2. k \in 1..4 /\ k # i BY <5>1
        <5> HIDE DEF TypeOK, Scripting, Staged, Dirs
        <5> QED BY <5>1, <5>2, Partitions DEF Here
      <4>2. stage'[Order[k]] = stage[Order[k]] BY <2>1, <4>1
      <4>3. Sound(Order[k], stage[Order[k]])
        <5> HIDE DEF Sound
        <5> QED BY <2>1
      <4> QED BY <4>2, <4>3
    <3>4. \A k \in 1..i : k = i \/ k \in 1..i - 1 OBVIOUS
    <3>5. \A k \in 1..i - 1 : Sound(Order[k], stage'[Order[k]]) BY <2>1, <3>3
    <3> HIDE DEF Sound
    <3> QED BY <3>2, <3>4, <3>5
  <2>3. CASE i < 4
    <3>1. op' = "copy" /\ i' = i + 1 BY <1>14, <2>3 DEF Copy
    <3>2. \A k \in 1..i' - 1 : k \in 1..i BY <3>1
    <3> QED BY <2>1, <2>2, <3>1, <3>2
  <2>4. CASE ~(i < 4)
    <3>1. op' = "check" /\ i = 4 BY <1>14, <2>4 DEF Copy
    <3>2. \A p \in Parts : Sound(p, stage'[p])
      <4> HIDE DEF Sound
      <4> QED BY <2>2, <3>1
    <3> QED BY <2>1, <3>1, <3>2
  <2> QED BY <2>3, <2>4
<1>15. CASE Check BY <1>15 DEF Check
<1>16. CASE Recheck BY <1>16 DEF Recheck, Here
<1>17. CASE Discard BY <1>17 DEF Discard
<1>18. CASE Retain BY <1>18 DEF Retain
<1>19. CASE Promote BY <1>19 DEF Promote
<1>20. CASE Finish BY <1>20 DEF Finish
<1>21. CASE Cleanup BY <1>21 DEF Cleanup, Undo
<1>22. CASE Show BY <1>22 DEF Show
<1>23. CASE Fresh BY <1>23 DEF Fresh, Complete
<1>24. CASE Write BY <1>24 DEF Write, Target, Saved
<1>25. CASE Reboot BY <1>25 DEF Reboot, AndroidEnds
<1>26. CASE CommandFails BY <1>26 DEF CommandFails
<1>27. CASE ScriptFails BY <1>27 DEF ScriptFails, Removing, Scripted
<1>28. CASE TrapFails BY <1>28 DEF TrapFails, Undo
<1>29. CASE WriteFails BY <1>29 DEF WriteFails, Tearing, Target, Saved
<1>30. CASE UNCHANGED vars BY <1>30 DEF vars
<1>31. CASE Leave BY <1>31 DEF Leave, AndroidEnds
<1> QED BY <1>1, <1>2, <1>3, <1>4, <1>5, <1>6, <1>7, <1>8, <1>9, <1>10, <1>11, <1>12, <1>13, <1>14, <1>15, <1>16, <1>17, <1>18, <1>19, <1>20, <1>21, <1>22, <1>23, <1>24, <1>25, <1>26, <1>27, <1>28, <1>29, <1>30, <1>31 DEF Next, App

\* A write does not lose its target.
LEMMA WritingPreserved == ASSUME TypeOK, Alone, Writing, BackupIsAndroid, [Next]_vars PROVE Writing'
<1> USE BackupAssumption, Partitions, Ends DEF TypeOK, Alone, Writing, BackupIsAndroid, Backup, Good, Sound, Dirs, Scripted, UbuntuSet, Android, Ubuntu, Torn, None, platform, saved, ui, app, locals, restart, rest, Goto
<1>1. CASE Boot BY <1>1 DEF Boot, Starts
<1>2. CASE Restart BY <1>2 DEF Restart, AndroidEnds
<1>3. CASE Ota BY <1>3 DEF Ota
<1>4. CASE RootTool BY <1>4, SMTT(30) DEF RootTool
<1>5. CASE FromUbuntu BY <1>5 DEF FromUbuntu, AndroidEnds, Complete
<1>6. CASE PowerLoss BY <1>6 DEF PowerLoss, AndroidEnds, Tearing, Removing, Target, Saved
<1>7. CASE Stuck BY <1>7 DEF Stuck, vars
<1>8. CASE StartRead BY <1>8 DEF StartRead, Mounts, Recovered
<1>9. CASE \E g \in {"ubuntu", "android"} : StartSwitch(g) BY <1>9 DEF StartSwitch
<1>10. CASE Hash BY <1>10 DEF Hash, Here
<1>11. CASE Decide
  <2>1. op' = "fresh" => goal' \in Systems BY <1>11, Decides DEF Systems
  <2> QED BY <1>11, <2>1, Decides
<1>12. CASE ScriptRefuses BY <1>12 DEF ScriptRefuses
<1>13. CASE ScriptStarts BY <1>13 DEF ScriptStarts
<1>14. CASE Copy BY <1>14 DEF Copy, Here
<1>15. CASE Check BY <1>15 DEF Check
<1>16. CASE Recheck BY <1>16 DEF Recheck, Here
<1>17. CASE Discard BY <1>17 DEF Discard
<1>18. CASE Retain BY <1>18 DEF Retain
<1>19. CASE Promote BY <1>19 DEF Promote
<1>20. CASE Finish BY <1>20 DEF Finish, Systems
<1>21. CASE Cleanup BY <1>21 DEF Cleanup, Undo
<1>22. CASE Show BY <1>22 DEF Show
<1>23. CASE Fresh
  <2>1. op = "fresh" /\ op' \in {"idle", "write"} /\ UNCHANGED <<mount, set>> BY <1>23 DEF Fresh
  <2>2. ASSUME op' = "write"
        PROVE  /\ Complete(Saved(goal)) /\ goal' = goal /\ i' = 1 /\ overtaken' = leaving /\ leaving' = leaving
    BY <1>23, <2>2 DEF Fresh
  <2>3. ASSUME op' = "write" PROVE mount # "none" /\ (goal = "android" => set # Missing)
    BY <2>2, <2>3 DEF Complete, Missing, Saved
  <2> QED BY <2>1, <2>2, <2>3
<1>24. CASE Write
  <2>1. op = "write" /\ UNCHANGED <<mount, set, previous, blind>> /\ live' = [live EXCEPT ![Here] = Target[Here]]
    BY <1>24 DEF Write
  <2>2. CASE ~(i < 4) BY <1>24, <2>2 DEF Write
  <2>3. CASE i < 4
    <3>1. op' = "write" /\ i' = i + 1 /\ UNCHANGED <<goal, leaving, overtaken>> BY <1>24, <2>3 DEF Write
    <3>2. mount # "none" /\ goal \in Systems BY <2>1
    <3>3. \A k \in 1..i - 1 : live'[Order[k]] = live[Order[k]] BY <2>1 DEF Here
    <3>4. live'[Order[i]] = Target[Order[i]] BY <2>1 DEF Here
    <3>5. IF goal = "ubuntu" THEN live'[Order[i]] = Ubuntu ELSE Sound(Order[i], live'[Order[i]])
      BY <2>1, <3>2, <3>4 DEF Target, Saved, Systems
    <3>6. \A k \in 1..i' - 1 : k = i \/ k \in 1..i - 1 BY <3>1
    <3>7. \A k \in 1..i' - 1 :
            IF goal = "ubuntu" THEN live'[Order[k]] = Ubuntu ELSE Sound(Order[k], live'[Order[k]])
      BY <2>1, <3>3, <3>5, <3>6
    <3> QED BY <2>1, <3>1, <3>7
  <2> QED BY <2>2, <2>3
<1>25. CASE Reboot BY <1>25 DEF Reboot, AndroidEnds
<1>26. CASE CommandFails BY <1>26 DEF CommandFails
<1>27. CASE ScriptFails BY <1>27 DEF ScriptFails, Removing, Scripted
<1>28. CASE TrapFails BY <1>28 DEF TrapFails, Undo
<1>29. CASE WriteFails BY <1>29 DEF WriteFails, Tearing, Target, Saved
<1>30. CASE UNCHANGED vars BY <1>30 DEF vars
<1>31. CASE Leave BY <1>31 DEF Leave, AndroidEnds
<1> QED BY <1>1, <1>2, <1>3, <1>4, <1>5, <1>6, <1>7, <1>8, <1>9, <1>10, <1>11, <1>12, <1>13, <1>14, <1>15, <1>16, <1>17, <1>18, <1>19, <1>20, <1>21, <1>22, <1>23, <1>24, <1>25, <1>26, <1>27, <1>28, <1>29, <1>30, <1>31 DEF Next, App

\* What a tool writes while the images are copied and compared is newer than the copy.
LEMMA NewerPreserved == ASSUME TypeOK, Alone, Old, Newer, [Next]_vars PROVE Newer'
<1> USE BackupAssumption, Partitions, Ends DEF TypeOK, Alone, Old, Newer, Dirs, Scripted, Android, Ubuntu, Torn, None, platform, saved, ui, app, locals, restart, rest, Goto
<1>1. CASE Boot BY <1>1 DEF Boot, Starts
<1>2. CASE Restart BY <1>2 DEF Restart, AndroidEnds
<1>3. CASE Ota BY <1>3 DEF Ota
<1>4. CASE RootTool
  <2>1. version \in Int /\ live \in Dirs /\ stage \in Dirs OBVIOUS
  <2>2. \A p \in Parts : live'[p] = live[p] \/ (live'[p] = version + 1 /\ live[p] <= version /\ stage[p] <= version) BY <1>4 DEF RootTool
  <2>3. UNCHANGED <<op, i, current, stage>> BY <1>4 DEF RootTool
  <2>4. i \in 1..4 /\ \A k \in 1..4 : Order[k] \in Parts OBVIOUS
  <2> HIDE BackupAssumption, Partitions DEF TypeOK, Dirs, Missing, UbuntuSet, Android
  <2>5. \A k \in 1..4 : live[Order[k]] \in Int /\ stage[Order[k]] \in Int BY <2>1, <2>4, Numbers
  <2>6. \A k \in 1..4 : live'[Order[k]] \in Int /\ live'[Order[k]] >= live[Order[k]] BY <2>1, <2>2, <2>4, <2>5
  <2>7. \A k \in 1..i - 1 : k \in 1..4 BY <2>4
  <2>8. \A k \in i..4 : k \in 1..4 BY <2>4
  <2> QED BY <2>3, <2>4, <2>5, <2>6, <2>7, <2>8 DEF Newer
<1>5. CASE FromUbuntu BY <1>5 DEF FromUbuntu, AndroidEnds, Complete
<1>6. CASE PowerLoss BY <1>6 DEF PowerLoss, AndroidEnds, Tearing, Removing, Target, Saved
<1>7. CASE Stuck BY <1>7 DEF Stuck, vars
<1>8. CASE StartRead BY <1>8 DEF StartRead, Mounts, Recovered
<1>9. CASE \E g \in {"ubuntu", "android"} : StartSwitch(g) BY <1>9 DEF StartSwitch
<1>10. CASE Hash BY <1>10 DEF Hash, Here
<1>11. CASE Decide BY <1>11 DEF Decide
<1>12. CASE ScriptRefuses BY <1>12 DEF ScriptRefuses
<1>13. CASE ScriptStarts BY <1>13 DEF ScriptStarts
<1>14. CASE Copy
  <2>1. op = "copy" /\ UNCHANGED live /\ stage' = [stage EXCEPT ![Here] = live[Here]] BY <1>14 DEF Copy
  <2>2. \A k \in 1..i : live[Order[k]] >= stage'[Order[k]]
    <3>1. Here \in Parts /\ live[Here] \in Int /\ stage'[Here] = live[Here] BY <2>1 DEF Here
    <3>2. \A k \in 1..i - 1 : stage'[Order[k]] = stage[Order[k]] BY <2>1 DEF Here
    <3>3. \A k \in 1..i : k \in 1..i - 1 \/ Order[k] = Here BY DEF Here
    <3> QED BY <2>1, <3>1, <3>2, <3>3
  <2>3. CASE i < 4
    <3>1. op' = "copy" /\ i' = i + 1 BY <1>14, <2>3 DEF Copy
    <3> QED BY <3>1, <2>1, <2>2
  <2>4. CASE ~(i < 4)
    <3>1. i = 4 BY <2>4
    <3>3. op' = "check" BY <1>14, <2>4 DEF Copy
    <3>4. current' <=> live = stage' BY <1>14, <2>1, <2>4 DEF Copy
    <3>2. ASSUME ~current' PROVE \E k \in 1..4 : live[Order[k]] > stage'[Order[k]]
      <4>1. live # stage' BY <3>4, <3>2
      <4>2. PICK p \in Parts : live[p] # stage'[p] BY <4>1, <2>1
      <4>3. PICK k \in 1..4 : p = Order[k] OBVIOUS
      <4>4. stage' \in Dirs /\ live \in Dirs /\ p \in Parts BY <2>1 DEF Here
      <4>5. live[p] \in Int /\ stage'[p] \in Int BY <4>4, Numbers
      <4> QED BY <4>2, <4>3, <4>5, <2>2, <3>1
    <3> QED BY <3>3, <3>2, <2>1
  <2> QED BY <2>3, <2>4
<1>15. CASE Check BY <1>15 DEF Check
<1>16. CASE Recheck
  <2>1. UNCHANGED <<live, stage, current>> /\ op = "recheck" BY <1>16 DEF Recheck
  <2>2. CASE live[Here] = stage[Here] /\ i < 4
    <3>1. op' = "recheck" /\ i' = i + 1 BY <1>16, <2>2 DEF Recheck
    <3>2. live[Order[i]] \in Int BY Numbers
    <3>3. \A k \in i..4 : k = i \/ k \in i + 1..4 OBVIOUS
    <3>4. \A k \in i..4 : live[Order[k]] > stage[Order[k]] => k \in i + 1..4 BY <2>2, <3>2, <3>3 DEF Here
    <3> QED BY <3>1, <3>4, <2>1
  <2>3. CASE ~(live[Here] = stage[Here] /\ i < 4)
    <3>1. op' \in {"cleanup", "discard"} BY <1>16, <2>3 DEF Recheck
    <3> QED BY <3>1
  <2> QED BY <2>2, <2>3
<1>17. CASE Discard BY <1>17 DEF Discard
<1>18. CASE Retain BY <1>18 DEF Retain
<1>19. CASE Promote BY <1>19 DEF Promote
<1>20. CASE Finish BY <1>20 DEF Finish
<1>21. CASE Cleanup BY <1>21 DEF Cleanup, Undo
<1>22. CASE Show BY <1>22 DEF Show
<1>23. CASE Fresh BY <1>23 DEF Fresh, Complete
<1>24. CASE Write BY <1>24 DEF Write, Target, Saved
<1>25. CASE Reboot BY <1>25 DEF Reboot, AndroidEnds
<1>26. CASE CommandFails BY <1>26 DEF CommandFails
<1>27. CASE ScriptFails BY <1>27 DEF ScriptFails, Removing, Scripted
<1>28. CASE TrapFails BY <1>28 DEF TrapFails, Undo
<1>29. CASE WriteFails BY <1>29 DEF WriteFails, Tearing, Target, Saved
<1>30. CASE UNCHANGED vars BY <1>30 DEF vars
<1>31. CASE Leave BY <1>31 DEF Leave, AndroidEnds
<1> QED BY <1>1, <1>2, <1>3, <1>4, <1>5, <1>6, <1>7, <1>8, <1>9, <1>10, <1>11, <1>12, <1>13, <1>14, <1>15, <1>16, <1>17, <1>18, <1>19, <1>20, <1>21, <1>22, <1>23, <1>24, <1>25, <1>26, <1>27, <1>28, <1>29, <1>30, <1>31 DEF Next, App

\* Only a promotion changes the backup.
LEMMA BackupPreserved == ASSUME TypeOK, Staged, BackupIsAndroid, [Next]_vars PROVE BackupIsAndroid'
<1> USE BackupAssumption, Partitions, Ends DEF TypeOK, Staged, BackupIsAndroid, Backup, Good, Sound, SoundSet, Missing, Dirs, Android, Ubuntu, Torn, None, platform, saved, ui, app, locals, restart, rest, Goto
<1>1. CASE Boot BY <1>1 DEF Boot, Starts
<1>2. CASE Restart BY <1>2 DEF Restart, AndroidEnds
<1>3. CASE Ota BY <1>3 DEF Ota
<1>4. CASE RootTool BY <1>4 DEF RootTool
<1>5. CASE FromUbuntu BY <1>5 DEF FromUbuntu, AndroidEnds, Complete
<1>6. CASE PowerLoss BY <1>6 DEF PowerLoss, Removing, AndroidEnds
<1>7. CASE Stuck BY <1>7 DEF Stuck, vars
<1>8. CASE StartRead BY <1>8 DEF StartRead, Mounts, Recovered
<1>9. CASE \E g \in {"ubuntu", "android"} : StartSwitch(g) BY <1>9 DEF StartSwitch
<1>10. CASE Hash BY <1>10 DEF Hash, Here
<1>11. CASE Decide BY <1>11 DEF Decide
<1>12. CASE ScriptRefuses BY <1>12 DEF ScriptRefuses
<1>13. CASE ScriptStarts BY <1>13 DEF ScriptStarts
<1>14. CASE Copy BY <1>14 DEF Copy, Here
<1>15. CASE Check BY <1>15 DEF Check
<1>16. CASE Recheck BY <1>16 DEF Recheck, Here
<1>17. CASE Discard BY <1>17 DEF Discard
<1>18. CASE Retain BY <1>18 DEF Retain
<1>19. CASE Promote BY <1>19 DEF Promote
<1>20. CASE Finish BY <1>20 DEF Finish
<1>21. CASE Cleanup BY <1>21 DEF Cleanup, Undo
<1>22. CASE Show BY <1>22 DEF Show
<1>23. CASE Fresh BY <1>23 DEF Fresh, Complete
<1>24. CASE Write BY <1>24 DEF Write, Target, Saved
<1>25. CASE Reboot BY <1>25 DEF Reboot, AndroidEnds
<1>26. CASE CommandFails BY <1>26 DEF CommandFails
<1>27. CASE ScriptFails BY <1>27 DEF ScriptFails, Removing, Scripted
<1>28. CASE TrapFails BY <1>28 DEF TrapFails, Undo
<1>29. CASE WriteFails BY <1>29 DEF WriteFails, Tearing, Target, Saved
<1>30. CASE UNCHANGED vars BY <1>30 DEF vars
<1>31. CASE Leave BY <1>31 DEF Leave, Removing, AndroidEnds
<1> QED BY <1>1, <1>2, <1>3, <1>4, <1>5, <1>6, <1>7, <1>8, <1>9, <1>10, <1>11, <1>12, <1>13, <1>14, <1>15, <1>16, <1>17, <1>18, <1>19, <1>20, <1>21, <1>22, <1>23, <1>24, <1>25, <1>26, <1>27, <1>28, <1>29, <1>30, <1>31 DEF Next, App

\* A staged set that is not the partitions does not pass the second reading.
LEMMA SnapshotPreserved == ASSUME TypeOK, Newer, BackupIsSnapshot, [Next]_vars PROVE BackupIsSnapshot'
<1> USE Ends DEF TypeOK, Newer, BackupIsSnapshot, Dirs, Scripted, platform, saved, ui, app, locals, restart, rest, Goto
<1>1. CASE Boot BY <1>1 DEF Boot, Starts
<1>2. CASE Restart BY <1>2 DEF Restart, AndroidEnds
<1>3. CASE Ota BY <1>3 DEF Ota
<1>4. CASE RootTool BY <1>4 DEF RootTool
<1>5. CASE FromUbuntu BY <1>5 DEF FromUbuntu, AndroidEnds, Complete
<1>6. CASE PowerLoss BY <1>6 DEF PowerLoss, AndroidEnds
<1>7. CASE Stuck BY <1>7 DEF Stuck, vars
<1>8. CASE StartRead BY <1>8 DEF StartRead, Mounts, Recovered
<1>9. CASE \E g \in {"ubuntu", "android"} : StartSwitch(g) BY <1>9 DEF StartSwitch
<1>10. CASE Hash BY <1>10 DEF Hash, Here
<1>11. CASE Decide BY <1>11 DEF Decide
<1>12. CASE ScriptRefuses BY <1>12 DEF ScriptRefuses
<1>13. CASE ScriptStarts BY <1>13 DEF ScriptStarts
<1>14. CASE Copy BY <1>14 DEF Copy, Here
<1>15. CASE Check BY <1>15 DEF Check
<1>16. CASE Recheck
  <2> SUFFICES ASSUME op' = "discard" PROVE current' BY <1>16 DEF Recheck
  <2>1. op = "recheck" /\ live[Here] = stage[Here] /\ i = 4 /\ (current' <=> current) BY <1>16 DEF Recheck
  <2>2. Here \in Parts /\ live[Here] \in Int BY <2>1, Partitions DEF Here, Android, Ubuntu, Torn, None
  <2>3. ~(\E k \in i..4 : live[Order[k]] > stage[Order[k]]) BY <2>1, <2>2 DEF Here
  <2> QED BY <2>1, <2>3
<1>17. CASE Discard BY <1>17 DEF Discard
<1>18. CASE Retain BY <1>18 DEF Retain
<1>19. CASE Promote BY <1>19 DEF Promote
<1>20. CASE Finish BY <1>20 DEF Finish
<1>21. CASE Cleanup BY <1>21 DEF Cleanup, Undo
<1>22. CASE Show BY <1>22 DEF Show
<1>23. CASE Fresh BY <1>23 DEF Fresh, Complete
<1>24. CASE Write BY <1>24 DEF Write, Target, Saved
<1>25. CASE Reboot BY <1>25 DEF Reboot, AndroidEnds
<1>26. CASE CommandFails BY <1>26 DEF CommandFails
<1>27. CASE ScriptFails BY <1>27 DEF ScriptFails, Removing, Scripted
<1>28. CASE TrapFails BY <1>28 DEF TrapFails, Undo
<1>29. CASE WriteFails BY <1>29 DEF WriteFails, Tearing, Target, Saved
<1>30. CASE UNCHANGED vars BY <1>30 DEF vars
<1>31. CASE Leave BY <1>31 DEF Leave, AndroidEnds
<1> QED BY <1>1, <1>2, <1>3, <1>4, <1>5, <1>6, <1>7, <1>8, <1>9, <1>10, <1>11, <1>12, <1>13, <1>14, <1>15, <1>16, <1>17, <1>18, <1>19, <1>20, <1>21, <1>22, <1>23, <1>24, <1>25, <1>26, <1>27, <1>28, <1>29, <1>30, <1>31 DEF Next, App

\* The app restarts after a whole write, or where the hashes were those of a known set.
LEMMA WholePreserved == ASSUME TypeOK, Alone, Images, Hashed, Scripting, Writing, BackupIsAndroid, RestartsWhole, [Next]_vars PROVE RestartsWhole'
<1> USE BackupAssumption, Partitions, Ends DEF TypeOK, Alone, RestartsWhole, Whole, Good, Sound, SoundSet, Dirs, Scripted, UbuntuSet, Android, Ubuntu, Torn, None, platform, saved, ui, app, locals, restart, rest, Goto
<1>1. CASE Boot BY <1>1 DEF Boot, Starts
<1>2. CASE Restart BY <1>2 DEF Restart, AndroidEnds
<1>3. CASE Ota BY <1>3 DEF Ota
<1>4. CASE RootTool BY <1>4 DEF RootTool
<1>5. CASE FromUbuntu BY <1>5 DEF FromUbuntu, AndroidEnds, Complete
<1>6. CASE PowerLoss BY <1>6 DEF PowerLoss, AndroidEnds
<1>7. CASE Stuck BY <1>7 DEF Stuck, vars
<1>8. CASE StartRead BY <1>8 DEF StartRead, Mounts, Recovered
<1>9. CASE \E g \in {"ubuntu", "android"} : StartSwitch(g) BY <1>9 DEF StartSwitch
<1>10. CASE Hash BY <1>10 DEF Hash, Here
<1>11. CASE Decide
  <2> SUFFICES ASSUME op' = "reboot", ~blind' PROVE Whole BY <1>11 DEF Decide, Whole
  <2>1. op = "decide" /\ ~blind BY <1>11 DEF Decide
  <2>2. \A p \in Parts : Like(live[p], expected[p]) BY <2>1 DEF Hashed
  <2>3. PICK known \in SUBSET Systems : Decision(Found(known)) \in {"linux staged", "unchanged"}
    BY <1>11 DEF Decide
  <2>4. mount # "none" /\ set # Missing BY <2>3 DEF Decision, Saved
  <2>5. \A s \in Systems : Found(known)[s] \in {Missing, IF s = "ubuntu" THEN UbuntuSet ELSE set}
    BY <2>4 DEF Found, Saved
  <2>6. CASE Decision(Found(known)) = "linux staged"
    <3>1. expected = Found(known)["ubuntu"] /\ Complete(expected) BY <2>6 DEF Decision, Identified
    <3>2. expected = UbuntuSet BY <2>5, <3>1 DEF Systems, Complete, Missing
    <3>3. \A p \in Parts : live[p] = Ubuntu BY <2>2, <3>2 DEF Like
    <3> QED BY <3>3 DEF Whole
  <2>7. CASE Decision(Found(known)) = "unchanged"
    <3>1. expected = Found(known)["android"] /\ Complete(expected) BY <2>7 DEF Decision, Identified
    <3>2. expected = set BY <2>5, <3>1 DEF Systems, Complete, Missing
    <3>3. \A p \in Parts : Good(p, expected[p]) BY <2>1, <2>4, <3>2 DEF BackupIsAndroid, Backup
    <3> QED BY <2>2, <3>3 DEF Like, Whole
  <2> QED BY <2>3, <2>6, <2>7
<1>12. CASE ScriptRefuses BY <1>12 DEF ScriptRefuses
<1>13. CASE ScriptStarts BY <1>13 DEF ScriptStarts
<1>14. CASE Copy BY <1>14 DEF Copy, Here
<1>15. CASE Check BY <1>15 DEF Check
<1>16. CASE Recheck BY <1>16 DEF Recheck, Here
<1>17. CASE Discard BY <1>17 DEF Discard
<1>18. CASE Retain BY <1>18 DEF Retain
<1>19. CASE Promote BY <1>19 DEF Promote
<1>20. CASE Finish
  <2>1. UNCHANGED <<live, blind>> /\ op = "finish" BY <1>20 DEF Finish
  <2>2. SoundSet(live) BY <2>1 DEF Scripting
  <2> QED BY <2>1, <2>2 DEF Whole
<1>21. CASE Cleanup BY <1>21 DEF Cleanup, Undo
<1>22. CASE Show BY <1>22 DEF Show
<1>23. CASE Fresh BY <1>23 DEF Fresh, Complete
<1>24. CASE Write
  <2>0. CASE i < 4 BY <1>24, <2>0 DEF Write, Writing
  <2> SUFFICES ASSUME i = 4, ~blind PROVE Whole' BY <1>24, <2>0 DEF Write
  <2>1. op = "write" /\ mount # "none" /\ live' = [live EXCEPT ![Here] = Target[Here]] BY <1>24 DEF Write, Writing
  <2>2. live' \in [Parts -> Android \cup {Ubuntu, Torn, None}] BY <1>24, <2>1, TypePreserved DEF Next, App
  <2>3. \A p \in Parts : p = Order[4] \/ \E k \in 1..3 : p = Order[k] OBVIOUS
  <2>4. \A k \in 1..3 : live'[Order[k]] = live[Order[k]] BY <2>1 DEF Here
  <2>5. live'[Order[4]] = Target[Order[4]] BY <2>1 DEF Here
  <2>6. CASE goal = "ubuntu"
    <3>1. \A k \in 1..3 : live'[Order[k]] = Ubuntu BY <2>1, <2>4, <2>6 DEF Writing
    <3>2. live'[Order[4]] = Ubuntu BY <2>1, <2>5, <2>6 DEF Target, Saved
    <3>3. \A p \in Parts : live'[p] = Ubuntu
      <4> HIDE Partitions, BackupAssumption DEF TypeOK, Dirs, Android
      <4> QED BY <2>3, <3>1, <3>2
    <3> QED BY <3>3, <2>2 DEF Whole
  <2>7. CASE goal = "android"
    <3>1. \A k \in 1..3 : Good(Order[k], live'[Order[k]]) BY <2>1, <2>4, <2>7 DEF Writing
    <3>2. Good(Order[4], live'[Order[4]]) BY <2>1, <2>5, <2>7 DEF Target, Saved, Writing, BackupIsAndroid, Backup
    <3>3. \A p \in Parts : Good(p, live'[p])
      <4> HIDE Partitions, BackupAssumption DEF TypeOK, Dirs, Android, Good, Sound
      <4> QED BY <2>3, <3>1, <3>2
    <3> QED BY <3>3 DEF Whole
  <2> QED BY <2>1, <2>6, <2>7 DEF Writing, Systems
<1>25. CASE Reboot BY <1>25 DEF Reboot, AndroidEnds
<1>26. CASE CommandFails BY <1>26 DEF CommandFails
<1>27. CASE ScriptFails BY <1>27 DEF ScriptFails, Removing, Scripted
<1>28. CASE TrapFails BY <1>28 DEF TrapFails, Undo
<1>29. CASE WriteFails
  <2>1. op = "write" /\ op' = "idle" /\ UNCHANGED <<leaving, overtaken>> BY <1>29 DEF WriteFails
  <2>2. leaving => overtaken BY <2>1 DEF Writing
  <2> QED BY <2>1, <2>2
<1>30. CASE UNCHANGED vars BY <1>30 DEF vars
<1>31. CASE Leave BY <1>31 DEF Leave, AndroidEnds
<1> QED BY <1>1, <1>2, <1>3, <1>4, <1>5, <1>6, <1>7, <1>8, <1>9, <1>10, <1>11, <1>12, <1>13, <1>14, <1>15, <1>16, <1>17, <1>18, <1>19, <1>20, <1>21, <1>22, <1>23, <1>24, <1>25, <1>26, <1>27, <1>28, <1>29, <1>30, <1>31 DEF Next, App

\* What the owner starts with.
LEMMA InitEstablishes == Init => IInv
<1> USE BackupAssumption, Partitions DEF Init, Dirs, Missing, UbuntuSet, Scripted, Android, Ubuntu, Torn, None
<1> SUFFICES ASSUME Init PROVE IInv OBVIOUS
<1>1. TypeOK
  <2>1. 1 \in Android /\ live \in Dirs /\ set \in Dirs OBVIOUS
  <2>2. uname = 0 /\ version = 1 /\ faults = 0 /\ MaxFaults \in Nat OBVIOUS
  <2>3. dirty \in BOOLEAN /\ named \in BOOLEAN /\ due \in BOOLEAN /\ changed \in BOOLEAN /\ current \in BOOLEAN OBVIOUS
  <2>6. leaving \in BOOLEAN /\ overtaken \in BOOLEAN /\ blind \in BOOLEAN OBVIOUS
  <2>4. expected = Missing /\ previous = Missing /\ stage = Missing /\ shown = [s \in Systems |-> Missing] OBVIOUS
  <2>5. up = "off" /\ mount = "none" /\ next = "none" /\ op = "idle" /\ i = 1 /\ goal = "show" OBVIOUS
  <2> HIDE BackupAssumption, Partitions DEF Init, Dirs, Missing, UbuntuSet, Android
  <2> QED BY <2>1, <2>2, <2>3, <2>4, <2>5, <2>6, Known DEF TypeOK
<1>2. Alone /\ Images BY DEF Alone, Images
<1>3. Old BY DEF Old
<1>4. Hashed /\ Scripting /\ Staged /\ Writing /\ Newer BY DEF Hashed, Scripting, Staged, Writing, Newer
<1>5. BackupIsAndroid BY DEF BackupIsAndroid, Backup, Good
<1>6. BackupIsSnapshot /\ RestartsWhole BY DEF BackupIsSnapshot, RestartsWhole
<1> QED BY <1>1, <1>2, <1>3, <1>4, <1>5, <1>6 DEF IInv, Goals

\* Only a promotion changes the backup: its renames, and their undoing, leave it as it is.
LEMMA BackupKept == ASSUME IInv, [Next]_vars, ~Promote PROVE Backup' = Backup
<1> USE DEF IInv
<1>1. CASE Retain
  <2>1. op = "retain" /\ previous' = set /\ set' = Missing BY <1>1 DEF Retain
  <2>2. set # Missing BY <2>1 DEF Staged
  <2> QED BY <2>1, <2>2 DEF Backup
<1>2. CASE Discard
  <2>1. op = "discard" /\ UNCHANGED set BY <1>2 DEF Discard
  <2>2. set # Missing BY <2>1 DEF Staged
  <2> QED BY <2>1, <2>2 DEF Backup
<1>3. CASE PowerLoss \/ Leave \/ ScriptFails
  <2>1. UNCHANGED set /\ (op # "discard" => UNCHANGED previous)
    BY <1>3 DEF PowerLoss, Leave, ScriptFails, Removing
  <2>2. op = "discard" => set # Missing BY DEF Staged
  <2> QED BY <2>1, <2>2 DEF Backup
<1>4. CASE StartRead \/ Cleanup \/ TrapFails
  BY <1>4 DEF StartRead, Recovered, Cleanup, TrapFails, Undo, Backup
<1>5. CASE Boot \/ Restart \/ Ota \/ RootTool \/ FromUbuntu \/ Stuck \/ \E g \in {"ubuntu", "android"} : StartSwitch(g)
  BY <1>5 DEF Boot, Restart, Ota, RootTool, FromUbuntu, Stuck, StartSwitch, AndroidEnds, saved, vars, Backup
<1>6. CASE Hash \/ Decide \/ ScriptRefuses \/ ScriptStarts \/ Copy \/ Check \/ Recheck \/ Finish
  BY <1>6 DEF Hash, Decide, ScriptRefuses, ScriptStarts, Copy, Check, Recheck, Finish, saved, Backup
<1>7. CASE Show \/ Fresh \/ Write \/ Reboot \/ CommandFails \/ WriteFails
  BY <1>7 DEF Show, Fresh, Write, Reboot, CommandFails, WriteFails, saved, Backup
<1>8. CASE UNCHANGED vars BY <1>8 DEF vars, saved, Backup
<1> QED BY <1>1, <1>2, <1>3, <1>4, <1>5, <1>6, <1>7, <1>8 DEF Next, App

\* A promotion finds a staged set that is good and that stood in the partitions.
LEMMA Promoted == ASSUME IInv, Promote PROVE Backup' = stage /\ SoundSet(stage) /\ Complete(stage) /\ current
<1>1. op = "promote" /\ set' = stage BY DEF Promote
<1>2. SoundSet(stage) BY <1>1 DEF IInv, Staged
<1>3. \A p \in Parts : stage[p] # None BY <1>2 DEF Sound, SoundSet
<1>4. stage # Missing BY <1>3, Partitions DEF Missing
<1>5. current BY <1>1 DEF IInv, Goals, BackupIsSnapshot
<1> QED BY <1>1, <1>2, <1>3, <1>4, <1>5 DEF Backup, Complete

\* A step that changes the backup is a promotion of a staged set.
LEMMA ReplacedWhole == ASSUME IInv, [Next]_vars PROVE Backup' # Backup => Backup' = stage /\ Complete(stage) /\ current
BY BackupKept, Promoted

\* The invariant of the app, its script and the tools around them, for all versions.
THEOREM IInvHolds == Spec => []IInv
<1>1. IInv /\ [Next]_vars => IInv'
  BY TypePreserved, AlonePreserved, LivePreserved, OldPreserved, HashedPreserved, ScriptingPreserved, StagedPreserved,
     WritingPreserved, NewerPreserved, BackupPreserved, SnapshotPreserved, WholePreserved DEF IInv, Goals
<1> QED BY InitEstablishes, <1>1, PTL DEF Spec

\* The state of the tablet and of the app keeps its types.
THEOREM TypeCorrect == Spec => []TypeOK
BY IInvHolds, PTL DEF IInv

\* However switches, refreshes and their undoing are cut short, the set that can be
\* restored is complete, and it holds no image of Ubuntu unless partitions that held one were once
\* refreshed while the saved Ubuntu could not be hashed.
THEOREM BackupAlwaysAndroid == Spec => []BackupIsAndroid
BY IInvHolds, PTL DEF IInv, Goals

\* A set that is about to replace the backup stood in the partitions at one time,
\* however many tools write while it is hashed, copied and compared.
THEOREM StagedWasLive == Spec => []BackupIsSnapshot
BY IInvHolds, PTL DEF IInv, Goals

\* The app restarts into the partitions of one system only, unless the restart of a write was
\* overtaken by another write, or the backup is not Android's for want of Ubuntu's hashes.
THEOREM RestartsAlwaysWhole == Spec => []RestartsWhole
BY IInvHolds, PTL DEF IInv, Goals

\* The backup is replaced by a complete set, in one step, or not at all.
THEOREM BackupAlwaysReplacedWhole == Spec => BackupReplacedWhole
<1>1. IInv /\ [Next]_vars => [Backup' # Backup => Backup' = stage /\ Complete(stage) /\ current]_vars BY ReplacedWhole
<1> QED BY IInvHolds, <1>1, PTL DEF Spec, BackupReplacedWhole

-----------------------------------------------------------------------------
(* The backup never goes back to an older Android. *)

\* The partitions whose images have been copied, while the copies may become the backup.
Copied ==
  IF op = "copy" THEN {Order[k] : k \in 1..i - 1}
  ELSE IF op \in {"check", "recheck", "discard", "retain", "promote"} THEN Parts ELSE {}

\* Android's images in the partitions and in the copies are not older than the backup's, and no copy
\* is newer than its partition.
NotOlder ==
  /\ \A p \in Parts : live[p] \in Android => live[p] >= Backup[p]
  /\ \A p \in Copied : (stage[p] \in Android => stage[p] >= Backup[p]) /\ live[p] >= stage[p]

\* The backup is a directory of images.
LEMMA BackupIsDir == TypeOK => Backup \in Dirs
BY DEF TypeOK, Backup

\* What the app writes as Android is the backup, what tools write is newer than everything.
LEMMA LiveNotOlder ==
  ASSUME IInv, IInv', NotOlder, [Next]_vars
  PROVE  \A p \in Parts : live'[p] \in Android =>
           (live[p] \in Android /\ live'[p] >= live[p]) \/ live'[p] = Backup[p]
<1> SUFFICES ASSUME NEW p \in Parts, live'[p] \in Android
             PROVE  (live[p] \in Android /\ live'[p] >= live[p]) \/ live'[p] = Backup[p]
  OBVIOUS
<1>0. live[p] \in Int /\ version \in Int BY BackupAssumption, Numbers DEF IInv, TypeOK, Android
<1>1. CASE live'[p] = live[p] BY <1>0, <1>1
<1>2. CASE Ota \/ RootTool
  <2>1. live \in Dirs /\ live[p] <= version BY DEF IInv, TypeOK, Old
  <2>2. live'[p] = live[p] \/ (live[p] \in Android /\ live'[p] = version + 1) BY <1>2, <2>1 DEF Ota, RootTool, Dirs
  <2> QED BY <1>0, <2>1, <2>2
<1>3. CASE FromUbuntu
  <2>1. set # Missing BY <1>3, Partitions DEF FromUbuntu, Complete, Missing
  <2>2. live'[p] \in {set[p], live[p]} BY <1>3 DEF FromUbuntu
  <2> QED BY <1>0, <2>1, <2>2 DEF Backup
<1>4. CASE Write \/ WriteFails \/ PowerLoss \/ Leave
  <2>2. live'[p] = live[p] \/ (op = "write" /\ live'[p] \in {Torn, Target[p]})
    BY <1>4, Torns DEF IInv, Write, WriteFails, PowerLoss, Leave
  <2>3. CASE live'[p] = Torn BY <2>3, BackupAssumption DEF Android, Torn
  <2>4. CASE op = "write" /\ live'[p] = Target[p]
    <3>0. mount # "none" /\ goal \in Systems BY <2>4 DEF IInv, Writing
    <3>1. goal = "ubuntu" => live'[p] = Ubuntu BY <2>4, <3>0 DEF Target, Saved, UbuntuSet
    <3>2. Ubuntu \notin Android BY BackupAssumption DEF Android, Ubuntu
    <3>3. goal = "android" /\ set # Missing BY <2>4, <3>0, <3>1, <3>2 DEF IInv, Writing, Systems
    <3> QED BY <2>4, <3>0, <3>3 DEF Target, Saved, Backup
  <2> QED BY <1>0, <2>2, <2>3, <2>4
<1>5. CASE UNCHANGED live BY <1>0, <1>5
<1> QED
  BY <1>2, <1>3, <1>4, <1>5
  DEF Next, App, Boot, Restart, Stuck, StartRead, StartSwitch, Hash, Decide, ScriptRefuses, ScriptStarts, Copy,
      Check, Recheck, Discard, Retain, Promote, Finish, Cleanup, Show, Fresh, Reboot, CommandFails, ScriptFails,
      TrapFails, vars

\* While the script runs, only tools write to the partitions.
LEMMA ScriptReads ==
  ASSUME IInv, op \in Scripted, op' \in Scripted, [Next]_vars
  PROVE  \A p \in Parts : live'[p] >= live[p]
<1> SUFFICES ASSUME NEW p \in Parts PROVE live'[p] >= live[p] OBVIOUS
<1>0. live[p] \in Int /\ version \in Int /\ live[p] <= version /\ live \in Dirs
  BY BackupAssumption, Numbers DEF IInv, TypeOK, Android, Old
<1>1. CASE Ota \/ RootTool
  <2>1. live'[p] = live[p] \/ live'[p] = version + 1 BY <1>0, <1>1 DEF Ota, RootTool, Dirs
  <2> QED BY <1>0, <2>1
<1>2. CASE UNCHANGED live BY <1>0, <1>2
<1>3. CASE FromUbuntu \/ PowerLoss \/ Leave BY <1>3, Ends DEF FromUbuntu, PowerLoss, Leave, AndroidEnds, Scripted
<1>4. CASE Write \/ WriteFails BY <1>4 DEF Write, WriteFails, Scripted
<1> QED
  BY <1>1, <1>2, <1>3, <1>4
  DEF Next, App, Boot, Restart, AndroidEnds, Stuck, StartRead, StartSwitch, Hash, Decide, ScriptRefuses, ScriptStarts,
      Copy, Check, Recheck, Discard, Retain, Promote, Finish, Cleanup, Show, Fresh, Reboot, CommandFails, ScriptFails,
      TrapFails, vars

\* What was copied are partitions.
LEMMA CopiedParts == ASSUME TypeOK PROVE Copied \subseteq Parts
BY Partitions DEF TypeOK, Copied

\* A copy is made of its partition, and stays.
LEMMA CopiedGrows ==
  ASSUME IInv, [Next]_vars
  PROVE  \A p \in Copied' :
           \/ p \in Copied /\ stage'[p] = stage[p] /\ op \in Scripted /\ op' \in Scripted
           \/ p \in Parts /\ stage'[p] = live[p] /\ live' = live /\ SoundSet(live)
<1> SUFFICES ASSUME NEW p \in Copied'
             PROVE  \/ p \in Copied /\ stage'[p] = stage[p] /\ op \in Scripted /\ op' \in Scripted
                    \/ p \in Parts /\ stage'[p] = live[p] /\ live' = live /\ SoundSet(live)
  OBVIOUS
<1> USE DEF IInv, TypeOK
<1>1. CASE Copy
  <2>1. op = "copy" /\ live' = live /\ stage' = [stage EXCEPT ![Order[i]] = live[Order[i]]] /\ op' \in {"copy", "check"}
    BY <1>1 DEF Copy, Here, Goto
  <2>2. SoundSet(live) BY <2>1 DEF Scripting, Scripted
  <2>3. p \in Parts
    <3>1. TypeOK' BY TypePreserved, <1>1 DEF Goals
    <3> QED BY <2>1, <3>1, Partitions DEF Copied
  <2>4. CASE p = Order[i] BY <2>1, <2>2, <2>3, <2>4 DEF Dirs
  <2>5. CASE p # Order[i]
    <3>1. p \in {Order[k] : k \in 1..i - 1}
      <4>1. CASE op' = "copy"
        <5>1. i' = i + 1 BY <1>1, <2>1, <4>1 DEF Copy, Goto
        <5> QED BY <2>5, <4>1, <5>1 DEF Copied
      <4>2. CASE op' = "check"
        <5>1. i = 4 BY <1>1, <2>1, <4>2 DEF Copy, Goto
        <5> QED BY <2>3, <2>5, <5>1, Partitions
      <4> QED BY <2>1, <4>1, <4>2
    <3> QED BY <2>1, <2>3, <2>5, <3>1 DEF Copied, Scripted, Dirs
  <2> QED BY <2>4, <2>5
<1>2. CASE Check \/ Recheck \/ Discard \/ Retain
  BY <1>2 DEF Check, Recheck, Discard, Retain, Goto, Copied, Scripted, saved
<1>3. CASE ScriptStarts BY <1>3 DEF ScriptStarts, Goto, Copied
<1>4. CASE Boot \/ Ota \/ RootTool \/ Stuck \/ UNCHANGED vars
  BY <1>4 DEF Boot, Ota, RootTool, Stuck, vars, app, saved, Copied, Scripted
<1>5. CASE Restart \/ FromUbuntu \/ PowerLoss \/ Reboot \/ Leave
  BY <1>5, Ends DEF Restart, FromUbuntu, PowerLoss, Reboot, Leave, AndroidEnds, Copied
<1>6. CASE StartRead \/ \E g \in {"ubuntu", "android"} : StartSwitch(g) BY <1>6 DEF StartRead, StartSwitch, Goto, Copied
<1>7. CASE Hash \/ ScriptRefuses \/ Promote \/ Finish \/ Cleanup
  BY <1>7, Ends DEF Hash, ScriptRefuses, Promote, Finish, Cleanup, Goto, Copied
<1>8. CASE Show \/ Fresh \/ Write \/ CommandFails \/ ScriptFails \/ TrapFails \/ WriteFails
  BY <1>8, Ends DEF Show, Fresh, Write, CommandFails, ScriptFails, TrapFails, WriteFails, Goto, Copied
<1>9. CASE Decide
  <2>1. op' \in {"idle", "show", "reboot", "fresh", "script"} BY <1>9, Ends, Decides
  <2> QED BY <2>1 DEF Copied
<1> QED BY <1>1, <1>2, <1>3, <1>4, <1>5, <1>6, <1>7, <1>8, <1>9 DEF Next, App

\* Every step keeps images of Android from being older than the backup.
LEMMA NotOlderPreserved == ASSUME IInv, IInv', NotOlder, [Next]_vars PROVE NotOlder'
<1>0. \A p \in Parts : /\ live[p] \in Int /\ live'[p] \in Int /\ stage[p] \in Int /\ stage'[p] \in Int
                       /\ Backup[p] \in Int
  BY BackupIsDir, Numbers DEF IInv, TypeOK
<1>1. CASE ~Promote
  <2>1. Backup' = Backup BY <1>1, BackupKept
  <2>2. ASSUME NEW p \in Parts, live'[p] \in Android PROVE live'[p] >= Backup'[p]
    <3>1. live'[p] = Backup[p] \/ (live[p] \in Android /\ live'[p] >= live[p]) BY <2>2, LiveNotOlder
    <3> QED BY <1>0, <2>1, <2>2, <3>1 DEF NotOlder
  <2>3. ASSUME NEW p \in Copied'
        PROVE  p \in Parts /\ (stage'[p] \in Android => stage'[p] >= Backup'[p]) /\ live'[p] >= stage'[p]
    <3>1. CASE p \in Copied /\ stage'[p] = stage[p] /\ op \in Scripted /\ op' \in Scripted
      <4>1. p \in Parts BY <3>1, CopiedParts DEF IInv
      <4>2. live'[p] >= live[p] BY <3>1, <4>1, ScriptReads
      <4> QED BY <1>0, <2>1, <3>1, <4>1, <4>2 DEF NotOlder
    <3>2. CASE p \in Parts /\ stage'[p] = live[p] /\ live' = live BY <1>0, <2>1, <3>2 DEF NotOlder
    <3> QED BY <3>1, <3>2, CopiedGrows
  <2> QED BY <2>2, <2>3 DEF NotOlder
<1>2. CASE Promote
  <2>1. op = "promote" /\ op' = "finish" /\ live' = live BY <1>2 DEF Promote, Goto
  <2>2. Copied = Parts /\ Copied' = {} BY <2>1 DEF Copied
  <2>3. Backup' = stage BY <1>2, Promoted
  <2> QED BY <2>1, <2>2, <2>3 DEF NotOlder
<1> QED BY <1>1, <1>2

\* Where an image of Android comes into the backup, it is as new as what it replaces.
LEMMA ReplacedByNewer ==
  ASSUME IInv, IInv', NotOlder, [Next]_vars
  PROVE  \A p \in Parts : Backup'[p] \in Android => Backup'[p] >= Backup[p]
<1> SUFFICES ASSUME NEW p \in Parts, Backup'[p] \in Android PROVE Backup'[p] >= Backup[p] OBVIOUS
<1>1. CASE ~Promote
  <2>1. Backup[p] \in Int BY BackupIsDir, Numbers DEF IInv
  <2> QED BY <1>1, <2>1, BackupKept
<1>2. CASE Promote
  <2>1. op = "promote" BY <1>2 DEF Promote
  <2>2. Backup' = stage BY <1>2, Promoted
  <2>3. stage[p] \in Android => stage[p] >= Backup[p] BY <2>1 DEF NotOlder, Copied
  <2> QED BY <2>2, <2>3
<1> QED BY <1>1, <1>2

\* The saved Android never goes back: whatever is cut short, undone, restored from it or switched in
\* between, and whether or not the hashes of the saved sets could be read for the decision, no image
\* of Android in it gives way to an older one (refresh-android.sh, BootSets.recoverInterrupted).
THEOREM BackupNeverOlder ==
  Spec => [][\A p \in Parts : Backup'[p] \in Android => Backup'[p] >= Backup[p]]_vars
<1>1. Init => NotOlder
  <2> SUFFICES ASSUME Init PROVE NotOlder OBVIOUS
  <2>1. \A p \in Parts : set[p] = 1 /\ live[p] \in {1, Ubuntu} BY DEF Init, UbuntuSet
  <2>2. set # Missing BY <2>1, Partitions DEF Missing, None
  <2>3. Copied = {} BY DEF Init, Copied
  <2> QED BY <2>1, <2>2, <2>3, BackupAssumption DEF NotOlder, Backup, Android, Ubuntu
<1>2. IInv /\ IInv' /\ NotOlder /\ [Next]_vars => NotOlder' BY NotOlderPreserved
<1>3. IInv /\ IInv' /\ NotOlder /\ [Next]_vars => [\A p \in Parts : Backup'[p] \in Android => Backup'[p] >= Backup[p]]_vars
  <2>1. ASSUME IInv, IInv', NotOlder, [Next]_vars
        PROVE  [\A p \in Parts : Backup'[p] \in Android => Backup'[p] >= Backup[p]]_vars
    BY <2>1, ReplacedByNewer
  <2> QED BY <2>1
<1> QED BY <1>1, <1>2, <1>3, IInvHolds, PTL DEF Spec

-----------------------------------------------------------------------------
(* Every operation of the app ends. *)

\* How many steps an operation may still take.
Ahead ==
  CASE op = "idle" -> 0
    [] op = "write" -> 7 - i
    [] op = "show" -> 7
    [] op \in {"fresh", "reboot", "cleanup"} -> 8
    [] op = "finish" -> 9
    [] op = "promote" -> 10
    [] op = "retain" -> 11
    [] op = "discard" -> 12
    [] op = "recheck" -> 17 - i
    [] op = "check" -> 17
    [] op = "copy" -> 22 - i
    [] op = "script" -> 22
    [] op = "decide" -> 23
    [] op = "hash" -> 28 - i

\* The steps of an operation, and those in which one of its commands fails.
AppStep == App \/ CommandFails \/ ScriptFails \/ TrapFails \/ WriteFails

\* A step of the operation brings its end closer; any other leaves it where it is or is its end.
Closer == IF AppStep THEN Ahead' < Ahead ELSE op # "idle" => UNCHANGED <<op, i>> \/ op' = "idle"

\* Every step of an operation is one of those that its end is away.
LEMMA StepCloser == ASSUME TypeOK, AppStep PROVE Ahead' < Ahead
<1> USE Ends DEF TypeOK, Goto, Ahead, app, locals
<1>1. CASE Hash BY <1>1 DEF Hash
<1>2. CASE Decide
  <2>1. op' \in {"show", "idle", "reboot", "fresh", "script"} BY <1>2, Decides
  <2>2. op = "decide" BY <1>2, Decides
  <2>3. Ahead = 23 BY <2>2
  <2>4. Ahead' \in {0, 7, 8, 22} BY <2>1
  <2> HIDE DEF Ahead
  <2> QED BY <2>3, <2>4
<1>3. CASE ScriptRefuses BY <1>3 DEF ScriptRefuses
<1>4. CASE ScriptStarts BY <1>4 DEF ScriptStarts
<1>5. CASE Copy BY <1>5 DEF Copy
<1>6. CASE Check BY <1>6 DEF Check
<1>7. CASE Recheck BY <1>7 DEF Recheck
<1>8. CASE Discard BY <1>8 DEF Discard
<1>9. CASE Retain BY <1>9 DEF Retain
<1>10. CASE Promote BY <1>10 DEF Promote
<1>11. CASE Finish BY <1>11 DEF Finish
<1>12. CASE Cleanup BY <1>12 DEF Cleanup
<1>13. CASE Show BY <1>13 DEF Show
<1>14. CASE Fresh BY <1>14 DEF Fresh
<1>15. CASE Write
  <2>1. op = "write" /\ i \in 1..4 /\ ((op' = "write" /\ i' = i + 1 /\ i < 4) \/ op' = "idle") BY <1>15 DEF Write
  <2>2. Ahead = 7 - i /\ ((i' = i + 1 /\ Ahead' = 7 - i') \/ Ahead' = 0) BY <2>1
  <2> HIDE DEF Ahead
  <2> QED BY <2>1, <2>2
<1>16. CASE Reboot BY <1>16 DEF Reboot, AndroidEnds
<1>17. CASE CommandFails
  <2>1. op \in {"hash", "decide", "script", "fresh", "reboot"} BY <1>17 DEF CommandFails
  <2>2. op' = (IF goal = "show" THEN "show" ELSE "idle") BY <1>17 DEF CommandFails
  <2> QED BY <2>1, <2>2
<1>18. CASE ScriptFails BY <1>18 DEF ScriptFails, Scripted
<1>19. CASE TrapFails BY <1>19 DEF TrapFails
<1>20. CASE WriteFails BY <1>20 DEF WriteFails
<1> QED
  BY <1>1, <1>2, <1>3, <1>4, <1>5, <1>6, <1>7, <1>8, <1>9, <1>10, <1>11, <1>12, <1>13, <1>14, <1>15,
     <1>16, <1>17, <1>18, <1>19, <1>20
  DEF AppStep, App

\* An operation takes at most 27 steps of its own, its commands failing or not, whatever tools,
\* updates and power losses do meanwhile: it never runs in a circle and always gives back the
\* monitor of BootSets, on which the job of the next start waits.
THEOREM OperationsEnd == Spec => [][Closer]_vars /\ [](Ahead \in 0..27)
<1>1. ASSUME IInv, [Next]_vars PROVE [Closer]_vars
  <2>1. CASE AppStep BY <1>1, <2>1, StepCloser DEF IInv, Closer
  <2>2. CASE ~AppStep
    <3>1. op # "idle" => UNCHANGED <<op, i>> \/ op' = "idle"
      BY <1>1, <2>2, Ends
      DEF Next, AppStep, Boot, Restart, Ota, RootTool, FromUbuntu, PowerLoss, Leave, AndroidEnds, Stuck, StartRead,
          StartSwitch, app, vars
    <3> QED BY <2>2, <3>1 DEF Closer
  <2> QED BY <2>1, <2>2
<1>2. IInv => Ahead \in 0..27 BY DEF IInv, TypeOK, Scripted, Ahead
<1> QED BY <1>1, <1>2, IInvHolds, PTL DEF Spec
=============================================================================
