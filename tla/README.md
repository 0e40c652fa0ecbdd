# Verification of the Galaxy Tab S9 Ultra Ubuntu port

TLA+ models of the parts of this repository that keep state across failures and
across actors, the TLC runs that check them and the TLAPS proofs about them. The
repository is mostly a kernel configuration, drivers, desktop patches and build
scripts; what carries its own state machines is how an Ubuntu system is replaced,
tried, accepted, published to Android and at last retires its predecessor on a
tablet whose only recovery from a bad boot set is another computer; how the app on
the Android side keeps the way back; and the drivers that share hardware, or a
channel to another processor, with interrupts, work items, suspend and other
processes.

## Inventory

| Component | State it keeps | Operations | What is hard | What makes it correct |
|---|---|---|---|---|
| Migration core (`gts9u_migration/migration_core.py`) | `.gts9u-root/{pending,selected}`, `slots/<id>/{root,backup,ready}`, `status.json`, the `system-update` trigger, four boot partitions | `prepare`, `apply_offline`, `apply_transaction`, `clone_system`, `commit_slot` and its rollback | power loss between any two writes, failures during recovery from failures, ordered but delayed metadata | what a marker or partition names can be undone; a failed migration restarts only on its old images |
| Early-boot hook (`local-bottom/gts9u-root-slot`) | `tried`, `result`, the markers it removes | enter the slot, start the trial, `restore_boot` | restoring is itself interrupted; `init_boot` is the first partition restored and holds the hook | one trial per slot, on a whole boot set; no restart loop |
| Acceptance (`ubuntu-gts9u-root-accept`) | `result`, `pending` | accept, 180 s after boot | power loss between result and sync | a trial accepted on disk stays, any other is undone |
| Maintenance (`ubuntu-gts9u-root-maintenance`) | `health.json`, `previous-system-removed`, the link that is Android's Ubuntu set, the old system's paths | `publish`, `advance_health`, removal, `--shutdown`, `--cleanup` | runs cut short, clean and unclean shutdowns, time across boots | the old system goes only after a healthy week and only after publication |
| Android boot switcher (`android/bootswitcher`) | the saved boot sets, one Android backup, boot partitions | `write`, `backupDecision`, `refresh`, `recoverInterrupted` | partial writes, renames cut short, over-the-air updates in between | the Android backup is always one whole Android set |
| In-place upgrade (`gts9u-upgrade`) | the running root, boot partitions, `started`/`finished` | rsync, capabilities, boot images | failure between userspace and kernel | kernel and modules match or the old kernel still starts |
| SPSS GLINK transport (`qcom_glink_spss.c`) | two rings in shared memory, their indices | peek, advance, write, register, unregister | wrap, full against empty, indices moved by another processor | bytes arrive once, whole and in order |
| SPCOM channels (`spcom.c`) | per channel: its clients, `shared_sync_lock` and `active_pid`, `txn_id`, the received buffer; the packet list | register, send, get, release at the end of a process; probe, removal, callback, the work | a lock held over user space, a processor that restarts, answers that come late | the lock has an owner that will release it; an answer goes to the request it answers |
| SM5714 charger and boost (`sm5714_battery.c`) | Q4, boost, data path, thermal band, `otg_active`, `direct_charging` | the poll, charge configuration, `set_otg`, `set_pd_contract`, `set_direct_charge` | the poll reads before it locks; four actors on one path | the boost is isolated; the pack is charged again |
| SM5440 direct charger (`sm5440_direct.c`) | `active`, the pump, its watchdog, the PPS contract | start, supervise, restore, suspend, resume, unbind, probe | a start or stop that fails half way, cancelled works | the pump never runs unattended |
| SM5714 Type-C port (`sm5714_usbpd.c`) | CC and interrupt registers, `irq_saw_attach`, `watch_saw_attach`, swap flags, the CC hold, `otg-det` | interrupt, resync, watch and pulse works, suspend, resume, TCPM's calls | edges missed or taken between works, holds that outlive their swap | every attachment reaches TCPM; VBUS goes off in a swap only while CC is held; a hold ends |
| EL721 fingerprint sensor (`egis_el721.c`) | rail, `powered`, `removing`, a reference count | open, ioctl, sysfs, remove, suspend | removal against use | not modelled |
| Migration planning (`migration_plan.py`) | none | parsing, selection, preservation | - | pure functions |
| Everything else | drivers whose behaviour is the hardware's, patches of other projects, one-shot scripts | | | not modelled, see PROJECT.json |

How they interact: the migration core stages a slot and writes the partitions;
the hook reads the markers that the core left and the partitions it runs from;
acceptance and maintenance run inside the slot and move the same markers; the
Android app writes whichever set maintenance published. The only channel is
persistent state: files of one ext4 filesystem and four raw partitions. The
Galaxy Companion updater core (`set_status`, `copy_partition`, `unmark`) is a
submodule that is not in the tree and is modelled from how it is used.

The drivers interact through registers, calls under a lock and works: the direct
charger claims the battery path of the SM5714 by `set_direct_charge`, TCPM switches
the boost by `set_otg`, and the poll repairs whatever it finds; `sm5714_usbpd.c` tells
TCPM of edges, and TCPM calls back; SPCOM's processes meet only in their channel.
TCPM, the rpmsg bus and GLINK's core are the kernel's and are external.

## Modules

- `TrialBoot` is the abstract promise: a migrated system is entered for one trial
  session, is kept only if it was accepted, and is never entered again once its
  boot set was taken away.
- `RootSlot` models migration core, hook, acceptance and publication in one state
  machine, since each step of one may be followed by a power loss and then by a
  step of another. Markers and files of a slot are functions of the slot; a
  partition holds the identity of the boot set its image belongs to or `Torn`.
  `pc`, `target` and `todo` say which program runs, on which slot and which
  partitions it still has to write. It implements `TrialBoot` under the refinement
  mapping at its end.
- `RootMaintenance` models the maintenance service in the accepted slot with the
  files in memory and on disk, the clock, shutdown and power loss.
- `AndroidBackup` models the Dualboot app: one read of the tablet (recover, hash,
  refresh, show) and one switch (hash, refresh, discover again, write), each under the
  monitor of `BootSets`, and the restart that follows a write without it (`leaving`), with
  a step per partition. Every discovery hashes the partitions and each of the saved sets, and
  a set whose command fails is listed without hashes, like an incomplete one. The refresh
  script has a step per command that a crash may separate, and Ubuntu's file system is as Android
  mounts it. Updates and root tools write partitions at any time; Ubuntu's own switch is
  external. `op` and `i` say where the app is, `goal` what for.
- `GlinkFifo` models one ring of the GLINK transport, with the transmit pipe's functions
  on one side, the receive pipe's on the other, and the protocol of their callers in
  GLINK's core (not in the repository) between several senders and the receiver. Both
  rings of an edge are instances of it; the remote side is assumed to work as ours does.
- `Charging` models the battery path and everybody who switches it: the work of the
  SM5440, the poll of the SM5714, TCPM's calls and power management. `pc` says for each
  actor which step it takes next, with a step for each part of the code that another
  actor can come between (code under `chg_lock` is one step); `queued` says which works
  are scheduled; each register access may fail.
- `TypeC` models how an attachment gets from the CC pins to TCPM: the chip that may or
  may not raise an interrupt, the interrupt thread (read under the lock, note after it),
  the resync and watch works, suspend and resume, and the part of TCPM that calls the
  driver, from the reset it begins with: an event makes TCPM read CC_STATUS, and is forgotten
  if that read fails or TCPM is in a reset. `start_toggling` gives no event, so what CC shows
  by then is found by the resync, the watch, or not at all. `PowerSwap` models the same driver in an attachment: swaps of the power role,
  the hold of CC, VBUS and the `otg-det` pulse, with messages that are dropped where their
  header, payload or origin cannot be read, and an error recovery that turns VBUS off and opens
  CC without looking at what either returns. The two share the connector and
  `start_toggling`, each with the part of it that its properties need.
- `Spcom` models a sharable channel to the secure processor: `pc` says where each
  process is in its ioctls, a step is what is done under `ch->lock`, and a request is
  named by its transaction and by the session of the processor it was made in, of which
  the code knows only the first.
- `MessageStream` is the abstract promise of a ring (messages leave in order, each once and
  whole) and `Turns` that of a sharable channel (one exchange a turn, one answer at most, to
  the number that was asked). `GlinkFifo` and `Spcom` implement them under the refinement
  mappings at their ends.
- `RootSlotProofs`, `RootMaintenanceProofs`, `AndroidBackupProofs`, `GlinkFifoProofs`,
  `ChargingProofs`, `TypeCProofs`, `PowerSwapProofs` and `SpcomProofs` hold the theorems.
- An `MC` module for each gives the constants values for TLC.

`RootSlot` and `RootMaintenance` follow one slot from both sides: the first knows
publication and the hook, the second what publication and retirement do afterwards.

Correspondence of every definition with lines of source is in PROJECT.json.

## Runs

`rootslot` has two slots, `s1` with the kernel release of the old system and `s2`
with a newer one, and two power losses. Two slots are the least with which one
slot's recovery can meet another's commit; equal and different releases are the
two outcomes of the only comparison the hook makes; two losses let a recovery be
interrupted and its own recovery be interrupted again. It checks that what a
marker or partition names can be undone (`WrittenMeansRecoverable`), that trials
and the old system run on whole boot sets (`TrialRunsWhole`, `OriginalRunsWhole`),
that a failed migration restarts only when none of its images is left
(`FailedApplyRestartsRestored`), the refinement of `TrialBoot` (`TrialBootSpec`)
and that no restart loop exists (`ComesToRest`).

`root_maintenance` has two paths to remove, a limit and a cap of two ticks and one
fault. With these a removal needs at least two gaining runs, one of which may
be lost, recorded in another boot or reset. It checks that removal by the timer
needs that much uninterrupted uptime (`RetiredAfterHealthyWeek`), follows
publication even on disk (`RemovalFollowsPublication`), is complete once marked
(`RetiredIsGone`) and happens at last (`EventuallyRetired`).

`android_backup` has three versions of Android, the second with the first's kernel
release, two changes and two faults, of both together no more than three (`MaxEvents`). Two changes
let one tool write before a refresh and another during it, and let a refresh find an image that
the kernel's release does not tell from the running one; two faults let a write fail and its
undoing fail too, a crash between the renames be followed by one in the next replacement, or a
failed write be met by a failure of the command that hashes a saved set. It checks that the saved
set is complete and Android's in every state a crash can leave (`BackupIsAndroid`), that only a set
that stood in the partitions at one moment is saved (`BackupIsSnapshot`), that it is replaced at
once and whole (`BackupReplacedWhole`), that no restart goes into a mix of systems
(`RestartsWhole`) and, under fairness, that an unfinished replacement is undone (`JobRestores`). Two
histories mark what is excepted: `blind`, a mix taken for an update of Android because Ubuntu's
set could not be hashed, and `overtaken`, a restart before which another write has begun. The run
has 1.8 million states; the theorems cover any number of changes and faults.

`glink_fifo` has a ring of 40 bytes, the least in which the largest message (all the room
of an empty ring, 24 bytes) starts at every aligned position and wraps in its header,
between header and data and in its data; two senders, so that one is blocked beside a
READ_NOTIF that the other asked for; and a stream that goes around more than twice
before sending stops. It checks that head never meets tail (`NeverFull`), that messages
leave in order, each once and whole (the refinement `StreamSpec`) and that a blocked sender gets through
once the others stop (`SentAtLast`).

`charging` has three temperatures (the pack may be charged directly, is between the
limits and their hysteresis, or is above the stop) and one failed access, anywhere. All
interleavings of the four actors are in the run, so one failure can hit a start, a stop,
an unbind or the poll. It checks that the boost is isolated (`BoostIsolated`), that a
pump and its contract are attended (`Attended`), in suspend as well, with two exceptions: a
command that ends them failed (`lost`), and, until the resume, a start that completed between
suspend's look at `active` and its cancel (`slipped`), that an unbound driver has handed back
the path (`UnboundHandsBack`) and that a source charges the pack again and again
(`ChargesAgain`).

`typec` has two failed accesses: the watch and the interrupt can each lose a reading of
the same attachment, or TCPM one and the opening of CC another. It checks that suspend leaves
no bus traffic behind (`AsleepQuiet`), that the watch never stops while awake (`WatchLives`)
and that every attachment reaches TCPM or ends (`AttachmentReported`), with two exceptions:
`missed`, an attachment that was never announced and that the watch takes for the one before it,
and `Lost`, one whose last event TCPM let pass, because it could
not read CC_STATUS, or neither toggled nor was attached - where opening CC failed the chip
gives no new edge - with no resync to come. An
event that the reset after registration swallows is not excepted: the resync must give it again.

`power_swap` has two failed accesses as well: `start_toggling` clears the hold twice, so
that a hold survives only two. It checks that a hold is going to end (`HoldHasOwner`): TCPM is in
the swap, or is the sink of one that failed to release it and that the driver remembers, or is
about to open CC or to toggle. A hold that strayed is excepted (`stray`): frozen by a hard reset
before the swap was accepted, or not released by a second PS_RDY
either. It also checks that VBUS is off in a swap only while CC is held (`SwapHeld`) and that a
pulse has an end (`PulseEnds`).

`spcom` has two processes and two sessions of the processor. A process may pass the
checks of SEND_MSG while another is in its transaction, so that a session has two
requests, one of which may have been given up; a second session is the first in which
numbers come again. It checks the owner of the lock (`SyncHasOwner`), that nobody sends to a removed
device (`DeviceBehindSend`), that processes take turns of one exchange and are
answered by number (the refinement `TurnsSpec`) and that who waits for its turn gets it (`TurnComes`).

Four runs show a disagreement between the code and what its tests or comments say:

- `unbroken_week`: a boot that loses power before its first maintenance run leaves
  no trace after a clean shutdown, so the healthy period is not started again.
- `torn_backup`: where undoing a staged switch fails in its last write, the torn
  partition is taken for an update of Android and copied over the backup.
- `q4_closed`: the switching charger is configured on a thermal transition, or at the
  end of a boost, without asking whether the pump runs; Q4 closes behind it.
- `stale_response`: transaction numbers begin again with the processor, while packets
  and the received buffer stay; a response of the earlier session is given to a request of the
  later one. `AnswersTransaction` is all that the numbers can promise.

Other differences met while modelling, in the models but without a run of their own:

- `atomic_text` can raise after its `os.replace` (migration_core.py:43-55); the rollback
  puts the partitions back before it unlinks the selector, and a power loss between them
  starts a trial on a mixed boot set. The history variable `late` marks these behaviours,
  which `TrialRunsWhole` excepts.
- A publication cut short between the temporary link and its renaming
  (ubuntu-gts9u-root-maintenance:81) is refused by every later run, and Android stays without an
  Ubuntu set. `EventuallyRetired` excepts it.
- The app lists a saved set whose hashing fails like an incomplete one (BootSets.kt:199). While
  that is Ubuntu's, partitions that a failed write left with some of its images are not found
  mixed, as BootMaintenance.kt:61 promises, but are copied over the backup (`blind`).
- The restart after a write holds no lock (SwitcherViewModel.kt:184, BootSwitchTile.kt:146): a
  write that begins before it and fails half-way is restarted into, against BootSets.kt:289-291
  (`overtaken`).
- Suspend looks at `active` before it cancels the work that sets it (sm5440_direct.c:757-759): a
  start that completes in between sleeps with the pump on, against the comment above it (`slipped`).
- The watch takes an accessory that replaced another between two of its passes, and raised no
  interrupt, for the one before, and never reports it (sm5714_usbpd.c:209, against :165-171;
  `missed`).
- `set_vbus` freezes CC wherever VBUS goes off after a swap was asked for (sm5714_usbpd.c:571,
  :763): a hard reset before the acceptance leaves it frozen outside of any swap, and an unplugging is
  not seen (`stray`).
- The marker that stops the hook from restoring a retired system is written after the last
  deletion (ubuntu-gts9u-root-maintenance:198); a removal cut short is not marked.
- After a switch that failed the app keeps `nextBoot` (SwitcherViewModel.kt:179), and a
  restart into that system does not look at the partitions.
- `get_cc` has one attempt (sm5714_usbpd.c:346): TCPM forgets the event if it fails, and
  `irq_saw_attach` keeps the watch quiet. `AttachmentReported` excepts it as `Lost`.
- `set_vbus` leaves VBUS on where it cannot freeze CC (sm5714_usbpd.c:576), after a detach too.
- The SPCOM work returns at the first packet it drops (spcom.c:3680), and the next packet finds
  those that waited; and where the channel is aborted it frees the received buffer and
  leaves the pointer (spcom.c:3668). `Freed` is that pointer; what another use of it
  does is outside of the model.

Two smaller observations, both on the safe side: a clean restart within the five
minutes before the first maintenance run of a boot resets the count as an unclean
one does, and a shutdown run that finds the lock taken does not record the shutdown.

## Fairness

`RootSlot`: early boot and the offline migration run by themselves once started, so
each is weakly fair. Sessions, the owner, acceptance and power owe nothing.
`RootMaintenance`: time passes and a started run proceeds (weak fairness); the timer
fires every ten minutes whatever its last run came to, and finds the lock free again
and again (strong fairness of `StartTimer`, which another run may disable).
`AndroidBackup`: an operation of the app goes on with what it began (weak fairness of
its steps); each start of Android schedules one read, which gets the lock that every
other operation gives back (strong fairness of that first read only). Tools, failures,
restarts and the owner owe nothing.
`GlinkFifo`: a write under way, the receiver, which every publication interrupts, and
each waiting sender, which tries again at least every ten seconds, are weakly fair.
`Charging`: works that run, a suspend or unbind under way and the chip's watchdog go on
(weak fairness); a start of the pump need not happen, nor any action of the world.
`TypeC`: the interrupt thread, queued works, TCPM and a suspend under way go on, and comparators
that are off drop what was attached. That
suspends begin or end is not assumed, so a conclusion may be that the system sleeps.
`Spcom`: a call goes on, since its retries and its wait are bounded (`timeout_msec`); the work
and a registration go on; a process that has sent either fetches the answer or ends
(weak fairness of `Get`, which its end disables); a mutex that is free again and again is
handed over (strong fairness of `TakeSync`: the kernel's mutexes hand over in turn).

## Assumptions

- ext4 journals directory changes in order, so that unsynced changes are lost from
  the end; contents of files that were not synced may be lost in any combination.
- A partition write cut short leaves the old image, the new one or a torn one; the
  boot loader refuses a torn partition (`Bricked`, left to an external tool), and
  starts any untorn mix as far as the initramfs.
- An original `init_boot` may or may not carry the hook (`oldHook`); only with it can
  an interrupted restore of a system without the hook be resumed, and
  `OriginalRunsWhole` says so.
- The order in which the rollback writes partitions is that of a table in the absent
  submodule: any order is allowed.
- `RootSlot` lets Android write the saved set whole or not at all; what the switcher
  leaves when it fails is in `AndroidBackup`.
- `AndroidBackup`: an image is a version, and tools never write an earlier version back
  (the script compares contents, and would not notice). A mix of two systems starts as
  its kernel's system or not at all, a torn image starts nothing. `recoverInterrupted`
  is one step; a mount without recovery shows the same directories.
- Owners, mode bits and symbolic links of the store are as the programs made them.
- `GlinkFifo`: a processor's loads and stores take effect in its order, both sides have
  reset their indices, and every message fits an empty ring less the two reserves (GLINK's
  core refuses messages of the ring's length, and would wait for ever for those between).
- `Charging`: the thermistor is read without error where the poll uses it; voltages and
  currents are abstracted to what the branches test. `lost` records that a command that
  ends the pump or its contract failed, which the code ignores.
- `TypeC` and `PowerSwap`: TCPM as far as it calls the driver; an edge is latched until
  read, and the chip follows its pins unless held. Of time only this is used: the reset after
  registration (1.02 s) is over before the resync (1.5 s) and the watch (5 s), and comparators
  that TCPM turned off have dropped the attachment when its reset ends.
  A message whose acknowledgement fails is not read twice.
- `Spcom`: a process has one call under way, and sends and fetches in turn as the vendor's library
  does; the channel is a client's and its waits have a timeout; transaction numbers do
  not wrap.
- `RootMaintenance` keeps boots relative (this one or an earlier one) and times as
  distances from now; counters stop one above the limit.

## Proofs

Theorems hold for every value of the constants that satisfies the named assumptions: any
set of slots, kernel releases, limits, caps, fault bounds, ring lengths, messages and
processes. One has a hypothesis of its own, said where it is listed. They are of three
kinds: safety invariants and action properties that a run checks too; refinements; and what
liveness rests on (a distance that every step shortens, somebody who is always left to act).

### RootSlotProofs

Type correctness (`TypeCorrect`) and `Recoverable`, that is `WrittenMeansRecoverable`. The
property alone is not inductive: a marker names a slot because some step of the commit was
reached, so the invariant `IInv` adds what each step has already staged (`Staged`) and that
partitions, markers, the images the backups hold and Android's saved set name only staged
slots (`Named`). The lemma `WholeIsStable` shows that nothing takes a staged slot away again,
power losses included.

On top of it `TInv` gives `TrialAlwaysWhole`, `OriginalAlwaysWhole` and the refinement
`TrialBootImplemented` (`Spec => TrialBootSpec`). The argument follows the two markers:
partitions that were written hold what their writer puts there (`Written`), `selected`
is set only after the last of them (`Marked`), so a trial that was never tried sits on
its whole boot set (`Untried`) until the hook finds it (`Entered`, `AtTheHook`). A
selector may outlive its migration where another one overtakes it, but only where the
original `init_boot` has no hook to follow it (`Overtaken`), and what Android writes is a
slot's set only once that slot is published, after which no other system runs
(`Published`). `Phased` ties the phases of `TrialBoot` to files and markers; `Guarded`
is the case of a hook in the original `init_boot`. A slot in `late`, whose selector was
replaced by a write that then raised, is excepted from the whole boot set, not from the
refinement. `NoSecondChance` follows from the refinement: a slot that is left without
having been accepted is not entered again.

`FailedAlwaysRestored` proves `FailedApplyRestartsRestored`. A trigger can outlive its
migration, through power losses in a restore and even past an acceptance, and start the
same slot again, so the invariant follows the trigger, not the run: its slot's images
are in no backup (`Fresh`), and in a partition only while `pending` names the slot or
where the slot was accepted and the hook starts it instead of the original system
(`Accounted`, `Kept`).

`NeverMissing` shows that the hook's messages about an incomplete slot or a missing backup
are never shown. `ComesCloser` is the safety core of `ComesToRest`: `Distance` counts what is
still to be undertaken (a migration that is staged, one that runs, markers that a restore
would clear) and, after that, the steps of the undertaking at hand; until a session is up or
the device has halted, every step but a loss of power shortens it, so that no more than 119
steps (`DistanceBounded`) lie between two losses. That a step back to the start of the device
has ended an undertaking is where `TInv` is needed.

### RootMaintenanceProofs

Type correctness, `RetiredOnTime`, `RemovalPublished` and `RetiredForGood`. The invariant
relates the count in `health.json` to the history variable `streak`, for the files in memory
and on disk separately (`Counted`), with the cases of a run that has yet to record a clean
shutdown (`NotYetClean`) and of one that has decided to remove (`StillDue`).

`NothingComesBack` is an action property of the disk: a path that is gone, a set that was
retained or published and a retired system stay so, through power losses, because what is on
disk lags behind what programs see (`Lagging`). With it a run that was cut short leaves files
that the next one takes up (`RunsGoOn`). `RunsEnd` bounds a run by ten steps and one for each
path; it is the one theorem with a hypothesis, `IsFiniteSet(Paths)`, which the fixed list of
paths in the service satisfies.

### AndroidBackupProofs

Type correctness, `BackupAlwaysAndroid`, `StagedWasLive`, `RestartsAlwaysWhole` and the action
property `BackupAlwaysReplacedWhole`, with the exceptions of the run, for any number of updates, root tools' changes and
failures and for any kernel releases. The invariant follows a refresh: hashes still tell
images of Android from others when they have aged (`Hashed`), the script runs only on
partitions without an image of Ubuntu (`Scripting`), what it stages is good and the set it
replaces is there until it is retained (`Staged`), and a write knows which partitions it has
passed (`Writing`). That the staged set stood in the partitions at one time rests on versions
that only grow (`Old`): a partition replaced since it was copied is newer than its copy, so
the second reading finds it (`Newer`); no assumption on the order of tools and copies is
needed.

`BackupNeverOlder` adds that no image of Android in the backup gives way to an older one, whether
or not the saved sets could be hashed: an image of Android in a partition is as new as the backup's,
and so is a copy (`NotOlder`). It relies on the assumption that tools write no earlier version. `OperationsEnd` bounds an operation of
the app by 27 steps of its own, failures included; the monitor it holds is given back.

### GlinkFifoProofs

Type correctness, `NeverTakenForEmpty` and `MessagesArriveWhole`, for any ring of aligned
length, any number of senders and any messages that fit. The invariant says how much room a
write leaves with and without a READ_NOTIF under way (`Room`), relates head, tail and the
unpublished head (`Heads`), says that the messages in the ring follow each other without gaps
(`Chain`) and that the bytes between tail and head, being written, and already read are theirs
(`Content`, `Written`, `Reading`). Indices are compared by one subtraction, as the code does,
never by division by the length.

From the same invariant `StreamImplemented` proves the refinement of `MessageStream`:
publishing the head puts a message, reading its rest takes it, advancing the tail removes it,
and every other step is a stutter. `NeverStuck` says that an empty ring has room for any message
and that the receiver never finds part of one, on which `SentAtLast` rests.

### ChargingProofs

Type correctness, `BoostAlwaysIsolated`, `AlwaysAttended` and `UnboundAlwaysHandsBack`, for any
temperatures and failures. The invariant says who owns the path (`Claimed`), that a start and a
restore exclude each other (`Exclusive`), that the pump and its contract end before the path
is given back (`Off`), that cancelled works do not run (`Still`) and that a bound driver has its
work (`Watched`), and what suspend has handed back when it cancels the work (`Handed`).
`AlwaysAttended` has the two exceptions of `Attended` and no other. `WorksGoOn` adds the same of the poll: no order of cancelling, queueing and
failing loses one of the two works, on which `ChargesAgain` rests.

### TypeCProofs and PowerSwapProofs

`TypeCProofs`: type correctness, `SleepsQuietly` and `WatchNeverLost`; the invariant adds the order
of suspend and resume. `NeverOverlooked` is the safety core of `AttachmentReported`: of an
attachment that TCPM toggles past, somebody still has to hear or to tell (an event not taken,
an edge not read or noted, the resync, or a watch that will find it), with the two exceptions
described above. It needs that the interrupt thread has forgotten an attachment that ended
(`Forgotten`) and that CC is compared wherever TCPM toggles (`Comparing`).

`PowerSwapProofs`: type correctness, `HoldsAreReleased`, `SwapsAreHeld` and `PulsesEnd`; the
invariant adds that the driver remembers a hold until TCPM is about to toggle and that the
PS_RDY of a second swap ends it or sets it astray (`Remembered`), that TCPM sources VBUS where a
swap starts and that one request is under way at a time (`OneRequest`).

### SpcomProofs

Type correctness, `SyncAlwaysOwned`, `SendsToDevice` and `AnswersMatch`, for any processes,
requests and sessions. That answers match rests on numbers no request has: removal and probe
leave `txn_id` at 0 and at `INITIAL_TXN_ID`, every request is above both (`Numbered`), so a
process whose number was reset under it meets no answer (`Asking`, `Waiting`).

`TurnsImplemented` proves the refinement of `Turns`; it also needs when a process has an exchange
(`Exchange`). `AnswerWakes` shows that no wake-up is lost: a process that waits while a packet
is in the buffer has `rx_done` completed. `TableNeverOverflows` shows that the registered
processes fit the table, although `is_busy` is set only where their number equals the maximum.

### Left to TLC

Liveness (`ComesToRest`, `EventuallyRetired`, `JobRestores`, `ChargesAgain`, `AttachmentReported`,
`SentAtLast`, `TurnComes`) needs fairness and ENABLED, which are out of the provers' reach. What
is proved of it is the safety core named above; that a step is taken at all, and by whom, is
checked on the instances of the runs. The four disagreements are counterexamples, and stay
with the runs that find them.

## Not modelled

- `gts9u-upgrade` replaces the running system and then writes the boot images. It is one
  sequence without recovery: whatever it is stopped in, it is started again by hand. Its
  one hazard, new modules under an old kernel, is said in its own comments.
- `egis_el721.c` holds one lock over every operation and checks `removing` under it; what
  is left is the publication of the rail in the device tree, which is the kernel's code.
- The server role of SPCOM, its character devices and the locking of DMA buffers; the
  restart of the GLINK rings, whose order is the firmware's.
- The regulation of the pump's voltage, the fuel gauge and capacity scaling; VCONN, data roles and
  transmission of the Type-C port; the removal of these drivers.
- Firmware protocols, register sequences, the desktop patches and the one-shot scripts:
  they are correct with respect to something that is not in the repository.

What would come next: the rails and reference counts of `egis_el721.c`.
