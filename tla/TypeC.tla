------------------------------- MODULE TypeC -------------------------------
(***************************************************************************)
(* The USB Type-C port (sm5714_usbpd.c): how what the SM5714 detects on    *)
(* its CC pins reaches TCPM - by its interrupt, by the resync after probe  *)
(* and by the watch work - while the system suspends and resumes.          *)
(*                                                                         *)
(* TCPM is the kernel's and stands outside of the repository: phase is the *)
(* part of its state machine that calls the driver. What is done under     *)
(* sm->lock is one step. Power-role swaps are in PowerSwap; VBUS events,   *)
(* the other PD messages, VCONN and data roles are left out.               *)
(***************************************************************************)
EXTENDS Integers

CONSTANT MaxFaults  \* bound on failed register accesses

ASSUME TypeCAssumption == MaxFaults \in Nat

VARIABLES
  partner,   \* what is plugged in: nothing, a power source or a sink
  cc,        \* CC_STATUS
  latch,     \* INT1: edges not yet read
  enabled,   \* the CC comparators
  irq_saw_attach, watch_saw_attach, suspended,  \* sm5714_usbpd
  queued,    \* which works are scheduled
  got,       \* local of the interrupt thread: the edges it has read
  sampled,   \* local of the watch work: the attachment it has read
  pm,        \* how far suspend is
  told,      \* TCPM has an event to take
  phase,     \* TCPM
  missed,    \* history: the attachment came unannounced with watch_saw_attach still set
  dropped,   \* history: TCPM let pass the last event it was given of the attachment
  faults

chip == <<cc, latch, enabled>>
seen == <<irq_saw_attach, watch_saw_attach>>
works == <<queued, got, sampled>>
power == <<suspended, pm>>
tcpm == <<told, phase>>
history == <<missed, dropped>>
vars == <<partner, chip, seen, works, power, tcpm, history, faults>>

None == "none"
Partners == {None, "source", "sink"}
Edges == {"attach", "detach"}
Phases == {"startup", "reset", "unattached", "toggling", "attached", "recovery"}

TypeOK ==
  /\ partner \in Partners /\ cc \in Partners /\ latch \subseteq Edges /\ enabled \in BOOLEAN
  /\ irq_saw_attach \in BOOLEAN /\ watch_saw_attach \in BOOLEAN /\ suspended \in BOOLEAN
  /\ queued \subseteq {"resync", "watch"} /\ got \subseteq Edges
  /\ sampled \in Partners \cup {"rest"} /\ pm \in {"up", "watch", "resync", "asleep"}
  /\ told \in BOOLEAN /\ phase \in Phases
  /\ missed \in BOOLEAN /\ dropped \in BOOLEAN /\ faults \in 0..MaxFaults
  /\ "watch" \in queued => sampled = "rest"

\* After probe: whatever was attached before the interrupt was requested left no edge. TCPM is
\* in the reset it begins with, whose set_cc(TYPEC_CC_OPEN) may have failed.
Init ==
  /\ partner \in Partners /\ cc \in {None, partner} /\ latch = {} /\ enabled \in BOOLEAN
  /\ irq_saw_attach = FALSE /\ watch_saw_attach = FALSE /\ suspended = FALSE
  /\ queued = {"resync", "watch"} /\ got = {} /\ sampled = "rest" /\ pm = "up"
  /\ told = FALSE /\ phase = "startup" /\ missed = FALSE /\ dropped = FALSE /\ faults = 0

Fail == faults < MaxFaults /\ faults' = faults + 1
Fine == UNCHANGED faults

\* Interrupts and TCPM stop with the system.
Awake == pm # "asleep"

-----------------------------------------------------------------------------
(* The connector and the chip. *)

Plug ==
  /\ partner = None /\ partner' \in Partners \ {None}
  /\ UNCHANGED <<chip, seen, works, power, tcpm, history>> /\ Fine

Unplug ==
  /\ partner # None /\ partner' = None
  /\ UNCHANGED <<chip, seen, works, power, tcpm, history>> /\ Fine

\* The chip may update CC_STATUS and raise no interrupt.
Attach ==
  /\ cc = None /\ partner # None /\ enabled /\ cc' = partner
  /\ \/ latch' = latch \cup {"attach"} /\ missed' = FALSE
     \/ latch' = latch /\ missed' = watch_saw_attach
  /\ dropped' = FALSE
  /\ UNCHANGED <<partner, enabled, seen, works, power, tcpm>> /\ Fine

Detach ==
  /\ cc # None /\ (partner # cc \/ ~enabled)
  /\ cc' = None /\ latch' = latch \cup {"detach"} /\ missed' = FALSE /\ dropped' = FALSE
  /\ UNCHANGED <<partner, enabled, seen, works, power, tcpm>> /\ Fine

-----------------------------------------------------------------------------
(* The interrupt thread. *)

\* Under the lock: INT1 is read, which clears it.
IrqRead ==
  /\ Awake /\ got = {} /\ latch # {}
  /\ got' = latch /\ latch' = {}
  /\ UNCHANGED <<partner, cc, enabled, seen, queued, sampled, power, tcpm, history>> /\ Fine

\* IRQ_NONE: the level stays low and the interrupt comes again.
IrqFails ==
  /\ Awake /\ got = {} /\ latch # {} /\ Fail
  /\ UNCHANGED <<partner, chip, seen, works, power, tcpm, history>>

\* Mutant: a detach is not noted.
IrqNoteAttach ==
  /\ got # {} /\ got' = {} /\ told' = TRUE
  /\ irq_saw_attach' = (irq_saw_attach \/ "attach" \in got) /\ dropped' = FALSE
  /\ UNCHANGED <<partner, chip, watch_saw_attach, queued, sampled, power, phase, missed>> /\ Fine

\* ... after the lock is released. Of two edges read at once the detach counts.
IrqNote ==
  /\ got # {} /\ got' = {} /\ told' = TRUE
  /\ irq_saw_attach' = ("detach" \notin got) /\ dropped' = FALSE
  /\ UNCHANGED <<partner, chip, watch_saw_attach, queued, sampled, power, phase, missed>> /\ Fine

-----------------------------------------------------------------------------
(* The works and the power management of the driver. *)

\* sm5714_usbpd_cc_resync_work, queued once, by probe, 1.5 s after which the first reset is over.
Resync ==
  /\ "resync" \in queued /\ phase # "startup" /\ queued' = queued \ {"resync"}
  /\ told' = (told \/ ~suspended) /\ dropped' = (dropped /\ suspended)
  /\ UNCHANGED <<partner, chip, seen, got, sampled, power, phase, missed>> /\ Fine

\* Mutant: the work is queued again as it begins.
WatchReadQueued ==
  /\ "watch" \in queued /\ ~suspended /\ phase # "startup" /\ Fine /\ sampled' = cc
  /\ UNCHANGED <<partner, chip, seen, queued, got, power, tcpm, history>>

\* sm5714_usbpd_cc_watch_work, 5 s later at the earliest, reads CC_STATUS ...
WatchRead ==
  /\ "watch" \in queued /\ ~suspended /\ phase # "startup"
  /\ \/ Fine /\ queued' = queued \ {"watch"} /\ sampled' = cc
     \/ Fail /\ UNCHANGED <<queued, sampled>>
  /\ UNCHANGED <<partner, chip, seen, got, power, tcpm, history>>

\* ... compares it with what the interrupt and the last pass saw, and is queued again.
WatchDecide ==
  /\ sampled # "rest" /\ sampled' = "rest"
  /\ LET speaks == sampled # None /\ ~irq_saw_attach /\ ~watch_saw_attach
     IN told' = (told \/ speaks) /\ dropped' = (dropped /\ ~speaks)
  /\ watch_saw_attach' = (sampled # None)
  /\ queued' = IF suspended THEN queued ELSE queued \cup {"watch"}
  /\ UNCHANGED <<partner, chip, irq_saw_attach, got, power, phase, missed>> /\ Fine

WatchLeaves ==
  /\ "watch" \in queued /\ suspended /\ queued' = queued \ {"watch"}
  /\ UNCHANGED <<partner, chip, seen, got, sampled, power, tcpm, history>> /\ Fine

\* sm5714_usbpd_suspend
Suspend ==
  /\ pm = "up" /\ pm' = "watch" /\ suspended' = TRUE
  /\ UNCHANGED <<partner, chip, seen, works, tcpm, history>> /\ Fine

\* Mutant: a work that runs is not waited for.
CancelWatchNow ==
  /\ pm = "watch" /\ pm' = "resync" /\ queued' = queued \ {"watch"}
  /\ UNCHANGED <<partner, chip, seen, got, sampled, suspended, tcpm, history>> /\ Fine

CancelWatch ==
  /\ pm = "watch" /\ sampled = "rest" /\ pm' = "resync" /\ queued' = queued \ {"watch"}
  /\ UNCHANGED <<partner, chip, seen, got, sampled, suspended, tcpm, history>> /\ Fine

\* Once an interrupt thread that runs has returned, the system sleeps.
CancelResync ==
  /\ pm = "resync" /\ got = {} /\ pm' = "asleep" /\ queued' = queued \ {"resync"}
  /\ UNCHANGED <<partner, chip, seen, got, sampled, suspended, tcpm, history>> /\ Fine

\* Mutant: resume leaves the port to the interrupts.
ResumeOnly ==
  /\ pm = "asleep" /\ pm' = "up" /\ suspended' = FALSE
  /\ UNCHANGED <<partner, chip, seen, works, tcpm, history>> /\ Fine

\* sm5714_usbpd_resume
Resume ==
  /\ pm = "asleep" /\ pm' = "up" /\ suspended' = FALSE /\ queued' = queued \cup {"watch"}
  /\ UNCHANGED <<partner, chip, seen, got, sampled, tcpm, history>> /\ Fine

-----------------------------------------------------------------------------
(* TCPM. *)

\* PORT_RESET_WAIT_OFF ends after about a second, in which comparators that are off have
\* dropped what was attached.
EndReset ==
  /\ Awake /\ phase \in {"startup", "reset"} /\ (enabled \/ cc = None) /\ phase' = "unattached"
  /\ UNCHANGED <<partner, chip, seen, works, power, told, history>> /\ Fine

\* sm5714_usbpd_start_toggling, which enables the comparators; TCPM repeats what fails. It gives
\* TCPM no event of what CC_STATUS shows already.
StartToggling ==
  /\ Awake /\ phase = "unattached"
  /\ \/ Fine /\ enabled' = TRUE /\ phase' = "toggling"
     \/ Fail /\ UNCHANGED <<enabled, phase>>
  /\ UNCHANGED <<partner, cc, latch, seen, works, power, told, history>>

\* set_cc(TYPEC_CC_OPEN), in the error recovery of TCPM, which ignores its result
SetCcOpen ==
  /\ Awake /\ phase = "recovery" /\ phase' = "reset"
  /\ \/ Fine /\ enabled' = FALSE /\ UNCHANGED dropped
     \/ Fail /\ UNCHANGED enabled /\ dropped' = (cc # None /\ ~told)
  /\ UNCHANGED <<partner, cc, latch, seen, works, power, told, missed>>

\* What an event does: an attachment counts while TCPM toggles, and in SRC_UNATTACHED or
\* SNK_UNATTACHED if it is of that kind; a reset lets every event pass.
Taken ==
  CASE phase = "toggling" /\ cc # None -> {"attached"}
    [] phase = "unattached" /\ cc # None -> {"attached", "unattached"}
    [] phase = "attached" /\ cc = None -> {"unattached"}
    [] OTHER -> {phase}

\* TCPM takes an event and asks sm5714_usbpd_get_cc, without whose answer it forgets the event.
TakeCc ==
  /\ Awake /\ told /\ told' = FALSE
  /\ \/ Fine /\ phase' \in Taken
     \/ Fail /\ phase' = phase
  /\ dropped' = (cc # None /\ phase' # "attached")
  /\ UNCHANGED <<partner, chip, seen, works, power, missed>>

\* A partner that does not answer, or not well.
GiveUp ==
  /\ Awake /\ phase = "attached" /\ phase' = "recovery"
  /\ UNCHANGED <<partner, chip, seen, works, power, told, history>> /\ Fine

-----------------------------------------------------------------------------
World == Plug \/ Unplug \/ Attach \/ Detach
Irq == IrqRead \/ IrqFails \/ IrqNote
Watch == WatchRead \/ WatchDecide \/ WatchLeaves
Pm == Suspend \/ CancelWatch \/ CancelResync \/ Resume
Tcpm == EndReset \/ StartToggling \/ SetCcOpen \/ TakeCc
Next == World \/ Irq \/ Resync \/ Watch \/ Pm \/ Tcpm \/ GiveUp
Spec == Init /\ [][Next]_vars

\* The interrupt and TCPM are served, queued works run, a suspend under way ends, and comparators
\* that are off drop what was attached.
FairSpec ==
  /\ Spec /\ WF_vars(IrqRead \/ IrqNote) /\ WF_vars(Resync) /\ WF_vars(Watch)
  /\ WF_vars(Tcpm) /\ WF_vars(CancelWatch \/ CancelResync) /\ WF_vars(~enabled /\ Detach)

-----------------------------------------------------------------------------
(* Properties *)

\* No deferred I2C transaction outlives the suspend of the bus, and after it only the watch is
\* back (sm5714_usbpd_suspend, sm5714_usbpd_resume).
AsleepQuiet == pm = "asleep" => queued = {} /\ sampled = "rest" /\ got = {}

\* While the driver is awake the watch is queued or runs, whatever its reads return and however
\* suspend and resume met it.
WatchLives == pm = "up" => "watch" \in queued \/ sampled # "rest"

\* TCPM let the attachment's last event pass - its read of CC_STATUS failed, or TCPM neither toggled
\* nor was attached, or it gave the attachment up and could not open CC - and the resync is spent.
Lost == dropped /\ "resync" \notin queued

\* An attachment reaches TCPM, although its edge predates the interrupt, was consumed in the reset
\* after registration, was never raised, or the resync was cancelled by a suspend - unless the
\* watch still remembers the attachment before it (missed) or TCPM let its last event pass (Lost).
AttachmentReported ==
  (cc # None /\ ~missed /\ ~Lost) ~>
    (phase = "attached" \/ cc = None \/ missed \/ Lost \/ pm = "asleep")
=============================================================================
