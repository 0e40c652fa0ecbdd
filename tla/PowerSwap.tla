----------------------------- MODULE PowerSwap -----------------------------
(***************************************************************************)
(* Power-role swaps at the partner's request (sm5714_usbpd.c): the SM5714  *)
(* would take the change of the pull on its CC pins for a detach, so the   *)
(* driver freezes CC_STATUS before VBUS goes off, holds it while the pull  *)
(* changes, and releases it with the partner's PS_RDY. Beside it, the      *)
(* pulse on otg-det that every source attachment gives.                    *)
(*                                                                         *)
(* TCPM is the kernel's: phase is the part of its state machine that calls *)
(* set_cc, set_vbus and start_toggling, and it ignores what set_vbus       *)
(* returns except on attachment. sm->lock makes a step of what is done     *)
(* under it. How edges reach TCPM is in TypeC.                             *)
(***************************************************************************)
EXTENDS Integers

CONSTANT MaxFaults  \* bound on failed register accesses

ASSUME PowerSwapAssumption == MaxFaults \in Nat

VARIABLES
  partner,   \* what is plugged in: nothing, a power source or a sink
  cc,        \* CC_STATUS
  hold,      \* CC_CNTL3 bits 5:4: 0x10 is "hold", 0x20 is "frozen"
  rx,        \* the RX buffer
  boost,     \* the companion charger feeds VBUS
  gpio,      \* otg-det
  pr_swap_src_to_snk, pr_swap_snk_to_src, otg_det_queued,  \* sm5714_usbpd
  msg,       \* the message TCPM has still to take
  phase,     \* TCPM
  stray,     \* history: CC was frozen outside of a swap, or the next swap failed to release it
  faults

chip == <<cc, hold, rx>>
swap == <<pr_swap_src_to_snk, pr_swap_snk_to_src>>
pulse == <<gpio, otg_det_queued>>
vars == <<partner, chip, boost, pulse, swap, msg, phase, stray, faults>>

None == "none"
Partners == {None, "source", "sink"}
Messages == {None, "pr_swap", "ps_rdy"}
Swapping == {"src_off", "src_cc", "snk_off", "snk_cc"}
Phases == {"unattached", "toggling", "src_on", "src", "snk", "reset", "recovery", "opening"} \cup Swapping

TypeOK ==
  /\ partner \in Partners /\ cc \in Partners /\ hold \in {None, "hold", "frozen"} /\ rx \in Messages
  /\ boost \in BOOLEAN /\ gpio \in BOOLEAN /\ otg_det_queued \in BOOLEAN
  /\ pr_swap_src_to_snk \in BOOLEAN /\ pr_swap_snk_to_src \in BOOLEAN
  /\ msg \in Messages /\ phase \in Phases /\ stray \in BOOLEAN /\ faults \in 0..MaxFaults

Init ==
  /\ partner \in Partners /\ cc = None /\ hold = None /\ rx = None
  /\ boost = FALSE /\ gpio = FALSE /\ otg_det_queued = FALSE
  /\ pr_swap_src_to_snk = FALSE /\ pr_swap_snk_to_src = FALSE
  /\ msg = None /\ phase = "toggling" /\ stray = FALSE /\ faults = 0

Fail == faults < MaxFaults /\ faults' = faults + 1
FailTwice == faults + 1 < MaxFaults /\ faults' = faults + 2
Fine == UNCHANGED faults

-----------------------------------------------------------------------------
(* The connector, the partner and the chip. *)

Plug ==
  /\ partner' \in Partners \ {partner} /\ (partner = None \/ partner' = None) /\ rx' = None
  /\ UNCHANGED <<cc, hold, boost, pulse, swap, msg, phase, stray>> /\ Fine

\* The chip follows its pins unless it is held.
Detect ==
  /\ hold = None /\ cc # partner
  /\ cc' = partner
  /\ UNCHANGED <<partner, hold, rx, boost, pulse, swap, msg, phase, stray>> /\ Fine

AskSwap ==
  /\ (phase = "src" /\ partner = "sink") \/ (phase = "snk" /\ partner = "source")
  /\ rx = None /\ msg = None
  /\ rx' = "pr_swap"
  /\ UNCHANGED <<partner, cc, hold, boost, pulse, swap, msg, phase, stray>> /\ Fine

\* Its half of the swap is done.
SayReady ==
  /\ partner # None /\ rx = None /\ msg = None /\ rx' = "ps_rdy"
  /\ \/ phase = "src_cc" /\ partner' = "source"
     \/ phase = "snk_off" /\ partner' = "sink"
  /\ UNCHANGED <<cc, hold, boost, pulse, swap, msg, phase, stray>> /\ Fine

-----------------------------------------------------------------------------
(* The interrupt thread. *)

\* Mutant: the swap is forgotten although the hold could not be released.
ReceiveForgets ==
  /\ rx # None /\ rx' = None /\ msg' = rx
  /\ \/ Fail /\ pr_swap_src_to_snk' = (pr_swap_src_to_snk /\ rx # "ps_rdy")
        /\ UNCHANGED <<pr_swap_snk_to_src, hold, stray>>
     \/ /\ Fine /\ rx = "pr_swap" /\ UNCHANGED <<hold, stray>>
        /\ pr_swap_src_to_snk' = (pr_swap_src_to_snk \/ cc = "sink")
        /\ pr_swap_snk_to_src' = (pr_swap_snk_to_src \/ cc = "source")
     \/ /\ Fine /\ rx = "ps_rdy" /\ UNCHANGED <<pr_swap_snk_to_src, stray>>
        /\ hold' = (IF pr_swap_src_to_snk THEN None ELSE hold) /\ pr_swap_src_to_snk' = FALSE
  /\ UNCHANGED <<partner, cc, boost, pulse, phase>>

\* sm5714_usbpd_receive. Where the header, the payload or RX_SRC cannot be read the message is
\* dropped; without the header it is not acknowledged either, and may be read once more. A later
\* failure leaves the swap unknown, or the hold in place, and TCPM gets the message.
Receive ==
  /\ rx # None
  /\ \/ Fail /\ rx' \in {None, rx} /\ UNCHANGED <<swap, hold, msg, stray>>
     \/ /\ Fail /\ rx' = None /\ msg' = rx /\ UNCHANGED <<swap, hold>>
        /\ stray' = (stray \/ (phase = "snk_off" /\ hold # None))
     \/ /\ Fine /\ rx = "pr_swap" /\ rx' = None /\ msg' = rx /\ UNCHANGED <<hold, stray>>
        /\ pr_swap_src_to_snk' = (pr_swap_src_to_snk \/ cc = "sink")
        /\ pr_swap_snk_to_src' = (pr_swap_snk_to_src \/ cc = "source")
     \/ /\ Fine /\ rx = "ps_rdy" /\ rx' = None /\ msg' = rx
        /\ hold' = IF pr_swap_src_to_snk THEN None ELSE hold
        /\ pr_swap_src_to_snk' = FALSE /\ stray' = (stray /\ hold' # None)
        /\ UNCHANGED pr_swap_snk_to_src
  /\ UNCHANGED <<partner, cc, boost, pulse, phase>>

\* sm5714_usbpd_otg_det_work
OtgDetWork ==
  /\ otg_det_queued /\ otg_det_queued' = FALSE /\ gpio' = FALSE
  /\ UNCHANGED <<partner, chip, boost, swap, msg, phase, stray>> /\ Fine

-----------------------------------------------------------------------------
(* The calls of TCPM. *)

\* sm5714_usbpd_start_toggling: the hold is cleared by itself, and again with CC_CNTL3. TCPM
\* repeats what fails.
StartToggling ==
  /\ phase = "unattached"
  /\ pr_swap_src_to_snk' = FALSE /\ pr_swap_snk_to_src' = FALSE
  /\ \/ Fine /\ hold' = None /\ phase' = "toggling"
     \/ Fail /\ hold' = None /\ phase' \in {phase, "toggling"}
     \/ FailTwice /\ hold' = hold /\ phase' = phase
  /\ stray' = (stray /\ hold' # None)
  /\ UNCHANGED <<partner, cc, rx, boost, pulse, msg>>

\* set_cc(TYPEC_CC_OPEN), in the error recovery of TCPM, which ignores its result
SetCcOpen ==
  /\ phase = "opening" /\ phase' = "unattached"
  /\ pr_swap_src_to_snk' = FALSE /\ pr_swap_snk_to_src' = FALSE
  /\ \/ Fine /\ hold' = None /\ cc' = None
     \/ Fail /\ hold' = None /\ cc' \in {None, cc}
     \/ FailTwice /\ UNCHANGED <<hold, cc>>
  /\ msg' = None /\ stray' = (stray /\ hold' # None)
  /\ UNCHANGED <<partner, rx, boost, pulse>>

\* sm5714_usbpd_set_vbus(true): the pulse ...
Pulse(next) ==
  /\ gpio' = TRUE /\ otg_det_queued' = TRUE /\ phase' = next
  /\ UNCHANGED <<partner, chip, boost, swap, msg, stray>> /\ Fine

\* Mutant: where the boost fails the pulse goes on.
SourceFailsHigh ==
  /\ phase = "src_on"
  /\ \/ /\ Fine /\ boost' = TRUE /\ phase' = "src" /\ pr_swap_snk_to_src' = FALSE /\ UNCHANGED pulse
     \/ /\ Fail /\ boost' = boost /\ phase' = "recovery" /\ UNCHANGED pr_swap_snk_to_src
        /\ otg_det_queued' = FALSE /\ gpio' = gpio
  /\ UNCHANGED <<partner, chip, pr_swap_src_to_snk, msg, stray>>

\* ... and the boost. Where it fails the pulse ends with it.
Source ==
  /\ phase = "src_on"
  /\ \/ /\ Fine /\ boost' = TRUE /\ phase' = "src" /\ pr_swap_snk_to_src' = FALSE /\ UNCHANGED pulse
     \/ /\ Fail /\ boost' = boost /\ phase' = "recovery" /\ UNCHANGED pr_swap_snk_to_src
        /\ otg_det_queued' = FALSE /\ gpio' = FALSE
  /\ UNCHANGED <<partner, chip, pr_swap_src_to_snk, msg, stray>>

\* Mutant: CC is not frozen.
SetVbusOffOnly(next) ==
  /\ phase' = next /\ hold' = hold /\ boost' = FALSE /\ otg_det_queued' = FALSE /\ gpio' = FALSE /\ Fine

\* sm5714_usbpd_set_vbus(false): in a swap CC is frozen first; where that fails VBUS stays.
SetVbusOff(next) ==
  /\ phase' = next
  /\ \/ /\ Fine /\ hold' = (IF pr_swap_src_to_snk THEN "frozen" ELSE hold)
        /\ boost' = FALSE /\ otg_det_queued' = FALSE /\ gpio' = FALSE
     \/ pr_swap_src_to_snk /\ Fail /\ UNCHANGED <<hold, boost, pulse>>
     \/ /\ Fail /\ hold' = (IF pr_swap_src_to_snk THEN "frozen" ELSE hold)
        /\ boost' = boost /\ otg_det_queued' = FALSE /\ gpio' = FALSE

AttachSource == phase = "toggling" /\ cc = "sink" /\ Pulse("src_on")
SourceAgain == phase \in {"reset", "snk_cc"} /\ Pulse("src_on")

AttachSink ==
  /\ phase = "toggling" /\ cc = "source" /\ phase' = "snk"
  /\ UNCHANGED <<partner, chip, boost, pulse, swap, msg, stray>> /\ Fine

\* The end of an attachment, seen on CC; of a sink's also on VBUS.
DetachSource ==
  /\ phase = "src" /\ cc # "sink" /\ SetVbusOff("unattached")
  /\ UNCHANGED <<partner, cc, rx, swap, msg, stray>>

DetachSink ==
  /\ phase = "snk" /\ (cc = None \/ partner # "source") /\ phase' = "unattached"
  /\ UNCHANGED <<partner, chip, boost, pulse, swap, msg, stray>> /\ Fine

\* Accepting a swap: source to sink, VBUS goes off; sink to source, the partner's will.
AcceptSource ==
  /\ msg = "pr_swap" /\ msg' = None /\ phase = "src" /\ SetVbusOff("src_off") /\ stray' = FALSE
  /\ UNCHANGED <<partner, cc, rx, swap>>

AcceptSink ==
  /\ msg = "pr_swap" /\ msg' = None /\ phase = "snk" /\ phase' = "snk_off"
  /\ UNCHANGED <<partner, chip, boost, pulse, swap, stray>> /\ Fine

\* A message that comes at another time is answered with Wait, or dropped.
Wait ==
  /\ msg # None /\ msg' = None
  /\ IF msg = "pr_swap" THEN phase \notin {"src", "snk"} ELSE phase \notin {"src_cc", "snk_off"}
  /\ UNCHANGED <<partner, chip, boost, pulse, swap, phase, stray>> /\ Fine

\* Mutant: the bit of the hold is added to that of the freeze.
SetCcRdOr ==
  /\ phase = "src_off" /\ phase' = "src_cc" /\ Fine
  /\ hold' = IF cc # "source" /\ hold = "frozen" THEN "hold and frozen" ELSE hold
  /\ UNCHANGED <<partner, cc, rx, boost, pulse, swap, msg, stray>>

\* set_cc(TYPEC_CC_RD): unless CC shows a source, the hold and the other pull.
SetCcRd ==
  /\ phase = "src_off"
  /\ \/ Fine /\ phase' = "src_cc" /\ hold' = IF cc # "source" /\ pr_swap_src_to_snk THEN "hold" ELSE hold
     \/ Fail /\ phase' = "src_cc" /\ hold' \in {hold, IF pr_swap_src_to_snk THEN "hold" ELSE hold}
  /\ UNCHANGED <<partner, cc, rx, boost, pulse, swap, msg, stray>>

BecomeSink ==
  /\ phase = "src_cc" /\ msg = "ps_rdy" /\ msg' = None /\ phase' = "snk"
  /\ UNCHANGED <<partner, chip, boost, pulse, swap, stray>> /\ Fine

\* set_cc(TYPEC_CC_RP), of which nothing is left where it fails
BecomeSource ==
  /\ phase = "snk_off" /\ msg = "ps_rdy" /\ msg' = None /\ phase' = "snk_cc"
  /\ UNCHANGED <<partner, chip, boost, pulse, swap, stray>> /\ Fine

\* A partner that does not answer.
GiveUp ==
  /\ phase \in {"src_cc", "snk_off"} /\ phase' = "recovery"
  /\ UNCHANGED <<partner, chip, boost, pulse, swap, msg, stray>> /\ Fine

\* Error recovery turns VBUS off, whatever the call returns, before it opens CC.
Recover ==
  /\ phase = "recovery" /\ SetVbusOff("opening")
  /\ UNCHANGED <<partner, cc, rx, swap, msg, stray>>

\* A hard reset turns VBUS off, and on again after a while. It needs no message of TCPM's, so it
\* may come between a request for a swap and its acceptance.
HardReset ==
  /\ phase = "src" /\ cc = "sink" /\ SetVbusOff("reset") /\ stray' = (hold' # None)
  /\ UNCHANGED <<partner, cc, rx, swap, msg>>

-----------------------------------------------------------------------------
World == Plug \/ Detect \/ AskSwap \/ SayReady
Tcpm ==
  \/ StartToggling \/ SetCcOpen \/ AttachSource \/ SourceAgain \/ AttachSink \/ DetachSource \/ DetachSink \/ Source
  \/ AcceptSource \/ AcceptSink \/ Wait \/ SetCcRd \/ BecomeSink \/ BecomeSource \/ GiveUp
  \/ Recover
Next == World \/ Receive \/ OtgDetWork \/ Tcpm \/ HardReset
Spec == Init /\ [][Next]_vars

-----------------------------------------------------------------------------
(* Properties *)

\* Whoever holds or freezes CC is going to release it, whatever fails: TCPM is in the swap, whose
\* PS_RDY or time-out ends the hold; or it is the sink of a swap that could not release it, and
\* the driver still remembers that swap; or it is about to open CC or to start toggling (receive,
\* set_cc, start_toggling). Excepted is a hold that strayed: CC frozen by a hard reset between the
\* request for a swap and its acceptance, or not released by a second PS_RDY either.
HoldHasOwner ==
  hold # None =>
    \/ pr_swap_src_to_snk /\ phase \in {"src_off", "src_cc", "snk", "snk_off"}
    \/ phase \in {"recovery", "opening", "unattached"}
    \/ stray

\* In a swap that the driver knows of VBUS is off only while CC does not follow the pins, or the
\* powered dock would detach while it takes over (set_vbus, set_cc).
SwapHeld == pr_swap_src_to_snk /\ ~boost /\ phase \in {"src_off", "src_cc"} => hold # None

\* A pulse on otg-det has an end: its work is queued, or the call that began it goes on (set_vbus).
PulseEnds == gpio => otg_det_queued
=============================================================================
