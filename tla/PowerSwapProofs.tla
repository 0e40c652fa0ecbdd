--------------------------- MODULE PowerSwapProofs ---------------------------
(***************************************************************************)
(* Proofs about PowerSwap, for any number of failed register accesses.     *)
(*                                                                         *)
(* PulseEnds is inductive with the types. HoldHasOwner needs Remembered:   *)
(* whatever is held, the driver's flag says so until TCPM is about to      *)
(* toggle; a PS_RDY that TCPM has of its second swap then either released  *)
(* the hold or set it astray. SwapHeld also needs that TCPM sources VBUS   *)
(* in the phase that a swap starts from, and that a swap asked for is      *)
(* remembered before TCPM can accept it: the RX buffer is empty while a    *)
(* message waits, so no second request is taken in the middle of a swap.   *)
(***************************************************************************)
EXTENDS PowerSwap, TLAPS

\* What a phase of TCPM says of VBUS and of the messages under way.
OneRequest ==
  /\ phase = "src" => boost
  /\ rx # None => msg = None
  /\ phase \in {"src_off", "src_cc"} => rx # "pr_swap"

\* What of CC is held the driver remembers as a swap, until start_toggling is due; and TCPM takes
\* the PS_RDY of the swap back only without a hold, unless the hold strayed.
Remembered ==
  /\ hold # None => pr_swap_src_to_snk \/ phase = "unattached"
  /\ phase = "snk_off" /\ msg = "ps_rdy" /\ hold # None => stray

IInv == TypeOK /\ OneRequest /\ Remembered /\ HoldHasOwner /\ SwapHeld /\ PulseEnds

\* A call counts the failures it met.
LEMMA FaultsCounted == ASSUME TypeOK, Fine \/ Fail \/ FailTwice PROVE faults' \in 0..MaxFaults
BY PowerSwapAssumption DEF TypeOK, Fine, Fail, FailTwice

\* Taking VBUS off keeps the types of what it writes.
LEMMA SetVbusOffTypes ==
  ASSUME TypeOK, NEW next, SetVbusOff(next)
  PROVE  /\ hold' \in {None, "hold", "frozen"} /\ boost' \in BOOLEAN
         /\ gpio' \in BOOLEAN /\ otg_det_queued' \in BOOLEAN
         /\ phase' = next /\ faults' \in 0..MaxFaults
<1>1. faults' \in 0..MaxFaults BY FaultsCounted DEF SetVbusOff
<1>2. phase' = next BY DEF SetVbusOff
<1>3. hold' \in {hold, "frozen"} BY DEF SetVbusOff
<1>4. boost' \in {boost, FALSE} BY DEF SetVbusOff
<1>5. gpio' \in {gpio, FALSE} /\ otg_det_queued' \in {otg_det_queued, FALSE} BY DEF SetVbusOff, pulse
<1> QED BY <1>1, <1>2, <1>3, <1>4, <1>5 DEF TypeOK

\* Every step keeps the types.
LEMMA TypePreserved == ASSUME IInv, [Next]_vars PROVE TypeOK'
<1> USE PowerSwapAssumption DEF IInv, TypeOK, Partners, None, Messages, Swapping, Phases,
      chip, swap, pulse, Fine, Fail, FailTwice
<1>1. CASE Plug BY <1>1 DEF Plug
<1>2. CASE Detect BY <1>2 DEF Detect
<1>3. CASE AskSwap BY <1>3 DEF AskSwap
<1>4. CASE SayReady BY <1>4 DEF SayReady
<1>5. CASE Receive
  <2>1. faults' \in 0..MaxFaults BY <1>5, FaultsCounted DEF Receive
  <2>2. hold' \in {None, "hold", "frozen"} BY <1>5 DEF Receive
  <2>3. pr_swap_src_to_snk' \in BOOLEAN /\ pr_swap_snk_to_src' \in BOOLEAN BY <1>5 DEF Receive
  <2>4. rx' \in Messages /\ msg' \in Messages BY <1>5 DEF Receive
  <2>5. stray' \in BOOLEAN BY <1>5 DEF Receive
  <2> QED BY <1>5, <2>1, <2>2, <2>3, <2>4, <2>5, Zenon DEF Receive
<1>6. CASE OtgDetWork
  <2>1. faults' \in 0..MaxFaults BY <1>6, FaultsCounted DEF OtgDetWork
  <2>2. otg_det_queued' \in BOOLEAN /\ gpio' \in BOOLEAN BY <1>6, Zenon DEF OtgDetWork
  <2>3. /\ partner' \in Partners /\ cc' \in Partners /\ hold' \in {None, "hold", "frozen"}
        /\ rx' \in Messages /\ boost' \in BOOLEAN
    BY <1>6, Zenon DEF OtgDetWork
  <2>4. /\ pr_swap_src_to_snk' \in BOOLEAN /\ pr_swap_snk_to_src' \in BOOLEAN
        /\ msg' \in Messages /\ phase' \in Phases /\ stray' \in BOOLEAN
    BY <1>6, Zenon DEF OtgDetWork
  <2> QED BY <2>1, <2>2, <2>3, <2>4, Zenon
<1>7. CASE StartToggling
  <2>1. faults' \in 0..MaxFaults BY <1>7, FaultsCounted DEF StartToggling
  <2>2. hold' \in {None, "hold", "frozen"} /\ phase' \in Phases BY <1>7 DEF StartToggling
  <2>3. stray' \in BOOLEAN BY <1>7, Zenon DEF StartToggling
  <2> QED BY <1>7, <2>1, <2>2, <2>3, Zenon DEF StartToggling
<1>8. CASE SetCcOpen
  <2>1. faults' \in 0..MaxFaults BY <1>8, FaultsCounted DEF SetCcOpen
  <2>2. hold' \in {None, "hold", "frozen"} /\ cc' \in Partners BY <1>8 DEF SetCcOpen
  <2>3. stray' \in BOOLEAN BY <1>8, Zenon DEF SetCcOpen
  <2> QED BY <1>8, <2>1, <2>2, <2>3, Zenon DEF SetCcOpen
<1>9. CASE AttachSource BY <1>9 DEF AttachSource, Pulse
<1>10. CASE SourceAgain BY <1>10 DEF SourceAgain, Pulse
<1>11. CASE AttachSink BY <1>11 DEF AttachSink
<1>12. CASE DetachSource BY <1>12, SetVbusOffTypes, Zenon DEF DetachSource
<1>13. CASE DetachSink BY <1>13 DEF DetachSink
<1>14. CASE Source
  <2>1. faults' \in 0..MaxFaults BY <1>14, FaultsCounted DEF Source
  <2>2. /\ boost' \in BOOLEAN /\ gpio' \in BOOLEAN /\ otg_det_queued' \in BOOLEAN
        /\ pr_swap_snk_to_src' \in BOOLEAN /\ phase' \in Phases
    BY <1>14 DEF Source
  <2> QED BY <1>14, <2>1, <2>2, Zenon DEF Source
<1>15. CASE AcceptSource BY <1>15, SetVbusOffTypes, Zenon DEF AcceptSource
<1>16. CASE AcceptSink BY <1>16 DEF AcceptSink
<1>17. CASE Wait BY <1>17 DEF Wait
<1>18. CASE SetCcRd
  <2>1. faults' \in 0..MaxFaults BY <1>18, FaultsCounted DEF SetCcRd
  <2>2. hold' \in {None, "hold", "frozen"} /\ phase' \in Phases BY <1>18 DEF SetCcRd
  <2> QED BY <1>18, <2>1, <2>2, ZenonT(40) DEF SetCcRd
<1>19. CASE BecomeSink BY <1>19 DEF BecomeSink
<1>20. CASE BecomeSource BY <1>20 DEF BecomeSource
<1>21. CASE GiveUp BY <1>21 DEF GiveUp
<1>22. CASE HardReset BY <1>22, SetVbusOffTypes, Zenon DEF HardReset
<1>24. CASE Recover BY <1>24, SetVbusOffTypes, Zenon DEF Recover
<1>23. CASE UNCHANGED vars BY <1>23 DEF vars
<1> QED
  BY <1>1, <1>2, <1>3, <1>4, <1>5, <1>6, <1>7, <1>8, <1>9, <1>10, <1>11, <1>12, <1>13,
     <1>14, <1>15, <1>16, <1>17, <1>18, <1>19, <1>20, <1>21, <1>22, <1>23, <1>24
  DEF Next, World, Tcpm

\* Every step keeps requests apart.
LEMMA OneRequestPreserved == ASSUME IInv, [Next]_vars PROVE OneRequest'
<1> USE DEF IInv, TypeOK, OneRequest, None, Messages, chip, swap, pulse
<1>1. CASE Plug BY <1>1 DEF Plug
<1>2. CASE Detect BY <1>2 DEF Detect
<1>3. CASE AskSwap BY <1>3 DEF AskSwap
<1>4. CASE SayReady BY <1>4 DEF SayReady
<1>5. CASE Receive BY <1>5 DEF Receive
<1>6. CASE OtgDetWork BY <1>6 DEF OtgDetWork
<1>7. CASE StartToggling BY <1>7 DEF StartToggling
<1>8. CASE SetCcOpen BY <1>8 DEF SetCcOpen
<1>9. CASE AttachSource BY <1>9 DEF AttachSource, Pulse
<1>10. CASE SourceAgain BY <1>10 DEF SourceAgain, Pulse
<1>11. CASE AttachSink BY <1>11 DEF AttachSink
<1>12. CASE DetachSource BY <1>12 DEF DetachSource, SetVbusOff
<1>13. CASE DetachSink BY <1>13 DEF DetachSink
<1>14. CASE Source BY <1>14 DEF Source
<1>15. CASE AcceptSource BY <1>15 DEF AcceptSource, SetVbusOff
<1>16. CASE AcceptSink BY <1>16 DEF AcceptSink
<1>17. CASE Wait BY <1>17 DEF Wait
<1>18. CASE SetCcRd BY <1>18 DEF SetCcRd
<1>19. CASE BecomeSink BY <1>19 DEF BecomeSink
<1>20. CASE BecomeSource BY <1>20 DEF BecomeSource
<1>21. CASE GiveUp BY <1>21 DEF GiveUp
<1>22. CASE HardReset BY <1>22 DEF HardReset, SetVbusOff
<1>24. CASE Recover BY <1>24 DEF Recover, SetVbusOff
<1>23. CASE UNCHANGED vars BY <1>23 DEF vars
<1> QED
  BY <1>1, <1>2, <1>3, <1>4, <1>5, <1>6, <1>7, <1>8, <1>9, <1>10, <1>11, <1>12, <1>13,
     <1>14, <1>15, <1>16, <1>17, <1>18, <1>19, <1>20, <1>21, <1>22, <1>23, <1>24
  DEF Next, World, Tcpm

\* Every step keeps the owner of the hold, and CC held while VBUS is off in a swap.
LEMMA HoldPreserved == ASSUME IInv, [Next]_vars PROVE Remembered' /\ HoldHasOwner' /\ SwapHeld'
<1> USE DEF IInv, TypeOK, OneRequest, Remembered, HoldHasOwner, SwapHeld, None, chip, swap, pulse
<1>1. CASE Plug BY <1>1 DEF Plug
<1>2. CASE Detect BY <1>2 DEF Detect
<1>3. CASE AskSwap BY <1>3 DEF AskSwap
<1>4. CASE SayReady BY <1>4 DEF SayReady
<1>5. CASE Receive BY <1>5 DEF Receive
<1>6. CASE OtgDetWork BY <1>6 DEF OtgDetWork
<1>7. CASE StartToggling BY <1>7 DEF StartToggling
<1>8. CASE SetCcOpen BY <1>8 DEF SetCcOpen
<1>9. CASE AttachSource BY <1>9 DEF AttachSource, Pulse
<1>10. CASE SourceAgain BY <1>10 DEF SourceAgain, Pulse
<1>11. CASE AttachSink BY <1>11 DEF AttachSink
<1>12. CASE DetachSource
  <2>1. phase' = "unattached" BY <1>12 DEF DetachSource, SetVbusOff
  <2> QED BY <2>1
<1>13. CASE DetachSink BY <1>13 DEF DetachSink
<1>14. CASE Source BY <1>14 DEF Source
<1>15. CASE AcceptSource BY <1>15 DEF AcceptSource, SetVbusOff
<1>16. CASE AcceptSink BY <1>16 DEF AcceptSink
<1>17. CASE Wait BY <1>17 DEF Wait
<1>18. CASE SetCcRd BY <1>18 DEF SetCcRd
<1>19. CASE BecomeSink BY <1>19 DEF BecomeSink
<1>20. CASE BecomeSource BY <1>20 DEF BecomeSource
<1>21. CASE GiveUp BY <1>21 DEF GiveUp
<1>22. CASE HardReset BY <1>22 DEF HardReset, SetVbusOff
<1>24. CASE Recover BY <1>24 DEF Recover, SetVbusOff
<1>23. CASE UNCHANGED vars BY <1>23 DEF vars
<1> QED
  BY <1>1, <1>2, <1>3, <1>4, <1>5, <1>6, <1>7, <1>8, <1>9, <1>10, <1>11, <1>12, <1>13,
     <1>14, <1>15, <1>16, <1>17, <1>18, <1>19, <1>20, <1>21, <1>22, <1>23, <1>24
  DEF Next, World, Tcpm

\* Every step keeps the end of the pulse.
LEMMA PulsePreserved == ASSUME IInv, [Next]_vars PROVE PulseEnds'
<1> USE DEF IInv, TypeOK, PulseEnds, chip, swap, pulse
<1>1. CASE Plug BY <1>1 DEF Plug
<1>2. CASE Detect BY <1>2 DEF Detect
<1>3. CASE AskSwap BY <1>3 DEF AskSwap
<1>4. CASE SayReady BY <1>4 DEF SayReady
<1>5. CASE Receive BY <1>5 DEF Receive
<1>6. CASE OtgDetWork BY <1>6 DEF OtgDetWork
<1>7. CASE StartToggling BY <1>7 DEF StartToggling
<1>8. CASE SetCcOpen BY <1>8 DEF SetCcOpen
<1>9. CASE AttachSource BY <1>9 DEF AttachSource, Pulse
<1>10. CASE SourceAgain BY <1>10 DEF SourceAgain, Pulse
<1>11. CASE AttachSink BY <1>11 DEF AttachSink
<1>12. CASE DetachSource
  <2>1. \/ UNCHANGED pulse
        \/ gpio' = FALSE
    BY <1>12, Zenon DEF DetachSource, SetVbusOff
  <2> QED BY <2>1
<1>13. CASE DetachSink BY <1>13 DEF DetachSink
<1>14. CASE Source BY <1>14 DEF Source
<1>15. CASE AcceptSource BY <1>15 DEF AcceptSource, SetVbusOff
<1>16. CASE AcceptSink BY <1>16 DEF AcceptSink
<1>17. CASE Wait BY <1>17 DEF Wait
<1>18. CASE SetCcRd BY <1>18 DEF SetCcRd
<1>19. CASE BecomeSink BY <1>19 DEF BecomeSink
<1>20. CASE BecomeSource BY <1>20 DEF BecomeSource
<1>21. CASE GiveUp BY <1>21 DEF GiveUp
<1>22. CASE HardReset BY <1>22 DEF HardReset, SetVbusOff
<1>24. CASE Recover BY <1>24 DEF Recover, SetVbusOff
<1>23. CASE UNCHANGED vars BY <1>23 DEF vars
<1> QED
  BY <1>1, <1>2, <1>3, <1>4, <1>5, <1>6, <1>7, <1>8, <1>9, <1>10, <1>11, <1>12, <1>13,
     <1>14, <1>15, <1>16, <1>17, <1>18, <1>19, <1>20, <1>21, <1>22, <1>23, <1>24
  DEF Next, World, Tcpm

\* The inductive invariant of swaps.
THEOREM IInvHolds == Spec => []IInv
<1>1. Init => IInv
  <2> SUFFICES ASSUME Init PROVE IInv OBVIOUS
  <2>1. faults \in 0..MaxFaults BY PowerSwapAssumption DEF Init
  <2>2. TypeOK
    BY <2>1, Zenon DEF Init, TypeOK, Partners, None, Messages, Swapping, Phases
  <2>3. OneRequest /\ Remembered /\ HoldHasOwner /\ SwapHeld /\ PulseEnds
    BY DEF Init, OneRequest, Remembered, HoldHasOwner, SwapHeld, PulseEnds, None
  <2> QED BY <2>2, <2>3 DEF IInv
<1>2. IInv /\ [Next]_vars => IInv'
  BY TypePreserved, OneRequestPreserved, HoldPreserved, PulsePreserved DEF IInv
<1> QED BY <1>1, <1>2, PTL DEF Spec

\* Type correctness of swaps.
THEOREM TypeCorrect == Spec => []TypeOK
<1>1. IInv => TypeOK BY DEF IInv
<1> QED BY <1>1, IInvHolds, PTL

\* CC is held or frozen only while TCPM is in a swap or about to open CC or to toggle, whatever
\* accesses fail (sm5714_usbpd_receive, sm5714_usbpd_start_toggling) - but where a hard reset froze
\* it outside of a swap, or a second PS_RDY could not release it (stray).
THEOREM HoldsAreReleased == Spec => []HoldHasOwner
<1>1. IInv => HoldHasOwner BY DEF IInv
<1> QED BY <1>1, IInvHolds, PTL

\* VBUS is off in a swap only while CC is held (sm5714_usbpd_set_vbus, sm5714_usbpd_set_cc).
THEOREM SwapsAreHeld == Spec => []SwapHeld
<1>1. IInv => SwapHeld BY DEF IInv
<1> QED BY <1>1, IInvHolds, PTL

\* The pulse on otg-det always has an end (sm5714_usbpd_set_vbus).
THEOREM PulsesEnd == Spec => []PulseEnds
<1>1. IInv => PulseEnds BY DEF IInv
<1> QED BY <1>1, IInvHolds, PTL
=============================================================================
