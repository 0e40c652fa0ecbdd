--------------------------- MODULE ChargingProofs ---------------------------
(***************************************************************************)
(* Proofs about Charging, for any temperatures and any number of faults.   *)
(*                                                                         *)
(* BoostIsolated is inductive with the types. Attended and UnboundHandsBack*)
(* rest on who owns the battery path: the work while it starts the pump,   *)
(* the pump while it is active, and whoever restores the switching charger.*)
(* A start never meets a restore by power management (Exclusive), so the   *)
(* path that a start claimed is still claimed when it turns the pump on    *)
(* (Claimed), and the path is not given back before the pump is off (Off). *)
(*                                                                         *)
(* Watched, with PollWatched, says that a work which was not cancelled     *)
(* runs or is queued; Handed says what a suspend that cancels it leaves.   *)
(***************************************************************************)
EXTENDS Charging, TLAPS

Claiming == Starting \ {"claim"}

\* Power management cancels a work for as long as it needs it not to run.
Still ==
  (pc.pm \in {"cancel_poll", "asleep", "resume", "gone"} \/ (leaving = "unbind" /\ pc.pm \in Restoring))
    => pc.work = "rest" /\ "work" \notin queued

PollStill == pc.pm = "asleep" => pc.poll = "rest" /\ "poll" \notin queued

\* A start and a restore by power management exclude each other.
Exclusive == pc.work \in Starting => ~active /\ pc.pm \notin Restoring

\* The battery path has an owner.
Claimed ==
  /\ pc.work \in Claiming => direct
  /\ direct => active \/ pc.work \in Claiming \cup {"stop", "hand_back"} \/ pc.pm \in {"stop", "hand_back"}
  /\ pc.work = "clear" \/ pc.pm = "clear" => ~direct

\* The path is claimed before the pump and its contract begin, and given back after they ended.
Off ==
  ~lost /\ (pc.work \in {"open", "hand_back", "clear"} \/ pc.pm \in {"hand_back", "clear"}) => ~pump /\ ~pps

\* The work goes on for as long as the driver is bound and awake.
Watched == pc.pm = "up" => "work" \in queued \/ pc.work # "rest"

\* A suspend that is past its look at active has the pump off, but for a start that slipped in.
Handed ==
  pc.pm \in {"cancel_poll", "asleep", "resume"} \/ (pc.pm = "cancel" /\ leaving = "suspend") => (active => slipped)

Control == Still /\ Exclusive /\ Claimed /\ Off /\ Watched /\ Handed
Goals == BoostIsolated /\ Attended /\ UnboundHandsBack

IInv == TypeOK /\ PollStill /\ Control /\ Goals

\* A step counts the failure it met.
LEMMA FaultsCounted == ASSUME TypeOK, Fine \/ Fail PROVE faults' \in 0..MaxFaults
BY ChargingAssumption DEF TypeOK, Fine, Fail

\* Configuring the switching charger leaves the boost alone, and Q4 as well while it is on.
LEMMA ConfigureKeeps ==
  ASSUME TypeOK, Configure
  PROVE  /\ UNCHANGED <<boost, routed, otg>> /\ (otg => UNCHANGED q4)
         /\ q4' \in BOOLEAN /\ thermal' \in {"normal", "reduced", "stop"}
         /\ faults' \in 0..MaxFaults
<1>1. faults' \in 0..MaxFaults BY FaultsCounted DEF Configure
<1>2. NextThermal \in {"normal", "reduced", "stop"} BY DEF NextThermal
<1>3. thermal' \in {thermal, NextThermal} BY DEF Configure
<1>4. q4' \in {q4, TRUE, FALSE} BY DEF Configure
<1>5. UNCHANGED <<boost, routed, otg>> /\ (otg => UNCHANGED q4) BY DEF Configure, TypeOK
<1> QED BY <1>1, <1>2, <1>3, <1>4, <1>5 DEF TypeOK

\* An actor that moves keeps the shape of pc.
LEMMA Moved ==
  ASSUME pc \in Steps
  PROVE  /\ \A s \in {"rest", "supervise", "service"} \cup Starting \cup Restoring :
              [pc EXCEPT !["work"] = s] \in Steps
         /\ \A s \in {"rest", "thermal", "decide", "recover", "edge"} : [pc EXCEPT !["poll"] = s] \in Steps
         /\ \A s \in {"rest", "recharge"} : [pc EXCEPT !["tcpm"] = s] \in Steps
         /\ \A s \in {"up", "cancel", "cancel_poll", "asleep", "resume", "gone"} \cup Restoring :
              [pc EXCEPT !["pm"] = s] \in Steps
BY DEF Steps

\* A work that goes on, or ends.
LEMMA WorkGoes ==
  ASSUME TypeOK, NEW s \in {"rest", "supervise", "service"} \cup Starting \cup Restoring, Goto("work", s)
  PROVE  /\ pc' \in Steps /\ pc'.work = s /\ pc'.poll = pc.poll /\ pc'.tcpm = pc.tcpm /\ pc'.pm = pc.pm
         /\ UNCHANGED <<queued, leaving>>
BY Moved DEF TypeOK, Goto, Steps

\* A pass of the pump's work ends and schedules the next, unless power management is cancelling it.
LEMMA WorkEnds ==
  ASSUME TypeOK, Requeue("work", "cancel")
  PROVE  /\ pc' \in Steps /\ pc'.work = "rest" /\ pc'.poll = pc.poll /\ pc'.tcpm = pc.tcpm /\ pc'.pm = pc.pm
         /\ queued' = (IF pc.pm = "cancel" THEN queued ELSE queued \cup {"work"}) /\ UNCHANGED leaving
BY Moved DEF TypeOK, Requeue, Steps

\* Every step moves its actor to a step of its own.
LEMMA PcPreserved == ASSUME TypeOK, Next PROVE pc' \in Steps
<1>1. CASE WorkBegin BY <1>1, Moved DEF WorkBegin, TypeOK, At, Goto, Requeue, Starting, Restoring, control
<1>2. CASE Start BY <1>2, Moved DEF Start, TypeOK, At, Goto, Requeue, Starting, Restoring, control
<1>3. CASE WorkWaits BY <1>3, Moved DEF WorkWaits, TypeOK, At, Goto, Requeue, Starting, Restoring, control
<1>4. CASE Claim
  <2>1. Goto("work", "open") \/ Requeue("work", "cancel") BY <1>4 DEF Claim
  <2> QED BY <2>1, WorkGoes, WorkEnds DEF Starting, Restoring
<1>5. CASE Open
  <2>1. Goto("work", "prepare") \/ Requeue("work", "cancel") BY <1>5 DEF Open
  <2> QED BY <2>1, WorkGoes, WorkEnds DEF Starting, Restoring
<1>6. CASE Prepare
  <2>1. Goto("work", "stop") \/ Goto("work", "on") BY <1>6 DEF Prepare
  <2> QED BY <2>1, WorkGoes, WorkEnds DEF Starting, Restoring
<1>7. CASE SwitchOn
  <2>1. Goto("work", "arm") \/ Goto("work", "stop") BY <1>7 DEF SwitchOn
  <2> QED BY <2>1, WorkGoes, WorkEnds DEF Starting, Restoring
<1>8. CASE Arm
  <2>1. Goto("work", "verify") \/ Goto("work", "stop") BY <1>8 DEF Arm
  <2> QED BY <2>1, WorkGoes, WorkEnds DEF Starting, Restoring
<1>9. CASE Verify
  <2>1. Goto("work", "stop") \/ Requeue("work", "cancel") BY <1>9 DEF Verify
  <2> QED BY <2>1, WorkGoes, WorkEnds DEF Starting, Restoring
<1>10. CASE Supervise
  <2>1. Goto("work", "service") \/ Goto("work", "stop") BY <1>10 DEF Supervise
  <2> QED BY <2>1, WorkGoes, WorkEnds DEF Starting, Restoring
<1>11. CASE Service
  <2>1. Goto("work", "stop") \/ Requeue("work", "cancel") BY <1>11 DEF Service
  <2> QED BY <2>1, WorkGoes, WorkEnds DEF Starting, Restoring
<1>12. CASE Stop("work") BY <1>12, Moved DEF Stop, TypeOK, At, Goto, Requeue, Starting, Restoring, control
<1>13. CASE HandBack("work") BY <1>13, Moved DEF HandBack, TypeOK, At, Goto, Requeue, Starting, Restoring, control
<1>14. CASE Clear("work") BY <1>14, Moved DEF Clear, TypeOK, At, Goto, Requeue, Starting, Restoring, control
<1>15. CASE Suspend BY <1>15, Moved DEF Suspend, TypeOK, At, Goto, Requeue, Starting, Restoring, control
<1>16. CASE Unbind BY <1>16, Moved DEF Unbind, TypeOK, At, Goto, Requeue, Starting, Restoring, control
<1>17. CASE Cancel BY <1>17, Moved DEF Cancel, TypeOK, At, Goto, Requeue, Starting, Restoring, control
<1>18. CASE CancelPoll BY <1>18, Moved DEF CancelPoll, TypeOK, At, Goto, Requeue, Starting, Restoring, control
<1>19. CASE WakePoll BY <1>19, Moved DEF WakePoll, TypeOK, At, Goto, Requeue, Starting, Restoring, control
<1>20. CASE WakePump BY <1>20, Moved DEF WakePump, TypeOK, At, Goto, Requeue, Starting, Restoring, control
<1>21. CASE Probe BY <1>21, Moved DEF Probe, TypeOK, At, Goto, Requeue, Starting, Restoring, control
<1>22. CASE Stop("pm") BY <1>22, Moved DEF Stop, TypeOK, At, Goto, Requeue, Starting, Restoring, control
<1>23. CASE HandBack("pm") BY <1>23, Moved DEF HandBack, TypeOK, At, Goto, Requeue, Starting, Restoring, control
<1>24. CASE Clear("pm") BY <1>24, Moved DEF Clear, TypeOK, At, Goto, Requeue, Starting, Restoring, control
<1>25. CASE PollBegin BY <1>25, Moved, ZenonT(40) DEF PollBegin, Proceed, AfterStatus, Sensed, NextThermal, TypeOK, At, Goto, Requeue, Starting, Restoring, control
<1>26. CASE PollBlind BY <1>26, Moved DEF PollBlind, TypeOK, At, Goto, Requeue, Starting, Restoring, control
<1>27. CASE PollThermal BY <1>27, Moved DEF PollThermal, AfterStatus, TypeOK, At, Goto, Requeue, Starting, Restoring, control
<1>28. CASE PollDecide BY <1>28, Moved DEF PollDecide, TypeOK, At, Goto, Requeue, Starting, Restoring, control
<1>29. CASE PollRecover BY <1>29, Moved DEF PollRecover, TypeOK, At, Goto, Requeue, Starting, Restoring, control
<1>30. CASE PollEdge BY <1>30, Moved DEF PollEdge, TypeOK, At, Goto, Requeue, Starting, Restoring, control
<1>31. CASE SetContract BY <1>31, Moved DEF SetContract, TypeOK, At, Goto, Requeue, Starting, Restoring, control
<1>32. CASE OtgOn BY <1>32, Moved DEF OtgOn, TypeOK, At, Goto, Requeue, Starting, Restoring, control
<1>33. CASE OtgOff BY <1>33, Moved DEF OtgOff, TypeOK, At, Goto, Requeue, Starting, Restoring, control
<1>34. CASE Recharge BY <1>34, Moved DEF Recharge, TypeOK, At, Goto, Requeue, Starting, Restoring, control
<1>35. CASE Plug BY <1>35, Moved DEF Plug, TypeOK, At, Goto, Requeue, Starting, Restoring, control
<1>36. CASE Unplug BY <1>36, Moved DEF Unplug, TypeOK, At, Goto, Requeue, Starting, Restoring, control
<1>37. CASE Warm BY <1>37, Moved DEF Warm, TypeOK, At, Goto, Requeue, Starting, Restoring, control
<1>38. CASE Protect BY <1>38, Moved DEF Protect, TypeOK, At, Goto, Requeue, Starting, Restoring, control
<1>39. CASE Watchdog BY <1>39, Moved DEF Watchdog, TypeOK, At, Goto, Requeue, Starting, Restoring, control
<1> QED
  BY <1>1, <1>2, <1>3, <1>4, <1>5, <1>6, <1>7, <1>8, <1>9, <1>10, <1>11, <1>12, <1>13, <1>14,
     <1>15, <1>16, <1>17, <1>18, <1>19, <1>20, <1>21, <1>22, <1>23, <1>24, <1>25, <1>26, <1>27, <1>28,
     <1>29, <1>30, <1>31, <1>32, <1>33, <1>34, <1>35, <1>36, <1>37, <1>38, <1>39
  DEF Next, Work, Pass, Restore, Pm, Poll, Tcpm, World

\* Every step counts its failure.
LEMMA FaultsPreserved == ASSUME TypeOK, Next PROVE faults' \in 0..MaxFaults
<1>1. CASE WorkBegin BY <1>1, FaultsCounted DEF WorkBegin
<1>2. CASE Start BY <1>2, FaultsCounted DEF Start
<1>3. CASE WorkWaits BY <1>3, FaultsCounted DEF WorkWaits
<1>4. CASE Claim BY <1>4, FaultsCounted DEF Claim
<1>5. CASE Open BY <1>5, FaultsCounted DEF Open
<1>6. CASE Prepare BY <1>6, FaultsCounted DEF Prepare
<1>7. CASE SwitchOn BY <1>7, FaultsCounted DEF SwitchOn
<1>8. CASE Arm BY <1>8, FaultsCounted DEF Arm
<1>9. CASE Verify BY <1>9, FaultsCounted DEF Verify
<1>10. CASE Supervise BY <1>10, FaultsCounted DEF Supervise
<1>11. CASE Service BY <1>11, FaultsCounted DEF Service
<1>12. CASE Stop("work") BY <1>12, FaultsCounted DEF Stop
<1>13. CASE HandBack("work") BY <1>13, FaultsCounted, ConfigureKeeps DEF HandBack
<1>14. CASE Clear("work") BY <1>14, FaultsCounted DEF Clear
<1>15. CASE Suspend BY <1>15, FaultsCounted DEF Suspend
<1>16. CASE Unbind BY <1>16, FaultsCounted DEF Unbind
<1>17. CASE Cancel BY <1>17, FaultsCounted DEF Cancel
<1>18. CASE CancelPoll BY <1>18, FaultsCounted DEF CancelPoll
<1>19. CASE WakePoll BY <1>19, FaultsCounted DEF WakePoll
<1>20. CASE WakePump BY <1>20, FaultsCounted DEF WakePump
<1>21. CASE Probe BY <1>21, FaultsCounted DEF Probe
<1>22. CASE Stop("pm") BY <1>22, FaultsCounted DEF Stop
<1>23. CASE HandBack("pm") BY <1>23, FaultsCounted, ConfigureKeeps DEF HandBack
<1>24. CASE Clear("pm") BY <1>24, FaultsCounted DEF Clear
<1>25. CASE PollBegin BY <1>25, FaultsCounted DEF PollBegin
<1>26. CASE PollBlind BY <1>26, FaultsCounted DEF PollBlind
<1>27. CASE PollThermal BY <1>27, FaultsCounted, ConfigureKeeps DEF PollThermal
<1>28. CASE PollDecide BY <1>28, FaultsCounted DEF PollDecide
<1>29. CASE PollRecover BY <1>29, FaultsCounted, ConfigureKeeps DEF PollRecover
<1>30. CASE PollEdge BY <1>30, FaultsCounted DEF PollEdge
<1>31. CASE SetContract BY <1>31, FaultsCounted, ConfigureKeeps DEF SetContract
<1>32. CASE OtgOn BY <1>32, FaultsCounted DEF OtgOn
<1>33. CASE OtgOff BY <1>33, FaultsCounted DEF OtgOff
<1>34. CASE Recharge BY <1>34, FaultsCounted, ConfigureKeeps DEF Recharge
<1>35. CASE Plug BY <1>35, FaultsCounted DEF Plug
<1>36. CASE Unplug BY <1>36, FaultsCounted DEF Unplug
<1>37. CASE Warm BY <1>37, FaultsCounted DEF Warm
<1>38. CASE Protect BY <1>38, FaultsCounted DEF Protect
<1>39. CASE Watchdog BY <1>39, FaultsCounted DEF Watchdog
<1> QED
  BY <1>1, <1>2, <1>3, <1>4, <1>5, <1>6, <1>7, <1>8, <1>9, <1>10, <1>11, <1>12, <1>13, <1>14,
     <1>15, <1>16, <1>17, <1>18, <1>19, <1>20, <1>21, <1>22, <1>23, <1>24, <1>25, <1>26, <1>27, <1>28,
     <1>29, <1>30, <1>31, <1>32, <1>33, <1>34, <1>35, <1>36, <1>37, <1>38, <1>39
  DEF Next, Work, Pass, Restore, Pm, Poll, Tcpm, World

\* Every step keeps the types of the pump's side.
LEMMA PumpTypes ==
  ASSUME TypeOK, Next
  PROVE  /\ pump' \in BOOLEAN /\ wdt' \in BOOLEAN /\ pps' \in BOOLEAN /\ active' \in BOOLEAN /\ lost' \in BOOLEAN
         /\ slipped' \in BOOLEAN
<1> USE DEF TypeOK, sm5440, history
<1>1. CASE WorkBegin BY <1>1 DEF WorkBegin
<1>2. CASE Start BY <1>2 DEF Start
<1>3. CASE WorkWaits BY <1>3 DEF WorkWaits
<1>4. CASE Claim BY <1>4 DEF Claim
<1>5. CASE Open BY <1>5 DEF Open
<1>6. CASE Prepare BY <1>6 DEF Prepare
<1>7. CASE SwitchOn BY <1>7 DEF SwitchOn
<1>8. CASE Arm BY <1>8 DEF Arm
<1>9. CASE Verify BY <1>9 DEF Verify
<1>10. CASE Supervise BY <1>10 DEF Supervise
<1>11. CASE Service BY <1>11 DEF Service
<1>12. CASE Stop("work") BY <1>12 DEF Stop
<1>13. CASE HandBack("work") BY <1>13 DEF HandBack
<1>14. CASE Clear("work") BY <1>14 DEF Clear
<1>15. CASE Suspend BY <1>15 DEF Suspend
<1>16. CASE Unbind BY <1>16 DEF Unbind
<1>17. CASE Cancel BY <1>17 DEF Cancel
<1>18. CASE CancelPoll BY <1>18 DEF CancelPoll
<1>19. CASE WakePoll BY <1>19 DEF WakePoll
<1>20. CASE WakePump BY <1>20 DEF WakePump
<1>21. CASE Probe BY <1>21 DEF Probe
<1>22. CASE Stop("pm") BY <1>22 DEF Stop
<1>23. CASE HandBack("pm") BY <1>23 DEF HandBack
<1>24. CASE Clear("pm") BY <1>24 DEF Clear
<1>25. CASE PollBegin BY <1>25 DEF PollBegin
<1>26. CASE PollBlind BY <1>26 DEF PollBlind
<1>27. CASE PollThermal BY <1>27 DEF PollThermal
<1>28. CASE PollDecide BY <1>28 DEF PollDecide
<1>29. CASE PollRecover BY <1>29 DEF PollRecover
<1>30. CASE PollEdge BY <1>30 DEF PollEdge
<1>31. CASE SetContract BY <1>31 DEF SetContract
<1>32. CASE OtgOn BY <1>32 DEF OtgOn
<1>33. CASE OtgOff BY <1>33 DEF OtgOff
<1>34. CASE Recharge BY <1>34 DEF Recharge
<1>35. CASE Plug BY <1>35 DEF Plug
<1>36. CASE Unplug BY <1>36 DEF Unplug
<1>37. CASE Warm BY <1>37 DEF Warm
<1>38. CASE Protect BY <1>38 DEF Protect
<1>39. CASE Watchdog BY <1>39 DEF Watchdog
<1> QED
  BY <1>1, <1>2, <1>3, <1>4, <1>5, <1>6, <1>7, <1>8, <1>9, <1>10, <1>11, <1>12, <1>13, <1>14,
     <1>15, <1>16, <1>17, <1>18, <1>19, <1>20, <1>21, <1>22, <1>23, <1>24, <1>25, <1>26, <1>27, <1>28,
     <1>29, <1>30, <1>31, <1>32, <1>33, <1>34, <1>35, <1>36, <1>37, <1>38, <1>39
  DEF Next, Work, Pass, Restore, Pm, Poll, Tcpm, World

\* Every step keeps the types of the switching charger's side.
LEMMA ChargerTypes ==
  ASSUME TypeOK, Next
  PROVE  /\ q4' \in BOOLEAN /\ boost' \in BOOLEAN /\ routed' \in BOOLEAN
         /\ direct' \in BOOLEAN /\ otg' \in BOOLEAN /\ thermal' \in {"normal", "reduced", "stop"}
<1> USE DEF TypeOK, sm5714
<1>1. CASE WorkBegin BY <1>1 DEF WorkBegin
<1>2. CASE Start BY <1>2 DEF Start
<1>3. CASE WorkWaits BY <1>3 DEF WorkWaits
<1>4. CASE Claim BY <1>4 DEF Claim
<1>5. CASE Open BY <1>5 DEF Open
<1>6. CASE Prepare BY <1>6 DEF Prepare
<1>7. CASE SwitchOn BY <1>7 DEF SwitchOn
<1>8. CASE Arm BY <1>8 DEF Arm
<1>9. CASE Verify BY <1>9 DEF Verify
<1>10. CASE Supervise BY <1>10 DEF Supervise
<1>11. CASE Service BY <1>11 DEF Service
<1>12. CASE Stop("work") BY <1>12 DEF Stop
<1>13. CASE HandBack("work") BY <1>13, ConfigureKeeps DEF HandBack
<1>14. CASE Clear("work") BY <1>14 DEF Clear
<1>15. CASE Suspend BY <1>15 DEF Suspend
<1>16. CASE Unbind BY <1>16 DEF Unbind
<1>17. CASE Cancel BY <1>17 DEF Cancel
<1>18. CASE CancelPoll BY <1>18 DEF CancelPoll
<1>19. CASE WakePoll BY <1>19 DEF WakePoll
<1>20. CASE WakePump BY <1>20 DEF WakePump
<1>21. CASE Probe BY <1>21 DEF Probe
<1>22. CASE Stop("pm") BY <1>22 DEF Stop
<1>23. CASE HandBack("pm") BY <1>23, ConfigureKeeps DEF HandBack
<1>24. CASE Clear("pm") BY <1>24 DEF Clear
<1>25. CASE PollBegin BY <1>25 DEF PollBegin, Proceed, AfterStatus, Sensed, NextThermal
<1>26. CASE PollBlind BY <1>26 DEF PollBlind
<1>27. CASE PollThermal BY <1>27, ConfigureKeeps DEF PollThermal, AfterStatus
<1>28. CASE PollDecide BY <1>28 DEF PollDecide
<1>29. CASE PollRecover BY <1>29, ConfigureKeeps DEF PollRecover
<1>30. CASE PollEdge BY <1>30 DEF PollEdge
<1>31. CASE SetContract BY <1>31, ConfigureKeeps DEF SetContract
<1>32. CASE OtgOn BY <1>32 DEF OtgOn
<1>33. CASE OtgOff BY <1>33 DEF OtgOff
<1>34. CASE Recharge BY <1>34, ConfigureKeeps DEF Recharge
<1>35. CASE Plug BY <1>35 DEF Plug
<1>36. CASE Unplug BY <1>36 DEF Unplug
<1>37. CASE Warm BY <1>37 DEF Warm
<1>38. CASE Protect BY <1>38 DEF Protect
<1>39. CASE Watchdog BY <1>39 DEF Watchdog
<1> QED
  BY <1>1, <1>2, <1>3, <1>4, <1>5, <1>6, <1>7, <1>8, <1>9, <1>10, <1>11, <1>12, <1>13, <1>14,
     <1>15, <1>16, <1>17, <1>18, <1>19, <1>20, <1>21, <1>22, <1>23, <1>24, <1>25, <1>26, <1>27, <1>28,
     <1>29, <1>30, <1>31, <1>32, <1>33, <1>34, <1>35, <1>36, <1>37, <1>38, <1>39
  DEF Next, Work, Pass, Restore, Pm, Poll, Tcpm, World

\* Every step keeps the types of the world, the poll and power management.
LEMMA RestTypes ==
  ASSUME TypeOK, Next
  PROVE  /\ source' \in BOOLEAN /\ temp' \in Temps
         /\ lastOnline' \in BOOLEAN /\ online' \in BOOLEAN /\ leaving' \in {"suspend", "unbind"}
<1> USE DEF TypeOK, world, poller, control, Goto, Requeue, Online, Proceed
<1>1. CASE WorkBegin BY <1>1 DEF WorkBegin
<1>2. CASE Start BY <1>2 DEF Start
<1>3. CASE WorkWaits BY <1>3 DEF WorkWaits
<1>4. CASE Claim BY <1>4 DEF Claim
<1>5. CASE Open BY <1>5 DEF Open
<1>6. CASE Prepare BY <1>6 DEF Prepare
<1>7. CASE SwitchOn BY <1>7 DEF SwitchOn
<1>8. CASE Arm BY <1>8 DEF Arm
<1>9. CASE Verify BY <1>9 DEF Verify
<1>10. CASE Supervise BY <1>10 DEF Supervise
<1>11. CASE Service BY <1>11 DEF Service
<1>12. CASE Stop("work") BY <1>12 DEF Stop
<1>13. CASE HandBack("work") BY <1>13 DEF HandBack
<1>14. CASE Clear("work") BY <1>14 DEF Clear
<1>15. CASE Suspend BY <1>15 DEF Suspend
<1>16. CASE Unbind BY <1>16 DEF Unbind
<1>17. CASE Cancel BY <1>17 DEF Cancel
<1>18. CASE CancelPoll BY <1>18 DEF CancelPoll
<1>19. CASE WakePoll BY <1>19 DEF WakePoll
<1>20. CASE WakePump BY <1>20 DEF WakePump
<1>21. CASE Probe BY <1>21 DEF Probe
<1>22. CASE Stop("pm") BY <1>22 DEF Stop
<1>23. CASE HandBack("pm") BY <1>23 DEF HandBack
<1>24. CASE Clear("pm") BY <1>24 DEF Clear
<1>25. CASE PollBegin BY <1>25 DEF PollBegin
<1>26. CASE PollBlind BY <1>26 DEF PollBlind
<1>27. CASE PollThermal BY <1>27 DEF PollThermal
<1>28. CASE PollDecide BY <1>28 DEF PollDecide
<1>29. CASE PollRecover BY <1>29 DEF PollRecover
<1>30. CASE PollEdge BY <1>30 DEF PollEdge
<1>31. CASE SetContract BY <1>31 DEF SetContract
<1>32. CASE OtgOn BY <1>32 DEF OtgOn
<1>33. CASE OtgOff BY <1>33 DEF OtgOff
<1>34. CASE Recharge BY <1>34 DEF Recharge
<1>35. CASE Plug BY <1>35 DEF Plug
<1>36. CASE Unplug BY <1>36 DEF Unplug
<1>37. CASE Warm BY <1>37 DEF Warm
<1>38. CASE Protect BY <1>38 DEF Protect
<1>39. CASE Watchdog BY <1>39 DEF Watchdog
<1> QED
  BY <1>1, <1>2, <1>3, <1>4, <1>5, <1>6, <1>7, <1>8, <1>9, <1>10, <1>11, <1>12, <1>13, <1>14,
     <1>15, <1>16, <1>17, <1>18, <1>19, <1>20, <1>21, <1>22, <1>23, <1>24, <1>25, <1>26, <1>27, <1>28,
     <1>29, <1>30, <1>31, <1>32, <1>33, <1>34, <1>35, <1>36, <1>37, <1>38, <1>39
  DEF Next, Work, Pass, Restore, Pm, Poll, Tcpm, World

\* Who is queued is at rest: what TypeOK says of queued.
LEMMA QueuedTypes ==
  ASSUME IInv, Next
  PROVE  /\ queued' \subseteq {"work", "poll"}
         /\ ("work" \in queued' => pc'.work = "rest") /\ ("poll" \in queued' => pc'.poll = "rest")
<1> USE DEF IInv, TypeOK, Steps, At
<1>1. CASE WorkBegin BY <1>1 DEF WorkBegin, Goto, Requeue, control, Control, Still, PollStill
<1>2. CASE Start BY <1>2 DEF Start, Goto, Requeue, control, Control, Still, PollStill
<1>3. CASE WorkWaits BY <1>3 DEF WorkWaits, Goto, Requeue, control, Control, Still, PollStill
<1>4. CASE Claim
  <2>1. Goto("work", "open") \/ Requeue("work", "cancel") BY <1>4 DEF Claim
  <2>2. "work" \notin queued BY <1>4 DEF Claim
  <2> QED BY <2>1, <2>2, WorkGoes, WorkEnds DEF Starting, Restoring
<1>5. CASE Open
  <2>1. Goto("work", "prepare") \/ Requeue("work", "cancel") BY <1>5 DEF Open
  <2>2. "work" \notin queued BY <1>5 DEF Open
  <2> QED BY <2>1, <2>2, WorkGoes, WorkEnds DEF Starting, Restoring
<1>6. CASE Prepare
  <2>1. Goto("work", "stop") \/ Goto("work", "on") BY <1>6 DEF Prepare
  <2>2. "work" \notin queued BY <1>6 DEF Prepare
  <2> QED BY <2>1, <2>2, WorkGoes, WorkEnds DEF Starting, Restoring
<1>7. CASE SwitchOn
  <2>1. Goto("work", "arm") \/ Goto("work", "stop") BY <1>7 DEF SwitchOn
  <2>2. "work" \notin queued BY <1>7 DEF SwitchOn
  <2> QED BY <2>1, <2>2, WorkGoes, WorkEnds DEF Starting, Restoring
<1>8. CASE Arm
  <2>1. Goto("work", "verify") \/ Goto("work", "stop") BY <1>8 DEF Arm
  <2>2. "work" \notin queued BY <1>8 DEF Arm
  <2> QED BY <2>1, <2>2, WorkGoes, WorkEnds DEF Starting, Restoring
<1>9. CASE Verify
  <2>1. Goto("work", "stop") \/ Requeue("work", "cancel") BY <1>9 DEF Verify
  <2>2. "work" \notin queued BY <1>9 DEF Verify
  <2> QED BY <2>1, <2>2, WorkGoes, WorkEnds DEF Starting, Restoring
<1>10. CASE Supervise
  <2>1. Goto("work", "service") \/ Goto("work", "stop") BY <1>10 DEF Supervise
  <2>2. "work" \notin queued BY <1>10 DEF Supervise
  <2> QED BY <2>1, <2>2, WorkGoes, WorkEnds DEF Starting, Restoring
<1>11. CASE Service
  <2>1. Goto("work", "stop") \/ Requeue("work", "cancel") BY <1>11 DEF Service
  <2>2. "work" \notin queued BY <1>11 DEF Service
  <2> QED BY <2>1, <2>2, WorkGoes, WorkEnds DEF Starting, Restoring
<1>12. CASE Stop("work") BY <1>12 DEF Stop, Goto, Requeue, control, Control, Still, PollStill
<1>13. CASE HandBack("work") BY <1>13 DEF HandBack, Goto, Requeue, control, Control, Still, PollStill
<1>14. CASE Clear("work") BY <1>14 DEF Clear, Goto, Requeue, control, Control, Still, PollStill
<1>15. CASE Suspend BY <1>15 DEF Suspend, Goto, Requeue, control, Control, Still, PollStill
<1>16. CASE Unbind BY <1>16 DEF Unbind, Goto, Requeue, control, Control, Still, PollStill
<1>17. CASE Cancel BY <1>17 DEF Cancel, Goto, Requeue, control, Control, Still, PollStill
<1>18. CASE CancelPoll BY <1>18 DEF CancelPoll, Goto, Requeue, control, Control, Still, PollStill
<1>19. CASE WakePoll BY <1>19 DEF WakePoll, Goto, Requeue, control, Control, Still, PollStill
<1>20. CASE WakePump BY <1>20 DEF WakePump, Goto, Requeue, control, Control, Still, PollStill
<1>21. CASE Probe BY <1>21 DEF Probe, Goto, Requeue, control, Control, Still, PollStill
<1>22. CASE Stop("pm") BY <1>22 DEF Stop, Goto, Requeue, control, Control, Still, PollStill
<1>23. CASE HandBack("pm") BY <1>23 DEF HandBack, Goto, Requeue, control, Control, Still, PollStill
<1>24. CASE Clear("pm") BY <1>24 DEF Clear, Goto, Requeue, control, Control, Still, PollStill
<1>25. CASE PollBegin BY <1>25 DEF PollBegin, Proceed, AfterStatus, Sensed, NextThermal, Goto, Requeue, control, Control, Still, PollStill
<1>26. CASE PollBlind BY <1>26 DEF PollBlind, Goto, Requeue, control, Control, Still, PollStill
<1>27. CASE PollThermal BY <1>27 DEF PollThermal, AfterStatus, Goto, Requeue, control, Control, Still, PollStill
<1>28. CASE PollDecide BY <1>28 DEF PollDecide, Goto, Requeue, control, Control, Still, PollStill
<1>29. CASE PollRecover BY <1>29 DEF PollRecover, Goto, Requeue, control, Control, Still, PollStill
<1>30. CASE PollEdge BY <1>30 DEF PollEdge, Goto, Requeue, control, Control, Still, PollStill
<1>31. CASE SetContract BY <1>31 DEF SetContract, Goto, Requeue, control, Control, Still, PollStill
<1>32. CASE OtgOn BY <1>32 DEF OtgOn, Goto, Requeue, control, Control, Still, PollStill
<1>33. CASE OtgOff BY <1>33 DEF OtgOff, Goto, Requeue, control, Control, Still, PollStill
<1>34. CASE Recharge BY <1>34 DEF Recharge, Goto, Requeue, control, Control, Still, PollStill
<1>35. CASE Plug BY <1>35 DEF Plug, Goto, Requeue, control, Control, Still, PollStill
<1>36. CASE Unplug BY <1>36 DEF Unplug, Goto, Requeue, control, Control, Still, PollStill
<1>37. CASE Warm BY <1>37 DEF Warm, Goto, Requeue, control, Control, Still, PollStill
<1>38. CASE Protect BY <1>38 DEF Protect, Goto, Requeue, control, Control, Still, PollStill
<1>39. CASE Watchdog BY <1>39 DEF Watchdog, Goto, Requeue, control, Control, Still, PollStill
<1> QED
  BY <1>1, <1>2, <1>3, <1>4, <1>5, <1>6, <1>7, <1>8, <1>9, <1>10, <1>11, <1>12, <1>13, <1>14,
     <1>15, <1>16, <1>17, <1>18, <1>19, <1>20, <1>21, <1>22, <1>23, <1>24, <1>25, <1>26, <1>27, <1>28,
     <1>29, <1>30, <1>31, <1>32, <1>33, <1>34, <1>35, <1>36, <1>37, <1>38, <1>39
  DEF Next, Work, Pass, Restore, Pm, Poll, Tcpm, World

\* The poll, TCPM and the world leave the battery path to its owner.
LEMMA Aside ==
  ASSUME TypeOK, Poll \/ Tcpm \/ World
  PROVE  /\ pc'.work = pc.work /\ pc'.pm = pc.pm /\ ("work" \in queued' <=> "work" \in queued)
         /\ UNCHANGED <<active, direct, leaving, lost, slipped>> /\ (pump' => pump) /\ (pps' => pps)
<1> USE DEF TypeOK, Steps, At, Goto, Requeue, control, sm5440, history, sm5714
<1>1. CASE PollBegin BY <1>1 DEF PollBegin, Proceed, AfterStatus, Sensed, NextThermal
<1>2. CASE PollBlind BY <1>2 DEF PollBlind
<1>3. CASE PollThermal BY <1>3 DEF PollThermal, AfterStatus
<1>4. CASE PollDecide BY <1>4 DEF PollDecide
<1>5. CASE PollRecover BY <1>5 DEF PollRecover
<1>6. CASE PollEdge BY <1>6 DEF PollEdge
<1>7. CASE SetContract BY <1>7 DEF SetContract
<1>8. CASE OtgOn BY <1>8 DEF OtgOn
<1>9. CASE OtgOff BY <1>9 DEF OtgOff
<1>10. CASE Recharge BY <1>10 DEF Recharge
<1>11. CASE Plug BY <1>11 DEF Plug
<1>12. CASE Unplug BY <1>12 DEF Unplug
<1>13. CASE Warm BY <1>13 DEF Warm
<1>14. CASE Protect BY <1>14 DEF Protect
<1>15. CASE Watchdog BY <1>15 DEF Watchdog
<1> QED
  BY <1>1, <1>2, <1>3, <1>4, <1>5, <1>6, <1>7, <1>8, <1>9, <1>10, <1>11, <1>12, <1>13, <1>14,
     <1>15
  DEF Poll, Tcpm, World

\* Every step leaves the battery path with an owner.
LEMMA ControlPreserved == ASSUME IInv, Next PROVE Control'
<1> USE DEF IInv, TypeOK, Control, Still, Exclusive, Claimed, Off, Watched, Handed, Claiming, Starting, Restoring
<1>1. CASE WorkBegin BY <1>1 DEF WorkBegin, At, Goto, Requeue, Steps, sm5440, history, sm5714, control
<1>2. CASE Start BY <1>2 DEF Start, At, Goto, Requeue, Steps, sm5440, history, sm5714, control
<1>3. CASE WorkWaits BY <1>3 DEF WorkWaits, At, Goto, Requeue, Steps, sm5440, history, sm5714, control
<1>4. CASE Claim BY <1>4 DEF Claim, Goals, Attended, At, Goto, Requeue, Steps, sm5440, history, sm5714, control
<1>5. CASE Open BY <1>5 DEF Open, At, Goto, Requeue, Steps, sm5440, history, sm5714, control
<1>6. CASE Prepare BY <1>6 DEF Prepare, At, Goto, Requeue, Steps, sm5440, history, sm5714, control
<1>7. CASE SwitchOn BY <1>7 DEF SwitchOn, At, Goto, Requeue, Steps, sm5440, history, sm5714, control
<1>8. CASE Arm BY <1>8 DEF Arm, At, Goto, Requeue, Steps, sm5440, history, sm5714, control
<1>9. CASE Verify BY <1>9 DEF Verify, At, Goto, Requeue, Steps, sm5440, history, sm5714, control
<1>10. CASE Supervise BY <1>10 DEF Supervise, At, Goto, Requeue, Steps, sm5440, history, sm5714, control
<1>11. CASE Service BY <1>11 DEF Service, At, Goto, Requeue, Steps, sm5440, history, sm5714, control
<1>12. CASE Stop("work") BY <1>12 DEF Stop, At, Goto, Requeue, Steps, sm5440, history, sm5714, control
<1>13. CASE HandBack("work") BY <1>13 DEF HandBack, At, Goto, Requeue, Steps, sm5440, history, sm5714, control
<1>14. CASE Clear("work") BY <1>14 DEF Clear, At, Goto, Requeue, Steps, sm5440, history, sm5714, control
<1>15. CASE Suspend BY <1>15 DEF Suspend, At, Goto, Requeue, Steps, sm5440, history, sm5714, control
<1>16. CASE Unbind BY <1>16 DEF Unbind, At, Goto, Requeue, Steps, sm5440, history, sm5714, control
<1>17. CASE Cancel BY <1>17 DEF Cancel, At, Goto, Requeue, Steps, sm5440, history, sm5714, control
<1>18. CASE CancelPoll BY <1>18 DEF CancelPoll, At, Goto, Requeue, Steps, sm5440, history, sm5714, control
<1>19. CASE WakePoll BY <1>19 DEF WakePoll, At, Goto, Requeue, Steps, sm5440, history, sm5714, control
<1>20. CASE WakePump BY <1>20 DEF WakePump, At, Goto, Requeue, Steps, sm5440, history, sm5714, control
<1>21. CASE Probe BY <1>21 DEF Probe, At, Goto, Requeue, Steps, sm5440, history, sm5714, control
<1>22. CASE Stop("pm") BY <1>22 DEF Stop, At, Goto, Requeue, Steps, sm5440, history, sm5714, control
<1>23. CASE HandBack("pm") BY <1>23 DEF HandBack, At, Goto, Requeue, Steps, sm5440, history, sm5714, control
<1>24. CASE Clear("pm") BY <1>24 DEF Clear, At, Goto, Requeue, Steps, sm5440, history, sm5714, control
<1>25. CASE Poll \/ Tcpm \/ World BY <1>25, Aside
<1> QED
  BY <1>1, <1>2, <1>3, <1>4, <1>5, <1>6, <1>7, <1>8, <1>9, <1>10, <1>11, <1>12, <1>13, <1>14,
     <1>15, <1>16, <1>17, <1>18, <1>19, <1>20, <1>21, <1>22, <1>23, <1>24, <1>25
  DEF Next, Work, Pass, Restore, Pm

\* No step closes Q4 or takes the data path away while the boost is on.
LEMMA BoostPreserved == ASSUME IInv, Next PROVE BoostIsolated'
<1> USE DEF IInv, TypeOK, Goals, BoostIsolated, sm5714
<1>1. CASE WorkBegin BY <1>1 DEF WorkBegin
<1>2. CASE Start BY <1>2 DEF Start
<1>3. CASE WorkWaits BY <1>3 DEF WorkWaits
<1>4. CASE Claim BY <1>4 DEF Claim
<1>5. CASE Open BY <1>5 DEF Open
<1>6. CASE Prepare BY <1>6 DEF Prepare
<1>7. CASE SwitchOn BY <1>7 DEF SwitchOn
<1>8. CASE Arm BY <1>8 DEF Arm
<1>9. CASE Verify BY <1>9 DEF Verify
<1>10. CASE Supervise BY <1>10 DEF Supervise
<1>11. CASE Service BY <1>11 DEF Service
<1>12. CASE Stop("work") BY <1>12 DEF Stop
<1>13. CASE HandBack("work")
  <2>1. CASE Configure BY <2>1, ConfigureKeeps
  <2>2. CASE UNCHANGED <<q4, boost, routed, otg, thermal>> BY <2>2
  <2> QED BY <1>13, <2>1, <2>2 DEF HandBack
<1>14. CASE Clear("work") BY <1>14 DEF Clear
<1>15. CASE Suspend BY <1>15 DEF Suspend
<1>16. CASE Unbind BY <1>16 DEF Unbind
<1>17. CASE Cancel BY <1>17 DEF Cancel
<1>18. CASE CancelPoll BY <1>18 DEF CancelPoll
<1>19. CASE WakePoll BY <1>19 DEF WakePoll
<1>20. CASE WakePump BY <1>20 DEF WakePump
<1>21. CASE Probe BY <1>21 DEF Probe
<1>22. CASE Stop("pm") BY <1>22 DEF Stop
<1>23. CASE HandBack("pm")
  <2>1. CASE Configure BY <2>1, ConfigureKeeps
  <2>2. CASE UNCHANGED <<q4, boost, routed, otg, thermal>> BY <2>2
  <2> QED BY <1>23, <2>1, <2>2 DEF HandBack
<1>24. CASE Clear("pm") BY <1>24 DEF Clear
<1>25. CASE PollBegin BY <1>25 DEF PollBegin
<1>26. CASE PollBlind BY <1>26 DEF PollBlind
<1>27. CASE PollThermal BY <1>27, ConfigureKeeps DEF PollThermal
<1>28. CASE PollDecide BY <1>28 DEF PollDecide
<1>29. CASE PollRecover BY <1>29, ConfigureKeeps DEF PollRecover
<1>30. CASE PollEdge BY <1>30 DEF PollEdge
<1>31. CASE SetContract BY <1>31, ConfigureKeeps DEF SetContract
<1>32. CASE OtgOn BY <1>32 DEF OtgOn
<1>33. CASE OtgOff
  <2>1. boost' = FALSE \/ UNCHANGED <<boost, otg, routed, q4>> BY <1>33 DEF OtgOff
  <2> QED BY <2>1
<1>34. CASE Recharge BY <1>34, ConfigureKeeps DEF Recharge
<1>35. CASE Plug BY <1>35 DEF Plug
<1>36. CASE Unplug BY <1>36 DEF Unplug
<1>37. CASE Warm BY <1>37 DEF Warm
<1>38. CASE Protect BY <1>38 DEF Protect
<1>39. CASE Watchdog BY <1>39 DEF Watchdog
<1> QED
  BY <1>1, <1>2, <1>3, <1>4, <1>5, <1>6, <1>7, <1>8, <1>9, <1>10, <1>11, <1>12, <1>13, <1>14,
     <1>15, <1>16, <1>17, <1>18, <1>19, <1>20, <1>21, <1>22, <1>23, <1>24, <1>25, <1>26, <1>27, <1>28,
     <1>29, <1>30, <1>31, <1>32, <1>33, <1>34, <1>35, <1>36, <1>37, <1>38, <1>39
  DEF Next, Work, Pass, Restore, Pm, Poll, Tcpm, World

\* No step leaves a pump or a contract alone.
LEMMA AttendedPreserved == ASSUME IInv, Next PROVE Attended' /\ UnboundHandsBack'
<1> USE DEF IInv, TypeOK, Goals, Attended, UnboundHandsBack, Control, Still, Exclusive, Claimed, Off, Watched, Handed,
      Claiming, Starting, Restoring
<1>1. CASE WorkBegin BY <1>1 DEF WorkBegin, At, Goto, Requeue, Steps, sm5440, history, sm5714, control
<1>2. CASE Start BY <1>2 DEF Start, At, Goto, Requeue, Steps, sm5440, history, sm5714, control
<1>3. CASE WorkWaits BY <1>3 DEF WorkWaits, At, Goto, Requeue, Steps, sm5440, history, sm5714, control
<1>4. CASE Claim BY <1>4 DEF Claim, At, Goto, Requeue, Steps, sm5440, history, sm5714, control
<1>5. CASE Open
  <2>1. pc.work = "open" /\ UNCHANGED sm5440 BY <1>5 DEF Open, At
  <2>2. CASE direct' = direct /\ Goto("work", "prepare") BY <2>1, <2>2, WorkGoes DEF sm5440, history
  <2>3. CASE direct' = FALSE /\ Requeue("work", "cancel") BY <2>1, <2>3, WorkEnds DEF sm5440, history
  <2> QED BY <1>5, <2>2, <2>3 DEF Open
<1>6. CASE Prepare BY <1>6 DEF Prepare, At, Goto, Requeue, Steps, sm5440, history, sm5714, control
<1>7. CASE SwitchOn BY <1>7 DEF SwitchOn, At, Goto, Requeue, Steps, sm5440, history, sm5714, control
<1>8. CASE Arm BY <1>8 DEF Arm, At, Goto, Requeue, Steps, sm5440, history, sm5714, control
<1>9. CASE Verify BY <1>9 DEF Verify, At, Goto, Requeue, Steps, sm5440, history, sm5714, control
<1>10. CASE Supervise BY <1>10 DEF Supervise, At, Goto, Requeue, Steps, sm5440, history, sm5714, control
<1>11. CASE Service BY <1>11 DEF Service, At, Goto, Requeue, Steps, sm5440, history, sm5714, control
<1>12. CASE Stop("work") BY <1>12 DEF Stop, At, Goto, Requeue, Steps, sm5440, history, sm5714, control
<1>13. CASE HandBack("work") BY <1>13 DEF HandBack, At, Goto, Requeue, Steps, sm5440, history, sm5714, control
<1>14. CASE Clear("work") BY <1>14 DEF Clear, At, Goto, Requeue, Steps, sm5440, history, sm5714, control
<1>15. CASE Suspend BY <1>15 DEF Suspend, At, Goto, Requeue, Steps, sm5440, history, sm5714, control
<1>16. CASE Unbind BY <1>16 DEF Unbind, At, Goto, Requeue, Steps, sm5440, history, sm5714, control
<1>17. CASE Cancel BY <1>17 DEF Cancel, At, Goto, Requeue, Steps, sm5440, history, sm5714, control
<1>18. CASE CancelPoll BY <1>18 DEF CancelPoll, At, Goto, Requeue, Steps, sm5440, history, sm5714, control
<1>19. CASE WakePoll BY <1>19 DEF WakePoll, At, Goto, Requeue, Steps, sm5440, history, sm5714, control
<1>20. CASE WakePump BY <1>20 DEF WakePump, At, Goto, Requeue, Steps, sm5440, history, sm5714, control
<1>21. CASE Probe BY <1>21 DEF Probe, At, Goto, Requeue, Steps, sm5440, history, sm5714, control
<1>22. CASE Stop("pm") BY <1>22 DEF Stop, At, Goto, Requeue, Steps, sm5440, history, sm5714, control
<1>23. CASE HandBack("pm") BY <1>23 DEF HandBack, At, Goto, Requeue, Steps, sm5440, history, sm5714, control
<1>24. CASE Clear("pm") BY <1>24 DEF Clear, At, Goto, Requeue, Steps, sm5440, history, sm5714, control
<1>25. CASE Poll \/ Tcpm \/ World BY <1>25, Aside
<1> QED
  BY <1>1, <1>2, <1>3, <1>4, <1>5, <1>6, <1>7, <1>8, <1>9, <1>10, <1>11, <1>12, <1>13, <1>14,
     <1>15, <1>16, <1>17, <1>18, <1>19, <1>20, <1>21, <1>22, <1>23, <1>24, <1>25
  DEF Next, Work, Pass, Restore, Pm

\* Every step keeps a sleeping poll.
LEMMA PollStillPreserved == ASSUME IInv, Next PROVE PollStill'
<1> USE DEF IInv, TypeOK, PollStill, Steps, At, Goto, Requeue, Restoring, control
<1>1. CASE WorkBegin BY <1>1 DEF WorkBegin
<1>2. CASE Start BY <1>2 DEF Start
<1>3. CASE WorkWaits BY <1>3 DEF WorkWaits
<1>4. CASE Claim BY <1>4 DEF Claim
<1>5. CASE Open BY <1>5 DEF Open
<1>6. CASE Prepare BY <1>6 DEF Prepare
<1>7. CASE SwitchOn BY <1>7 DEF SwitchOn
<1>8. CASE Arm BY <1>8 DEF Arm
<1>9. CASE Verify BY <1>9 DEF Verify
<1>10. CASE Supervise BY <1>10 DEF Supervise
<1>11. CASE Service BY <1>11 DEF Service
<1>12. CASE Stop("work") BY <1>12 DEF Stop
<1>13. CASE HandBack("work") BY <1>13 DEF HandBack
<1>14. CASE Clear("work") BY <1>14 DEF Clear
<1>15. CASE Suspend BY <1>15 DEF Suspend
<1>16. CASE Unbind BY <1>16 DEF Unbind
<1>17. CASE Cancel BY <1>17 DEF Cancel
<1>18. CASE CancelPoll BY <1>18 DEF CancelPoll
<1>19. CASE WakePoll BY <1>19 DEF WakePoll
<1>20. CASE WakePump BY <1>20 DEF WakePump
<1>21. CASE Probe BY <1>21 DEF Probe
<1>22. CASE Stop("pm") BY <1>22 DEF Stop
<1>23. CASE HandBack("pm") BY <1>23 DEF HandBack
<1>24. CASE Clear("pm") BY <1>24 DEF Clear
<1>25. CASE PollBegin BY <1>25 DEF PollBegin, Proceed, AfterStatus, Sensed, NextThermal
<1>26. CASE PollBlind BY <1>26 DEF PollBlind
<1>27. CASE PollThermal BY <1>27 DEF PollThermal, AfterStatus
<1>28. CASE PollDecide BY <1>28 DEF PollDecide
<1>29. CASE PollRecover BY <1>29 DEF PollRecover
<1>30. CASE PollEdge BY <1>30 DEF PollEdge
<1>31. CASE SetContract BY <1>31 DEF SetContract
<1>32. CASE OtgOn BY <1>32 DEF OtgOn
<1>33. CASE OtgOff BY <1>33 DEF OtgOff
<1>34. CASE Recharge BY <1>34 DEF Recharge
<1>35. CASE Plug BY <1>35 DEF Plug
<1>36. CASE Unplug BY <1>36 DEF Unplug
<1>37. CASE Warm BY <1>37 DEF Warm
<1>38. CASE Protect BY <1>38 DEF Protect
<1>39. CASE Watchdog BY <1>39 DEF Watchdog
<1> QED
  BY <1>1, <1>2, <1>3, <1>4, <1>5, <1>6, <1>7, <1>8, <1>9, <1>10, <1>11, <1>12, <1>13, <1>14,
     <1>15, <1>16, <1>17, <1>18, <1>19, <1>20, <1>21, <1>22, <1>23, <1>24, <1>25, <1>26, <1>27, <1>28,
     <1>29, <1>30, <1>31, <1>32, <1>33, <1>34, <1>35, <1>36, <1>37, <1>38, <1>39
  DEF Next, Work, Pass, Restore, Pm, Poll, Tcpm, World

\* The inductive invariant of charging: types, the owner of the battery path, and what follows.
THEOREM IInvHolds == Spec => []IInv
<1>1. Init => IInv
  <2> SUFFICES ASSUME Init PROVE IInv OBVIOUS
  <2>1. faults \in 0..MaxFaults BY ChargingAssumption DEF Init
  <2>2. pc \in Steps BY DEF Init, Steps
  <2>3. TypeOK BY <2>1, <2>2 DEF Init, TypeOK
  <2>4. PollStill /\ Control /\ Goals
    BY DEF Init, PollStill, Control, Still, Exclusive, Claimed, Off, Watched, Handed, Claiming, Starting, Restoring,
           Goals, BoostIsolated, Attended, UnboundHandsBack
  <2> QED BY <2>3, <2>4 DEF IInv
<1>2. ASSUME IInv, Next PROVE IInv'
  <2>1. TypeOK' BY <1>2, PcPreserved, FaultsPreserved, PumpTypes, ChargerTypes, RestTypes, QueuedTypes DEF IInv, TypeOK
  <2> QED
    BY <1>2, <2>1, ControlPreserved, BoostPreserved, AttendedPreserved, PollStillPreserved DEF IInv, Goals
<1>3. ASSUME IInv, UNCHANGED vars PROVE IInv'
  BY <1>3 DEF IInv, TypeOK, PollStill, Control, Still, Exclusive, Claimed, Off, Watched, Handed, Goals, BoostIsolated,
              Attended, UnboundHandsBack, vars, world, sm5440, sm5714, poller, control, history
<1> QED BY <1>1, <1>2, <1>3, PTL DEF Spec

\* Type correctness of charging.
THEOREM TypeCorrect == Spec => []TypeOK
<1>1. IInv => TypeOK BY DEF IInv
<1> QED BY <1>1, IInvHolds, PTL

\* The boost never drives VBUS with Q4 closed or the data path elsewhere (sm5714_battery_set_otg).
THEOREM BoostAlwaysIsolated == Spec => []BoostIsolated
<1>1. IInv => BoostIsolated BY DEF IInv, Goals
<1> QED BY <1>1, IInvHolds, PTL

\* A running pump and its contract are attended until they end, through suspend too, unless a
\* command that ends them failed or a start slipped in between suspend's look at active and its
\* cancel (sm5440_start, sm5440_restore_switching, sm5440_suspend).
THEOREM AlwaysAttended == Spec => []Attended
<1>1. IInv => Attended BY DEF IInv, Goals
<1> QED BY <1>1, IInvHolds, PTL

\* An unbound driver has handed the battery back (sm5440_cancel_work).
THEOREM UnboundAlwaysHandsBack == Spec => []UnboundHandsBack
<1>1. IInv => UnboundHandsBack BY DEF IInv, Goals
<1> QED BY <1>1, IInvHolds, PTL

\* The poll goes on for as long as the battery is awake.
PollWatched == pc.pm \notin {"cancel_poll", "asleep"} => "poll" \in queued \/ pc.poll # "rest"

\* Every step leaves a poll that runs or is scheduled, unless it is suspended.
LEMMA PollWatchedPreserved == ASSUME IInv, PollWatched, Next PROVE PollWatched'
<1> USE DEF IInv, TypeOK, PollStill, PollWatched, Steps, At, Goto, Requeue, Restoring, control
<1>1. CASE WorkBegin BY <1>1 DEF WorkBegin
<1>2. CASE Start BY <1>2 DEF Start
<1>3. CASE WorkWaits BY <1>3 DEF WorkWaits
<1>4. CASE Claim BY <1>4 DEF Claim
<1>5. CASE Open BY <1>5 DEF Open
<1>6. CASE Prepare BY <1>6 DEF Prepare
<1>7. CASE SwitchOn BY <1>7 DEF SwitchOn
<1>8. CASE Arm BY <1>8 DEF Arm
<1>9. CASE Verify BY <1>9 DEF Verify
<1>10. CASE Supervise BY <1>10 DEF Supervise
<1>11. CASE Service BY <1>11 DEF Service
<1>12. CASE Stop("work") BY <1>12 DEF Stop
<1>13. CASE HandBack("work") BY <1>13 DEF HandBack
<1>14. CASE Clear("work") BY <1>14 DEF Clear
<1>15. CASE Suspend BY <1>15 DEF Suspend
<1>16. CASE Unbind BY <1>16 DEF Unbind
<1>17. CASE Cancel BY <1>17 DEF Cancel
<1>18. CASE CancelPoll BY <1>18 DEF CancelPoll
<1>19. CASE WakePoll BY <1>19 DEF WakePoll
<1>20. CASE WakePump BY <1>20 DEF WakePump
<1>21. CASE Probe BY <1>21 DEF Probe
<1>22. CASE Stop("pm") BY <1>22 DEF Stop
<1>23. CASE HandBack("pm") BY <1>23 DEF HandBack
<1>24. CASE Clear("pm") BY <1>24 DEF Clear
<1>25. CASE PollBegin BY <1>25 DEF PollBegin, Proceed, AfterStatus, Sensed, NextThermal
<1>26. CASE PollBlind BY <1>26 DEF PollBlind
<1>27. CASE PollThermal BY <1>27 DEF PollThermal, AfterStatus
<1>28. CASE PollDecide BY <1>28 DEF PollDecide
<1>29. CASE PollRecover BY <1>29 DEF PollRecover
<1>30. CASE PollEdge BY <1>30 DEF PollEdge
<1>31. CASE SetContract BY <1>31 DEF SetContract
<1>32. CASE OtgOn BY <1>32 DEF OtgOn
<1>33. CASE OtgOff BY <1>33 DEF OtgOff
<1>34. CASE Recharge BY <1>34 DEF Recharge
<1>35. CASE Plug BY <1>35 DEF Plug
<1>36. CASE Unplug BY <1>36 DEF Unplug
<1>37. CASE Warm BY <1>37 DEF Warm
<1>38. CASE Protect BY <1>38 DEF Protect
<1>39. CASE Watchdog BY <1>39 DEF Watchdog
<1> QED
  BY <1>1, <1>2, <1>3, <1>4, <1>5, <1>6, <1>7, <1>8, <1>9, <1>10, <1>11, <1>12, <1>13, <1>14,
     <1>15, <1>16, <1>17, <1>18, <1>19, <1>20, <1>21, <1>22, <1>23, <1>24, <1>25, <1>26, <1>27, <1>28,
     <1>29, <1>30, <1>31, <1>32, <1>33, <1>34, <1>35, <1>36, <1>37, <1>38, <1>39
  DEF Next, Work, Pass, Restore, Pm, Poll, Tcpm, World

\* Neither work is ever forgotten: whatever a pass meets, and however cancelling, suspending, resuming and
\* unbinding interleave with it, the pump's work runs or is scheduled while its driver is bound and awake
\* (sm5440_work, sm5440_resume) and the poll's while the battery is awake (sm5714_poll_work,
\* sm5714_resume). That charging goes on rests on it.
THEOREM WorksGoOn == Spec => [](Watched /\ PollWatched)
<1>1. Init => PollWatched BY DEF Init, PollWatched
<1>2. ASSUME PollWatched, UNCHANGED vars PROVE PollWatched' BY <1>2 DEF PollWatched, vars, control
<1>3. IInv => Watched BY DEF IInv, Control
<1> QED BY <1>1, <1>2, <1>3, PollWatchedPreserved, IInvHolds, PTL DEF Spec
=============================================================================
