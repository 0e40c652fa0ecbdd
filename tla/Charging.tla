------------------------------ MODULE Charging ------------------------------
(***************************************************************************)
(* Who feeds the battery: the SM5714's switching charger through Q4        *)
(* (sm5714_battery.c) or the SM5440's 2:1 charge pump over a PPS contract  *)
(* (sm5440_direct.c); and the SM5714's boost that feeds the connector when *)
(* the tablet is the source.                                               *)
(*                                                                         *)
(* Four actors: the pump's work, the battery's poll work, TCPM, and the    *)
(* power management of the devices, which also unbinds the pump's driver.  *)
(* A step of pc names what its actor does next. Code under chg_lock is one *)
(* step; global_lock is held by the only operation under it that takes     *)
(* two, the claim of the battery path. Register values other than switches,*)
(* and the regulation of the PPS voltage, are abstracted.                  *)
(***************************************************************************)
EXTENDS Integers

CONSTANTS
  Temps,     \* temperatures of the pack, in tenths of a degree
  MaxFaults  \* bound on failed register accesses and requests

ASSUME ChargingAssumption == Temps \subseteq Int /\ MaxFaults \in Nat

VARIABLES
  source,    \* external VBUS
  temp,      \* what the thermistor says
  pump, wdt, \* SM5440: CHG_ON and the watchdog
  pps,       \* TCPM holds a programmable contract
  q4, boost, routed,  \* SM5714: ENQ4FET, OTG mode, the MUIC's manual USB path
  active,    \* sm5440_direct.active
  direct, otg, thermal, lastOnline,  \* the fields of sm5714_battery
  online,    \* local of the poll: VBUS was there
  pc,        \* the next step of each actor
  queued,    \* which works are scheduled
  leaving,   \* what power management stops the pump for
  lost,      \* history: a command that ends the pump or its contract failed
  slipped,   \* history: a start ended after the suspend under way had looked at active
  faults

world == <<source, temp>>
history == <<lost, slipped>>
sm5440 == <<pump, wdt, pps, active, history>>
sm5714 == <<q4, boost, routed, direct, otg, thermal>>
poller == <<lastOnline, online>>
control == <<pc, queued, leaving>>
vars == <<world, sm5440, sm5714, poller, control, faults>>

Starting == {"claim", "open", "prepare", "on", "arm", "verify"}
Restoring == {"stop", "hand_back", "clear"}
Steps ==
  [work : {"rest", "supervise", "service"} \cup Starting \cup Restoring,
   poll : {"rest", "thermal", "decide", "recover", "edge"},
   tcpm : {"rest", "recharge"},
   pm   : {"up", "cancel", "cancel_poll", "asleep", "resume", "gone"} \cup Restoring]

TypeOK ==
  /\ source \in BOOLEAN /\ temp \in Temps
  /\ pump \in BOOLEAN /\ wdt \in BOOLEAN /\ pps \in BOOLEAN /\ active \in BOOLEAN /\ lost \in BOOLEAN
  /\ slipped \in BOOLEAN
  /\ q4 \in BOOLEAN /\ boost \in BOOLEAN /\ routed \in BOOLEAN
  /\ direct \in BOOLEAN /\ otg \in BOOLEAN /\ thermal \in {"normal", "reduced", "stop"}
  /\ lastOnline \in BOOLEAN /\ online \in BOOLEAN
  /\ pc \in Steps /\ queued \subseteq {"work", "poll"}
  /\ leaving \in {"suspend", "unbind"} /\ faults \in 0..MaxFaults
  /\ "work" \in queued => pc.work = "rest"
  /\ "poll" \in queued => pc.poll = "rest"

Init ==
  /\ source = FALSE /\ temp \in Temps
  /\ pump = FALSE /\ wdt = FALSE /\ pps = FALSE /\ active = FALSE /\ lost = FALSE /\ slipped = FALSE
  /\ q4 = FALSE /\ boost = FALSE /\ routed = FALSE
  /\ direct = FALSE /\ otg = FALSE /\ thermal = "normal"
  /\ lastOnline = FALSE /\ online = FALSE
  /\ pc = [work |-> "rest", poll |-> "rest", tcpm |-> "rest", pm |-> "up"]
  /\ queued = {"work", "poll"} /\ leaving = "suspend" /\ faults = 0

Fail == faults < MaxFaults /\ faults' = faults + 1
Fine == UNCHANGED faults
At(a, s) == pc[a] = s
Goto(a, s) == pc' = [pc EXCEPT ![a] = s] /\ UNCHANGED <<queued, leaving>>

\* A work that ends schedules itself again, unless it is being cancelled.
Requeue(w, canceller) ==
  /\ pc' = [pc EXCEPT ![w] = "rest"] /\ UNCHANGED leaving
  /\ queued' = IF pc.pm = canceller THEN queued ELSE queued \cup {w}

\* global_lock is free.
GlobalFree == pc.work # "open"

-----------------------------------------------------------------------------
(* The switching charger, sm5714_battery.c. *)

Online == source /\ ~otg

\* sm5714_charge_thermal_state: bands with hysteresis.
NextThermal ==
  IF temp >= 500 \/ (temp >= 460 /\ thermal = "stop") THEN "stop"
  ELSE IF temp >= 460 \/ (temp > 420 /\ thermal # "normal") THEN "reduced"
  ELSE "normal"

\* Mutant: the boost is not looked at.
ConfigureUnasked ==
  /\ UNCHANGED <<boost, routed, otg>>
  /\ Fine /\ thermal' = NextThermal /\ q4' = (thermal' # "stop")

\* sm5714_configure_charging, under chg_lock: nothing while the boost is on; else Q4 is
\* opened above the thermal limit and closed below it. It does not look at direct.
Configure ==
  /\ UNCHANGED <<boost, routed, otg>>
  /\ \/ otg /\ Fine /\ UNCHANGED <<q4, thermal>>
     \/ ~otg /\ Fine /\ thermal' = NextThermal /\ q4' = (thermal' # "stop")
     \/ ~otg /\ Fail /\ thermal' \in {thermal, NextThermal} /\ q4' \in {q4, thermal' # "stop"}

\* A source that does not charge may need Q4 closed; STATUS2 shows neither charging nor top-off
\* while Q4 is open, and may with Q4 closed.
AfterStatus(closed) ==
  IF ~Online \/ direct THEN {"edge"} ELSE IF closed THEN {"decide", "edge"} ELSE {"decide"}

Sensed == IF Online THEN NextThermal ELSE thermal
Proceed(next) == pc' = [pc EXCEPT !.poll = IF thermal' # thermal THEN "thermal" ELSE next]

\* sm5714_poll_work: the readings.
PollBegin ==
  /\ "poll" \in queued /\ At("poll", "rest")
  /\ queued' = queued \ {"poll"} /\ UNCHANGED leaving
  /\ online' = Online
  /\ \/ Fine /\ thermal' = Sensed /\ \E next \in AfterStatus(q4) : Proceed(next)
     \/ Fail /\ thermal' \in {thermal, Sensed} /\ \E next \in AfterStatus(q4) \cup {"edge"} : Proceed(next)
  /\ UNCHANGED <<world, sm5440, q4, boost, routed, direct, otg, lastOnline>>

\* Where VBUS cannot be read there is nothing to do in this pass.
PollBlind ==
  /\ "poll" \in queued /\ At("poll", "rest") /\ Fail
  /\ UNCHANGED <<world, sm5440, sm5714, poller, control>>

PollThermal ==
  /\ At("poll", "thermal") /\ Configure
  /\ \E next \in AfterStatus(q4') : Goto("poll", next)
  /\ UNCHANGED <<world, sm5440, direct, lastOnline, online>>

\* Mutant: an open Q4 is not recovered.
PollDecideOnce ==
  /\ At("poll", "decide") /\ Goto("poll", "edge")
  /\ Fine /\ UNCHANGED <<world, sm5440, sm5714, poller>>

PollDecide ==
  /\ At("poll", "decide")
  /\ \/ Fine /\ Goto("poll", IF ~direct /\ thermal # "stop" /\ ~q4
                              THEN "recover" ELSE "edge")
     \/ Fail /\ Goto("poll", "edge")
  /\ UNCHANGED <<world, sm5440, sm5714, poller>>

PollRecover ==
  /\ At("poll", "recover") /\ Configure /\ Goto("poll", "edge")
  /\ UNCHANGED <<world, sm5440, direct, poller>>

\* Q4 is opened without chg_lock when the cable has gone.
PollEdge ==
  /\ At("poll", "edge") /\ Requeue("poll", "cancel_poll")
  /\ lastOnline' = online /\ online' = FALSE
  /\ IF lastOnline /\ ~online
       THEN (Fine /\ q4' = FALSE) \/ (Fail /\ q4' = q4)
       ELSE Fine /\ q4' = q4
  /\ UNCHANGED <<world, sm5440, boost, routed, direct, otg, thermal>>

\* sm5714_battery_set_pd_contract, where it configures.
SetContract ==
  /\ GlobalFree /\ At("tcpm", "rest") /\ Online /\ ~direct /\ Configure
  /\ UNCHANGED <<world, sm5440, direct, poller, control>>

\* sm5714_battery_set_otg(true): the data path, then Q4, then the boost; the path goes back
\* where one of the others failed, unless the bus still fails.
OtgOn ==
  /\ GlobalFree /\ At("tcpm", "rest") /\ ~otg /\ ~direct /\ ~source
  /\ \/ Fine /\ routed' = TRUE /\ q4' = FALSE /\ boost' = TRUE /\ otg' = TRUE
     \/ Fail /\ routed' \in BOOLEAN /\ q4' \in {q4, FALSE} /\ UNCHANGED <<boost, otg>>
  /\ UNCHANGED <<world, sm5440, direct, thermal, poller, control>>

\* sm5714_battery_set_otg(false). Charging is configured after global_lock is released.
OtgOff ==
  /\ GlobalFree /\ At("tcpm", "rest") /\ otg
  /\ UNCHANGED <<world, sm5440, q4, direct, thermal, poller>>
  /\ \/ /\ Fine /\ boost' = FALSE /\ otg' = FALSE /\ routed' = FALSE
        /\ Goto("tcpm", IF source THEN "recharge" ELSE "rest")
     \/ Fail /\ UNCHANGED <<boost, otg, routed, control>>
     \/ Fail /\ boost' = FALSE /\ otg' = FALSE /\ routed' = TRUE /\ UNCHANGED control

Recharge ==
  /\ At("tcpm", "recharge") /\ Configure /\ Goto("tcpm", "rest")
  /\ UNCHANGED <<world, sm5440, direct, poller>>

-----------------------------------------------------------------------------
(* The direct charger, sm5440_direct.c. *)

\* Mutant: the work schedules itself as it begins.
WorkBeginQueued ==
  /\ "work" \in queued /\ At("work", "rest") /\ active
  /\ Goto("work", "supervise")
  /\ Fine /\ UNCHANGED <<world, sm5440, sm5714, poller>>

\* A pass of sm5440_work over a pump that runs.
WorkBegin ==
  /\ "work" \in queued /\ At("work", "rest") /\ active
  /\ pc' = [pc EXCEPT !.work = "supervise"] /\ queued' = queued \ {"work"} /\ UNCHANGED leaving
  /\ Fine /\ UNCHANGED <<world, sm5440, sm5714, poller>>

\* sm5440_eligible reads the pack, TCPM and the gauge; start goes on from its answer. A pump
\* that stopped is tried again after SM5440_RETRY_MS, which outlasts a restore under way.
Start ==
  /\ "work" \in queued /\ At("work", "rest") /\ ~active /\ pc.pm \notin Restoring
  /\ Online /\ temp >= 100 /\ temp < 420
  /\ pc' = [pc EXCEPT !.work = "claim"] /\ queued' = queued \ {"work"} /\ UNCHANGED leaving
  /\ Fine /\ UNCHANGED <<world, sm5440, sm5714, poller>>

\* Not eligible (by what is modelled or by charge and voltage), or not readable: look again later.
WorkWaits ==
  /\ "work" \in queued /\ At("work", "rest") /\ ~active
  /\ Fine /\ UNCHANGED <<world, sm5440, sm5714, poller, control>>

\* sm5714_battery_set_direct_charge(true) up to direct_charging; it takes global_lock.
Claim ==
  /\ At("work", "claim")
  /\ \/ /\ temp >= 100 /\ temp < 420 /\ direct' = TRUE /\ Goto("work", "open") /\ Fine
     \/ /\ temp < 100 \/ temp >= 420
        /\ direct' = direct /\ Requeue("work", "cancel") /\ Fine
     \/ Fail /\ direct' = direct /\ Requeue("work", "cancel")
  /\ UNCHANGED <<world, sm5440, q4, boost, routed, otg, thermal, poller>>

\* ... and Q4 under chg_lock.
Open ==
  /\ At("work", "open")
  /\ \/ q4' = FALSE /\ direct' = direct /\ Goto("work", "prepare") /\ Fine
     \/ q4' = q4 /\ direct' = FALSE /\ Requeue("work", "cancel") /\ Fail
  /\ UNCHANGED <<world, sm5440, boost, routed, otg, thermal, poller>>

\* sm5440_hw_init: a software reset, then the settings; then sm5440_request_pps and the wait
\* for the bus. An adapter may refuse the request, or never settle.
Prepare ==
  /\ At("work", "prepare")
  /\ \/ /\ Fine /\ pump' = FALSE /\ wdt' = FALSE
        /\ \/ pps' = FALSE /\ Goto("work", "stop")
           \/ Online /\ pps' = TRUE /\ (Goto("work", "on") \/ Goto("work", "stop"))
     \/ /\ Fail /\ pump' \in {pump, FALSE} /\ wdt' \in {wdt, FALSE} /\ pps' \in {pps, FALSE}
        /\ Goto("work", "stop")
  /\ UNCHANGED <<world, active, history, sm5714, poller>>

SwitchOn ==
  /\ At("work", "on")
  /\ \/ pump' = TRUE /\ Goto("work", "arm") /\ Fine
     \/ pump' = pump /\ Goto("work", "stop") /\ Fail
  /\ UNCHANGED <<world, wdt, pps, active, history, sm5714, poller>>

\* Mutant: a failure after CHG_ON does not restore.
ArmReturns ==
  /\ At("work", "arm")
  /\ \/ wdt' = TRUE /\ Goto("work", "verify") /\ Fine
     \/ wdt' = wdt /\ Requeue("work", "cancel") /\ Fail
  /\ UNCHANGED <<world, pump, pps, active, history, sm5714, poller>>

Arm ==
  /\ At("work", "arm")
  /\ \/ wdt' = TRUE /\ Goto("work", "verify") /\ Fine
     \/ wdt' = wdt /\ Goto("work", "stop") /\ Fail
  /\ UNCHANGED <<world, pump, pps, active, history, sm5714, poller>>

\* STATUS3.VBUSPOK
Verify ==
  /\ At("work", "verify")
  /\ \/ source /\ active' = TRUE /\ Requeue("work", "cancel") /\ Fine
     \/ ~source /\ active' = active /\ Goto("work", "stop") /\ Fine
     \/ source /\ active' = active /\ Goto("work", "stop") /\ Fail
  /\ slipped' = (slipped \/ (active' /\ pc.pm = "cancel" /\ leaving = "suspend"))
  /\ UNCHANGED <<world, pump, wdt, pps, lost, sm5714, poller>>

\* sm5440_refresh_pps in every other pass, and the measurements: a request that fails, or the
\* charge, the die or a voltage, may end it at any time.
Supervise ==
  /\ At("work", "supervise") /\ Fine
  /\ \/ pump /\ source /\ temp \in 0..449 /\ Goto("work", "service")
     \/ Goto("work", "stop")
  /\ UNCHANGED <<world, sm5440, sm5714, poller>>

\* Rewriting CNTL1 services the watchdog.
Service ==
  /\ At("work", "service")
  /\ \/ wdt' = TRUE /\ Requeue("work", "cancel") /\ Fine
     \/ wdt' = wdt /\ Goto("work", "stop") /\ Fail
  /\ UNCHANGED <<world, pump, pps, active, history, sm5714, poller>>

-----------------------------------------------------------------------------
(* sm5440_restore_switching, called by the work and by power management. It ignores what fails. *)

\* CHG_ON, then the watchdog, then the contract.
Stop(a) ==
  /\ At(a, "stop") /\ Goto(a, "hand_back")
  /\ \/ pump' = FALSE /\ wdt' = FALSE /\ pps' = FALSE /\ Fine
     \/ pump' \in {pump, FALSE} /\ wdt' \in {wdt, FALSE} /\ pps' \in {pps, FALSE} /\ Fail
  /\ lost' = (lost \/ pump' \/ pps')
  /\ UNCHANGED <<world, active, slipped, sm5714, poller>>

\* sm5714_battery_set_direct_charge(false)
HandBack(a) ==
  /\ At(a, "hand_back") /\ GlobalFree /\ Goto(a, "clear")
  /\ direct' = FALSE
  /\ \/ Online /\ Configure
     \/ ~Online /\ Fine /\ UNCHANGED <<q4, boost, routed, otg, thermal>>
     \/ Online /\ Fail /\ UNCHANGED <<q4, boost, routed, otg, thermal>>
  /\ UNCHANGED <<world, sm5440, poller>>

Clear(a) ==
  /\ At(a, "clear") /\ active' = FALSE /\ Fine
  /\ IF a = "work" THEN Requeue("work", "cancel")
     ELSE Goto("pm", IF leaving = "suspend" THEN "cancel" ELSE "gone")
  /\ UNCHANGED <<world, pump, wdt, pps, history, sm5714, poller>>

-----------------------------------------------------------------------------
(* Power management. The pump was probed after the battery and is suspended before it. *)

\* sm5440_suspend: restore first, then cancel.
Suspend ==
  /\ At("pm", "up") /\ leaving' = "suspend" /\ UNCHANGED queued
  /\ pc' = [pc EXCEPT !.pm = IF active THEN "stop" ELSE "cancel"]
  /\ Fine /\ UNCHANGED <<world, sm5440, sm5714, poller>>

\* sm5440_cancel_work, when the driver is unbound: cancel first.
Unbind ==
  /\ At("pm", "up") /\ leaving' = "unbind" /\ UNCHANGED queued
  /\ pc' = [pc EXCEPT !.pm = "cancel"]
  /\ Fine /\ UNCHANGED <<world, sm5440, sm5714, poller>>

\* Mutant: the unbound driver does not restore.
CancelOnly ==
  /\ At("pm", "cancel") /\ At("work", "rest")
  /\ queued' = queued \ {"work"} /\ UNCHANGED leaving
  /\ pc' = [pc EXCEPT !.pm = IF leaving = "suspend" THEN "cancel_poll" ELSE "gone"]
  /\ Fine /\ UNCHANGED <<world, sm5440, sm5714, poller>>

\* cancel_delayed_work_sync waits for a work that runs.
Cancel ==
  /\ At("pm", "cancel") /\ At("work", "rest")
  /\ queued' = queued \ {"work"} /\ UNCHANGED leaving
  /\ pc' = [pc EXCEPT !.pm = IF leaving = "suspend" THEN "cancel_poll"
                             ELSE IF active THEN "stop" ELSE "gone"]
  /\ Fine /\ UNCHANGED <<world, sm5440, sm5714, poller>>

\* sm5714_suspend
CancelPoll ==
  /\ At("pm", "cancel_poll") /\ At("poll", "rest")
  /\ queued' = queued \ {"poll"} /\ UNCHANGED leaving
  /\ pc' = [pc EXCEPT !.pm = "asleep"]
  /\ Fine /\ UNCHANGED <<world, sm5440, sm5714, poller>>

\* sm5714_resume, then sm5440_resume
WakePoll ==
  /\ At("pm", "asleep")
  /\ pc' = [pc EXCEPT !.pm = "resume"] /\ queued' = queued \cup {"poll"} /\ UNCHANGED leaving
  /\ Fine /\ UNCHANGED <<world, sm5440, sm5714, poller>>

WakePump ==
  /\ At("pm", "resume")
  /\ pc' = [pc EXCEPT !.pm = "up"] /\ queued' = queued \cup {"work"} /\ UNCHANGED leaving
  /\ slipped' = FALSE
  /\ Fine /\ UNCHANGED <<world, pump, wdt, pps, active, lost, sm5714, poller>>

\* sm5440_probe
Probe ==
  /\ At("pm", "gone")
  /\ pc' = [pc EXCEPT !.pm = "up"] /\ queued' = queued \cup {"work"} /\ leaving' = "suspend"
  /\ Fine /\ UNCHANGED <<world, sm5440, sm5714, poller>>

-----------------------------------------------------------------------------
(* The world. *)

Plug ==
  /\ ~source /\ source' = TRUE
  /\ Fine /\ UNCHANGED <<temp, sm5440, sm5714, poller, control>>

\* A contract ends with its source.
Unplug ==
  /\ source /\ source' = FALSE /\ pps' = FALSE
  /\ Fine /\ UNCHANGED <<temp, pump, wdt, active, history, sm5714, poller, control>>

Warm ==
  /\ temp' \in Temps \ {temp}
  /\ Fine /\ UNCHANGED <<source, sm5440, sm5714, poller, control>>

\* The part clears CHG_ON on its own.
Protect ==
  /\ pump /\ pump' = FALSE
  /\ Fine /\ UNCHANGED <<world, wdt, pps, active, history, sm5714, poller, control>>

\* The watchdog outlasts thirty passes, so it only ends a pump that is no longer served.
Watchdog ==
  /\ pump /\ wdt /\ At("work", "rest") /\ "work" \notin queued
  /\ pump' = FALSE
  /\ Fine /\ UNCHANGED <<world, wdt, pps, active, history, sm5714, poller, control>>

Restore(a) == Stop(a) \/ HandBack(a) \/ Clear(a)
Pass ==
  \/ WorkBegin \/ WorkWaits \/ Claim \/ Open \/ Prepare \/ SwitchOn \/ Arm \/ Verify
  \/ Supervise \/ Service \/ Restore("work")
Work == Start \/ Pass
Poll == PollBegin \/ PollBlind \/ PollThermal \/ PollDecide \/ PollRecover \/ PollEdge
Tcpm == SetContract \/ OtgOn \/ OtgOff \/ Recharge
Pm == Suspend \/ Unbind \/ Cancel \/ CancelPoll \/ WakePoll \/ WakePump \/ Probe \/ Restore("pm")
World == Plug \/ Unplug \/ Warm \/ Protect \/ Watchdog

Next == Work \/ Poll \/ Tcpm \/ Pm \/ World
Spec == Init /\ [][Next]_vars

\* Works that began and a suspend under way go on; the chip's watchdog expires. When devices are suspended,
\* resumed or unbound, cables and temperatures owe nothing.
FairSpec ==
  /\ Spec /\ WF_vars(Pass) /\ WF_vars(Poll) /\ WF_vars(Recharge) /\ WF_vars(Watchdog)
  /\ WF_vars(Cancel \/ CancelPoll \/ WakePump \/ Restore("pm"))

-----------------------------------------------------------------------------
(* Properties *)

\* While the boost drives the connector, Q4 is open and the data path was switched over first
\* (sm5714_battery_set_otg), whatever the poll, TCPM and the direct charger do meanwhile.
BoostIsolated == boost => otg /\ ~q4 /\ routed

\* A pump that runs, and a contract above the fixed voltages, belong to a driver that has claimed
\* the battery path and has yet to finish its start or its stop, or that supervises the pump, which
\* a driver that is suspended does not (sm5440_start, sm5440_work, sm5440_restore_switching,
\* sm5440_suspend). Two things are excepted: a command that ends the pump or its contract may fail,
\* and until the resume a start may have slipped in between suspend's look at active and its
\* cancel: such a pump runs on in suspend, with nobody to attend it.
Attended ==
  ~lost => /\ pump => direct /\ (active \/ pc.work \in {"arm", "verify", "stop"})
           /\ pps => direct
           /\ pump /\ active /\ ~slipped => "work" \in queued \/ pc.work # "rest" \/ pc.pm \in {"cancel", "stop"}

\* A driver that was unbound left no pump running and the path to the switching charger
\* (sm5440_cancel_work).
UnboundHandsBack == pc.pm = "gone" => ~direct /\ ~active /\ (pump => lost)

\* With a source in place the pack is charged one way or the other again and again
\* (sm5714_poll_work recovers Q4, restore_switching gives the path back), unless it is too hot,
\* the boost is on or the system sleeps.
ChargesAgain == []<>(~source \/ q4 \/ pump \/ otg \/ thermal = "stop" \/ pc.pm = "asleep")

\* sm5714_battery_set_direct_charge keeps the arbitration here so that neither the recovery poll
\* nor a later TCPM update closes Q4 behind the direct charger.
Q4OpenBehindPump == pump /\ ~lost => ~q4
=============================================================================
