---------------------------- MODULE TypeCProofs ----------------------------
(***************************************************************************)
(* Proofs about TypeC, for any number of failed register accesses.         *)
(*                                                                         *)
(* AsleepQuiet and WatchLives rest on the order of sm5714_usbpd_suspend:   *)
(* suspended is set before the watch is cancelled and cancelled before the *)
(* resync is, so that nothing queues the watch between its cancellation    *)
(* and the resume that queues it again.                                    *)
(*                                                                         *)
(* NoneOverlooked says that somebody is always left to report an           *)
(* attachment that TCPM toggles past. It rests on what the interrupt       *)
(* thread remembers of an attachment that ended (Forgotten) and on the     *)
(* comparators, which TCPM turns off and on again (Comparing).             *)
(***************************************************************************)
EXTENDS TypeC, TLAPS

\* How far a suspend is says what suspended is and what may still be queued or run.
Ordered ==
  /\ suspended <=> pm # "up"
  /\ pm \in {"resync", "asleep"} => "watch" \notin queued /\ sampled = "rest"

IInv == TypeOK /\ Ordered /\ AsleepQuiet /\ WatchLives

\* Every step keeps the types.
LEMMA TypePreserved == ASSUME IInv, [Next]_vars PROVE TypeOK'
<1> USE TypeCAssumption DEF IInv, TypeOK, Partners, None, Edges, Phases, Fine, Fail,
      chip, seen, works, power, tcpm, history
<1>1. CASE Plug BY <1>1 DEF Plug
<1>2. CASE Unplug BY <1>2 DEF Unplug
<1>3. CASE Attach
  <2>1. cc' \in Partners /\ latch' \subseteq Edges /\ missed' \in BOOLEAN /\ dropped' \in BOOLEAN
    BY <1>3 DEF Attach
  <2> QED BY <1>3, <2>1 DEF Attach
<1>4. CASE Detach
  <2>1. cc' \in Partners /\ latch' \subseteq Edges /\ missed' \in BOOLEAN /\ dropped' \in BOOLEAN
    BY <1>4 DEF Detach
  <2> QED BY <1>4, <2>1 DEF Detach
<1>5. CASE IrqRead BY <1>5 DEF IrqRead
<1>6. CASE IrqFails BY <1>6 DEF IrqFails
<1>7. CASE IrqNote
  <2>1. irq_saw_attach' \in BOOLEAN BY <1>7 DEF IrqNote
  <2>2. told' \in BOOLEAN /\ dropped' \in BOOLEAN /\ got' \subseteq Edges BY <1>7 DEF IrqNote
  <2> QED BY <1>7, <2>1, <2>2, ZenonT(40) DEF IrqNote
<1>8. CASE Resync BY <1>8 DEF Resync
<1>9. CASE WatchRead
  <2>1. queued' \subseteq {"resync", "watch"} /\ sampled' \in Partners \cup {"rest"}
    BY <1>9 DEF WatchRead
  <2>2. "watch" \in queued' => sampled' = "rest" BY <1>9 DEF WatchRead
  <2> QED BY <1>9, <2>1, <2>2 DEF WatchRead
<1>10. CASE WatchDecide BY <1>10 DEF WatchDecide
<1>11. CASE WatchLeaves BY <1>11 DEF WatchLeaves
<1>12. CASE Suspend BY <1>12 DEF Suspend
<1>13. CASE CancelWatch BY <1>13 DEF CancelWatch
<1>14. CASE CancelResync BY <1>14 DEF CancelResync
<1>15. CASE Resume BY <1>15 DEF Resume, AsleepQuiet
<1>16. CASE StartToggling
  <2>1. faults' \in 0..MaxFaults BY <1>16 DEF StartToggling
  <2>2. enabled' \in BOOLEAN /\ phase' \in Phases BY <1>16 DEF StartToggling
  <2> QED BY <1>16, <2>1, <2>2, ZenonT(40) DEF StartToggling
<1>17. CASE SetCcOpen
  <2>1. faults' \in 0..MaxFaults BY <1>17 DEF SetCcOpen
  <2>2. enabled' \in BOOLEAN /\ phase' \in Phases BY <1>17 DEF SetCcOpen
  <2>3. dropped' \in BOOLEAN BY <1>17 DEF SetCcOpen
  <2> QED BY <1>17, <2>1, <2>2, <2>3, ZenonT(40) DEF SetCcOpen
<1>18. CASE TakeCc
  <2>1. faults' \in 0..MaxFaults BY <1>18 DEF TakeCc
  <2>2. phase' \in Phases
    <3>1. Taken \subseteq Phases BY DEF Taken
    <3> QED BY <1>18, <3>1 DEF TakeCc
  <2>3. dropped' \in BOOLEAN /\ told' \in BOOLEAN BY <1>18 DEF TakeCc
  <2> QED BY <1>18, <2>1, <2>2, <2>3, ZenonT(40) DEF TakeCc
<1>19. CASE GiveUp BY <1>19 DEF GiveUp
<1>21. CASE EndReset BY <1>21 DEF EndReset
<1>20. CASE UNCHANGED vars BY <1>20 DEF vars
<1> QED
  BY <1>1, <1>2, <1>3, <1>4, <1>5, <1>6, <1>7, <1>8, <1>9, <1>10, <1>11, <1>12, <1>13, <1>14, <1>15, <1>16, <1>17, <1>18, <1>19, <1>20, <1>21
  DEF Next, World, Irq, Watch, Pm, Tcpm

\* Every step keeps the order of suspend and resume.
LEMMA OrderPreserved == ASSUME IInv, [Next]_vars PROVE Ordered' /\ AsleepQuiet' /\ WatchLives'
<1> USE DEF IInv, TypeOK, Ordered, AsleepQuiet, WatchLives, Awake, None, Partners, Edges,
      chip, seen, works, power, tcpm, history
<1>1. CASE Plug BY <1>1 DEF Plug
<1>2. CASE Unplug BY <1>2 DEF Unplug
<1>3. CASE Attach BY <1>3 DEF Attach
<1>4. CASE Detach BY <1>4 DEF Detach
<1>5. CASE IrqRead BY <1>5 DEF IrqRead
<1>6. CASE IrqFails BY <1>6 DEF IrqFails
<1>7. CASE IrqNote BY <1>7 DEF IrqNote
<1>8. CASE Resync BY <1>8 DEF Resync
<1>9. CASE WatchRead BY <1>9 DEF WatchRead
<1>10. CASE WatchDecide BY <1>10 DEF WatchDecide
<1>11. CASE WatchLeaves BY <1>11 DEF WatchLeaves
<1>12. CASE Suspend BY <1>12 DEF Suspend
<1>13. CASE CancelWatch BY <1>13 DEF CancelWatch
<1>14. CASE CancelResync BY <1>14 DEF CancelResync
<1>15. CASE Resume BY <1>15 DEF Resume
<1>16. CASE StartToggling BY <1>16 DEF StartToggling
<1>17. CASE SetCcOpen BY <1>17 DEF SetCcOpen
<1>18. CASE TakeCc BY <1>18 DEF TakeCc, Taken
<1>19. CASE GiveUp BY <1>19 DEF GiveUp
<1>21. CASE EndReset BY <1>21 DEF EndReset
<1>20. CASE UNCHANGED vars BY <1>20 DEF vars
<1> QED
  BY <1>1, <1>2, <1>3, <1>4, <1>5, <1>6, <1>7, <1>8, <1>9, <1>10, <1>11, <1>12, <1>13, <1>14, <1>15, <1>16, <1>17, <1>18, <1>19, <1>20, <1>21
  DEF Next, World, Irq, Watch, Pm, Tcpm

\* The inductive invariant of the port: types, the order of suspend, and its two consequences.
THEOREM IInvHolds == Spec => []IInv
<1>1. Init => IInv
  <2> SUFFICES ASSUME Init PROVE IInv OBVIOUS
  <2>1. faults \in 0..MaxFaults BY TypeCAssumption DEF Init
  <2>2. queued \subseteq {"resync", "watch"} /\ ("watch" \in queued => sampled = "rest") BY DEF Init
  <2>3. latch \subseteq Edges /\ got \subseteq Edges BY DEF Init
  <2>4. TypeOK BY <2>1, <2>2, <2>3 DEF Init, TypeOK, Partners, None, Phases
  <2>5. Ordered /\ AsleepQuiet /\ WatchLives BY Zenon DEF Init, Ordered, AsleepQuiet, WatchLives
  <2> QED BY <2>4, <2>5 DEF IInv
<1>2. IInv /\ [Next]_vars => IInv' BY TypePreserved, OrderPreserved DEF IInv
<1> QED BY <1>1, <1>2, PTL DEF Spec

\* Type correctness of the port.
THEOREM TypeCorrect == Spec => []TypeOK
<1>1. IInv => TypeOK BY DEF IInv
<1> QED BY <1>1, IInvHolds, PTL

\* No work and no interrupt thread is left when the system sleeps (sm5714_usbpd_suspend).
THEOREM SleepsQuietly == Spec => []AsleepQuiet
<1>1. IInv => AsleepQuiet BY DEF IInv
<1> QED BY <1>1, IInvHolds, PTL

\* The watch is never lost to a failed read or to a suspend that met it (sm5714_usbpd_resume).
THEOREM WatchNeverLost == Spec => []WatchLives
<1>1. IInv => WatchLives BY DEF IInv
<1> QED BY <1>1, IInvHolds, PTL

\* Somebody will tell TCPM of what is attached: it has an event to take, the interrupt has
\* edges to read or to note, or the next pass of the watch finds what neither it nor the
\* interrupt has seen.
Announced ==
  \/ told \/ latch # {} \/ got # {}
  \/ ~irq_saw_attach /\ ~watch_saw_attach

\* The interrupt remembers no attachment that has ended, once it has noted all edges.
Forgotten ==
  cc = None =>
    IF latch # {} THEN "detach" \in latch ELSE "detach" \in got \/ (got = {} /\ ~irq_saw_attach)

\* The comparators are on wherever TCPM has not just opened CC, or nothing is left attached.
Comparing ==
  /\ phase \in {"toggling", "attached", "recovery"} => enabled
  /\ phase = "unattached" => enabled \/ cc = None

\* From its reset on, TCPM will be told of every attachment that CC keeps, or let it pass.
Heard ==
  cc # None /\ enabled /\ phase \notin {"attached", "recovery"} /\ ~missed /\ ~dropped => Announced

Reporting == Forgotten /\ Comparing /\ Heard

\* What AttachmentReported waits for is always under way: there is no attachment that TCPM
\* toggles past and that nobody is left to report.
NoneOverlooked ==
  cc # None /\ phase = "toggling" /\ ~missed /\ ~Lost => Announced \/ "resync" \in queued

\* Who will report an attachment may change with every step; that somebody will does not.
LEMMA AnnouncedPreserved ==
  ASSUME IInv, Reporting, [Next]_vars PROVE Reporting'
<1> USE DEF IInv, TypeOK, Reporting, Forgotten, Comparing, Heard, Announced, None, Partners, Edges, Phases,
      chip, seen, works, power, tcpm, history
<1>1. CASE Plug BY <1>1 DEF Plug
<1>2. CASE Unplug BY <1>2 DEF Unplug
<1>3. CASE Attach BY <1>3 DEF Attach
<1>4. CASE Detach BY <1>4 DEF Detach
<1>5. CASE IrqRead BY <1>5 DEF IrqRead
<1>6. CASE IrqFails BY <1>6 DEF IrqFails
<1>7. CASE IrqNote
  <2>1. told' /\ cc' = cc /\ latch' = latch /\ got' = {} BY <1>7 DEF IrqNote
  <2>2. "detach" \in got => ~irq_saw_attach' BY <1>7 DEF IrqNote
  <2>3. Heard' BY <2>1
  <2>4. got # {} BY <1>7 DEF IrqNote
  <2>5. Forgotten' BY <2>1, <2>2, <2>4
  <2>6. Comparing' BY <1>7 DEF IrqNote
  <2> QED BY <2>3, <2>5, <2>6
<1>8. CASE Resync BY <1>8 DEF Resync
<1>9. CASE WatchRead BY <1>9 DEF WatchRead
<1>10. CASE WatchDecide BY <1>10 DEF WatchDecide
<1>11. CASE WatchLeaves BY <1>11 DEF WatchLeaves
<1>12. CASE Suspend BY <1>12 DEF Suspend
<1>13. CASE CancelWatch BY <1>13 DEF CancelWatch
<1>14. CASE CancelResync BY <1>14 DEF CancelResync
<1>15. CASE Resume BY <1>15 DEF Resume
<1>16. CASE StartToggling BY <1>16 DEF StartToggling
<1>17. CASE SetCcOpen BY <1>17 DEF SetCcOpen
<1>18. CASE TakeCc BY <1>18 DEF TakeCc, Taken
<1>19. CASE GiveUp BY <1>19 DEF GiveUp
<1>21. CASE EndReset BY <1>21 DEF EndReset
<1>20. CASE UNCHANGED vars BY <1>20 DEF vars
<1> QED
  BY <1>1, <1>2, <1>3, <1>4, <1>5, <1>6, <1>7, <1>8, <1>9, <1>10, <1>11, <1>12, <1>13, <1>14, <1>15, <1>16, <1>17, <1>18, <1>19, <1>20, <1>21
  DEF Next, World, Irq, Watch, Pm, Tcpm

\* No attachment is overlooked, whichever of interrupt, resync and watch it meets, across
\* suspends, resumes, failed reads, the reset after registration and edges that are never raised -
\* but where the watch still remembers the attachment before it (missed), or TCPM let the last
\* event of it pass and no resync is to come (Lost).
THEOREM NeverOverlooked == Spec => []NoneOverlooked
<1>1. Init => Reporting BY DEF Init, Reporting, Forgotten, Comparing, Heard, Announced
<1>2. IInv /\ Reporting /\ [Next]_vars => Reporting' BY AnnouncedPreserved
<1>3. Reporting => NoneOverlooked BY DEF Reporting, Comparing, Heard, NoneOverlooked, Lost
<1> QED BY <1>1, <1>2, <1>3, IInvHolds, PTL DEF Spec
=============================================================================
