----------------------------- MODULE SpcomProofs -----------------------------
(***************************************************************************)
(* Proofs about Spcom, for any processes and any number of requests and    *)
(* sessions. Who holds shared_sync_lock follows from where the processes   *)
(* are, with the types alone. That a request has a device behind it also   *)
(* needs that the driver is registered before anybody can send (Matched).  *)
(* That answers match by transaction rests on numbers that no request has: *)
(* the two that a restart leaves in txn_id (Numbered), so that a process   *)
(* whose number was reset meets no answer at all (Asking, Waiting).        *)
(*                                                                         *)
(* With Exchange, which says when a process has asked, the channel         *)
(* implements Turns. NotSleptOver and ClientsFit stand by themselves: no   *)
(* wake-up is lost, and the table of processes is never too small.         *)
(***************************************************************************)
EXTENDS Spcom, FiniteSetTheorems, TLAPS

\* One registration at a time calls the bus, before any process can send.
Matched ==
  /\ \A c \in Clients : ~rpdrv => pc[c] \in {"closed", "open"}
  /\ \A c, d \in Clients : pc[c] = "matching" /\ c # d => pc[d] \in {"closed", "open"}

\* A request that was sent, its answer and the answer in the buffer have a number
\* above the first of a session; the buffer is labelled with its own.
Numbered ==
  /\ rpdev => txn_id >= INITIAL_TXN_ID
  /\ \A m \in pending : m.txn > INITIAL_TXN_ID
  /\ \A i \in 1..Len(rx_list) : rx_list[i].txn > INITIAL_TXN_ID
  /\ \A c \in Clients : pc[c] = "asleep" => asked[c] \in Message /\ asked[c].txn > INITIAL_TXN_ID
  /\ Buffered => rpmsg_rx_buf.txn > INITIAL_TXN_ID /\ rx_buf_txn_id = rpmsg_rx_buf.txn

\* In a transaction txn_id is the number of its request, unless a restart has reset it.
InTransaction == {"asleep", "sent", "get", "wait", "woken", "expired"}
Asking ==
  \A c \in Clients : pc[c] \in InTransaction =>
    asked[c] \in Message /\ txn_id \in {asked[c].txn, 0, INITIAL_TXN_ID}

\* What arrives during the wait answers the request; what was given is on its way out.
Waiting ==
  \A c \in Clients :
    /\ pc[c] \in {"wait", "woken"} /\ Buffered => rpmsg_rx_buf.txn = asked[c].txn
    /\ got[c] # None => pc[c] = "out"

IInv == TypeOK /\ SyncHasOwner /\ Matched /\ DeviceBehindSend /\ Numbered /\ Asking /\ Waiting /\ AnswersTransaction

\* What the work takes from the list is a packet, and so are the rest.
LEMMA HeadAndTail == ASSUME NEW s \in Seq(Message), s # <<>> PROVE Head(s) \in Message /\ Tail(s) \in Seq(Message)
OBVIOUS

\* Every step keeps the types.
LEMMA TypePreserved == ASSUME TypeOK, Asking, [Next]_vars PROVE TypeOK'
<1> USE SpcomAssumption DEF TypeOK, Buffered, Message, Locations, Outside, Sending, Getting, Go, sync, link, rx, packets, history
<1>1. CASE \E c \in Clients : OpenControl(c) BY <1>1 DEF OpenControl
<1>2. CASE \E c \in Clients : RegisterDriver(c) BY <1>2 DEF RegisterDriver
<1>3. CASE \E c \in Clients : DriverRegistered(c)
  <2>1. rpmsg_abort' \in BOOLEAN BY <1>3 DEF DriverRegistered
  <2> QED BY <1>3, <2>1 DEF DriverRegistered
<1>4. CASE \E c \in Clients : Register(c) BY <1>4 DEF Register
<1>5. CASE \E c \in Clients : Unregister(c) BY <1>5 DEF Unregister, Deinit
<1>6. CASE \E c \in Clients : CloseControl(c) BY <1>6, ZenonT(40) DEF CloseControl, Deinit
<1>7. CASE \E c \in Clients : Send(c) BY <1>7 DEF Send
<1>8. CASE \E c \in Clients : SendAgain(c)
  <2> PICK c \in Clients : SendAgain(c) BY <1>8
  <2>1. asked[c] \in Message BY DEF SendAgain, TrySend, Asking, InTransaction
  <2>2. pending' \in SUBSET Message BY <2>1 DEF SendAgain, TrySend
  <2>3. pc' \in [Clients -> Locations] BY DEF SendAgain, TrySend
  <2>4. registered' = {d \in Clients : pc'[d] \notin Outside} BY DEF SendAgain, TrySend
  <2> QED BY <2>2, <2>3, <2>4 DEF SendAgain
<1>9. CASE \E c \in Clients : Get(c)
  <2> PICK c \in Clients : Get(c) BY <1>9
  <2>1. pc' \in [Clients -> Locations] BY DEF Get
  <2>2. registered' = {d \in Clients : pc'[d] \notin Outside} BY DEF Get
  <2> QED BY <2>1, <2>2 DEF Get
<1>10. CASE \E c \in Clients : RxInterrupted(c) BY <1>10 DEF RxInterrupted
<1>11. CASE \E c \in Clients : TakeSync(c) BY <1>11 DEF TakeSync
<1>12. CASE \E c \in Clients : SendBegin(c)
  <2> PICK c \in Clients : SendBegin(c) BY <1>12
  <2>1. pending' \in SUBSET Message BY DEF SendBegin, TrySend
  <2>2. pc' \in [Clients -> Locations] BY DEF SendBegin, TrySend
  <2>3. registered' = {d \in Clients : pc'[d] \notin Outside} BY DEF SendBegin, TrySend
  <2>4. asked' \in [Clients -> Message \cup {None}] BY DEF SendBegin
  <2>5. txn_id' \in Nat BY DEF SendBegin
  <2> QED BY <2>1, <2>2, <2>3, <2>4, <2>5 DEF SendBegin
<1>13. CASE \E c \in Clients : SendGivesUp(c) BY <1>13 DEF SendGivesUp
<1>14. CASE \E c \in Clients : RxReady(c) BY <1>14 DEF RxReady, Take, Current
<1>15. CASE \E c \in Clients : RxWait(c)
  <2> PICK c \in Clients : RxWait(c) BY <1>15
  <2>1. rpmsg_rx_buf' \in Message \cup {None, Freed} /\ rx_done' \in BOOLEAN BY DEF RxWait
  <2>2. pc' \in [Clients -> Locations] BY DEF RxWait
  <2>3. registered' = {d \in Clients : pc'[d] \notin Outside} BY DEF RxWait
  <2> QED BY <2>1, <2>2, <2>3 DEF RxWait
<1>16. CASE \E c \in Clients : RxWakes(c) BY <1>16 DEF RxWakes
<1>17. CASE \E c \in Clients : RxExpires(c) BY <1>17 DEF RxExpires
<1>18. CASE \E c \in Clients : RxTimeout(c) BY <1>18 DEF RxTimeout
<1>19. CASE \E c \in Clients : RxTakes(c) BY <1>19 DEF RxTakes, Take
<1>20. CASE \E c \in Clients : GetOut(c) BY <1>20 DEF GetOut
<1>21. CASE Probe
  <2>1. rpdev' \in BOOLEAN /\ rpmsg_abort' \in BOOLEAN BY <1>21 DEF Probe
  <2>2. session' \in 0..MaxSessions /\ txn_id' \in Nat BY <1>21 DEF Probe
  <2> QED BY <1>21, <2>1, <2>2 DEF Probe
<1>22. CASE Remove BY <1>22 DEF Remove
<1>23. CASE \E m \in pending : Answer(m) BY <1>23 DEF Answer
<1>24. CASE WorkBegin BY <1>24 DEF WorkBegin
<1>25. CASE SignalRxDone
  <2>1. Head(rx_list) \in Message /\ rx_list' \in Seq(Message) BY <1>25, HeadAndTail DEF SignalRxDone
  <2>2. rpmsg_rx_buf' \in Message \cup {None, Freed} BY <1>25, <2>1 DEF SignalRxDone
  <2>3. rx_buf_txn_id' \in Nat /\ rx_done' \in BOOLEAN BY <1>25 DEF SignalRxDone, RxAborted
  <2>4. work' \in SUBSET {"scheduled", "running"} BY <1>25 DEF SignalRxDone, RxAborted
  <2> QED BY <1>25, <2>1, <2>2, <2>3, <2>4 DEF SignalRxDone
<1>26. CASE WorkEnd BY <1>26 DEF WorkEnd
<1>27. CASE UNCHANGED vars BY <1>27 DEF vars
<1>28. CASE \E c \in Clients : SendFails(c) BY <1>28 DEF SendFails
<1> QED BY <1>1, <1>2, <1>3, <1>4, <1>5, <1>6, <1>7, <1>8, <1>9, <1>10, <1>11, <1>12, <1>13, <1>14, <1>15, <1>16, <1>17, <1>18, <1>19, <1>20, <1>21, <1>22, <1>23, <1>24, <1>25, <1>26, <1>27, <1>28 DEF Next, InCall, Work

\* Registrations exclude each other.
LEMMA MatchedPreserved == ASSUME TypeOK, Matched, [Next]_vars PROVE Matched'
<1> USE SpcomAssumption DEF TypeOK, Matched, ch_list_lock, Locations, Outside, Sending, Getting, Go, sync, link, rx, packets, history
<1>1. CASE \E c \in Clients : OpenControl(c) BY <1>1 DEF OpenControl
<1>2. CASE \E c \in Clients : RegisterDriver(c) BY <1>2 DEF RegisterDriver
<1>3. CASE \E c \in Clients : DriverRegistered(c) BY <1>3 DEF DriverRegistered
<1>4. CASE \E c \in Clients : Register(c) BY <1>4 DEF Register
<1>5. CASE \E c \in Clients : Unregister(c) BY <1>5 DEF Unregister, Deinit
<1>6. CASE \E c \in Clients : CloseControl(c) BY <1>6 DEF CloseControl, Deinit
<1>7. CASE \E c \in Clients : Send(c) BY <1>7 DEF Send
<1>8. CASE \E c \in Clients : SendAgain(c) BY <1>8 DEF SendAgain, TrySend
<1>9. CASE \E c \in Clients : Get(c) BY <1>9 DEF Get
<1>10. CASE \E c \in Clients : RxInterrupted(c) BY <1>10 DEF RxInterrupted
<1>11. CASE \E c \in Clients : TakeSync(c) BY <1>11 DEF TakeSync
<1>12. CASE \E c \in Clients : SendBegin(c) BY <1>12 DEF SendBegin, TrySend
<1>13. CASE \E c \in Clients : SendGivesUp(c) BY <1>13 DEF SendGivesUp
<1>14. CASE \E c \in Clients : RxReady(c) BY <1>14 DEF RxReady, Take, Current
<1>15. CASE \E c \in Clients : RxWait(c) BY <1>15 DEF RxWait, Current
<1>16. CASE \E c \in Clients : RxWakes(c) BY <1>16 DEF RxWakes
<1>17. CASE \E c \in Clients : RxExpires(c) BY <1>17 DEF RxExpires
<1>18. CASE \E c \in Clients : RxTimeout(c) BY <1>18 DEF RxTimeout
<1>19. CASE \E c \in Clients : RxTakes(c) BY <1>19 DEF RxTakes, Take
<1>20. CASE \E c \in Clients : GetOut(c) BY <1>20 DEF GetOut
<1>21. CASE Probe BY <1>21 DEF Probe
<1>22. CASE Remove BY <1>22 DEF Remove
<1>23. CASE \E m \in pending : Answer(m) BY <1>23 DEF Answer
<1>24. CASE WorkBegin BY <1>24 DEF WorkBegin
<1>25. CASE SignalRxDone BY <1>25 DEF SignalRxDone, RxAborted
<1>26. CASE WorkEnd BY <1>26 DEF WorkEnd
<1>27. CASE UNCHANGED vars BY <1>27 DEF vars
<1>28. CASE \E c \in Clients : SendFails(c) BY <1>28 DEF SendFails
<1> QED BY <1>1, <1>2, <1>3, <1>4, <1>5, <1>6, <1>7, <1>8, <1>9, <1>10, <1>11, <1>12, <1>13, <1>14, <1>15, <1>16, <1>17, <1>18, <1>19, <1>20, <1>21, <1>22, <1>23, <1>24, <1>25, <1>26, <1>27, <1>28 DEF Next, InCall, Work

\* The lock changes hands with its owner.
LEMMA OwnerPreserved == ASSUME TypeOK, SyncHasOwner, [Next]_vars PROVE SyncHasOwner'
<1> USE SpcomAssumption DEF TypeOK, SyncHasOwner, Holding, Locations, Outside, Sending, Getting, Go, sync, link, rx, packets, history
<1>1. CASE \E c \in Clients : OpenControl(c) BY <1>1 DEF OpenControl
<1>2. CASE \E c \in Clients : RegisterDriver(c) BY <1>2 DEF RegisterDriver
<1>3. CASE \E c \in Clients : DriverRegistered(c) BY <1>3 DEF DriverRegistered
<1>4. CASE \E c \in Clients : Register(c) BY <1>4 DEF Register
<1>5. CASE \E c \in Clients : Unregister(c) BY <1>5 DEF Unregister, Deinit
<1>6. CASE \E c \in Clients : CloseControl(c) BY <1>6 DEF CloseControl, Deinit
<1>7. CASE \E c \in Clients : Send(c) BY <1>7 DEF Send
<1>8. CASE \E c \in Clients : SendAgain(c) BY <1>8 DEF SendAgain, TrySend
<1>9. CASE \E c \in Clients : Get(c) BY <1>9 DEF Get
<1>10. CASE \E c \in Clients : RxInterrupted(c) BY <1>10 DEF RxInterrupted
<1>11. CASE \E c \in Clients : TakeSync(c) BY <1>11 DEF TakeSync
<1>12. CASE \E c \in Clients : SendBegin(c) BY <1>12 DEF SendBegin, TrySend
<1>13. CASE \E c \in Clients : SendGivesUp(c) BY <1>13 DEF SendGivesUp
<1>14. CASE \E c \in Clients : RxReady(c) BY <1>14 DEF RxReady, Take, Current
<1>15. CASE \E c \in Clients : RxWait(c) BY <1>15 DEF RxWait, Current
<1>16. CASE \E c \in Clients : RxWakes(c) BY <1>16 DEF RxWakes
<1>17. CASE \E c \in Clients : RxExpires(c) BY <1>17 DEF RxExpires
<1>18. CASE \E c \in Clients : RxTimeout(c) BY <1>18 DEF RxTimeout
<1>19. CASE \E c \in Clients : RxTakes(c) BY <1>19 DEF RxTakes, Take
<1>20. CASE \E c \in Clients : GetOut(c) BY <1>20 DEF GetOut
<1>21. CASE Probe BY <1>21 DEF Probe
<1>22. CASE Remove BY <1>22 DEF Remove
<1>23. CASE \E m \in pending : Answer(m) BY <1>23 DEF Answer
<1>24. CASE WorkBegin BY <1>24 DEF WorkBegin
<1>25. CASE SignalRxDone BY <1>25 DEF SignalRxDone, RxAborted
<1>26. CASE WorkEnd BY <1>26 DEF WorkEnd
<1>27. CASE UNCHANGED vars BY <1>27 DEF vars
<1>28. CASE \E c \in Clients : SendFails(c) BY <1>28 DEF SendFails
<1> QED BY <1>1, <1>2, <1>3, <1>4, <1>5, <1>6, <1>7, <1>8, <1>9, <1>10, <1>11, <1>12, <1>13, <1>14, <1>15, <1>16, <1>17, <1>18, <1>19, <1>20, <1>21, <1>22, <1>23, <1>24, <1>25, <1>26, <1>27, <1>28 DEF Next, InCall, Work

\* A device goes with the abort.
LEMMA DevicePreserved == ASSUME TypeOK, Matched, DeviceBehindSend, [Next]_vars PROVE DeviceBehindSend'
<1> USE SpcomAssumption DEF TypeOK, DeviceBehindSend, Matched, Locations, Outside, Sending, Getting, Go, sync, link, rx, packets, history
<1>1. CASE \E c \in Clients : OpenControl(c) BY <1>1 DEF OpenControl
<1>2. CASE \E c \in Clients : RegisterDriver(c) BY <1>2 DEF RegisterDriver
<1>3. CASE \E c \in Clients : DriverRegistered(c) BY <1>3 DEF DriverRegistered
<1>4. CASE \E c \in Clients : Register(c) BY <1>4 DEF Register
<1>5. CASE \E c \in Clients : Unregister(c) BY <1>5 DEF Unregister, Deinit
<1>6. CASE \E c \in Clients : CloseControl(c) BY <1>6 DEF CloseControl, Deinit
<1>7. CASE \E c \in Clients : Send(c) BY <1>7 DEF Send
<1>8. CASE \E c \in Clients : SendAgain(c) BY <1>8 DEF SendAgain, TrySend
<1>9. CASE \E c \in Clients : Get(c) BY <1>9 DEF Get
<1>10. CASE \E c \in Clients : RxInterrupted(c) BY <1>10 DEF RxInterrupted
<1>11. CASE \E c \in Clients : TakeSync(c) BY <1>11 DEF TakeSync
<1>12. CASE \E c \in Clients : SendBegin(c) BY <1>12 DEF SendBegin, TrySend
<1>13. CASE \E c \in Clients : SendGivesUp(c) BY <1>13 DEF SendGivesUp
<1>14. CASE \E c \in Clients : RxReady(c) BY <1>14 DEF RxReady, Take, Current
<1>15. CASE \E c \in Clients : RxWait(c) BY <1>15 DEF RxWait, Current
<1>16. CASE \E c \in Clients : RxWakes(c) BY <1>16 DEF RxWakes
<1>17. CASE \E c \in Clients : RxExpires(c) BY <1>17 DEF RxExpires
<1>18. CASE \E c \in Clients : RxTimeout(c) BY <1>18 DEF RxTimeout
<1>19. CASE \E c \in Clients : RxTakes(c) BY <1>19 DEF RxTakes, Take
<1>20. CASE \E c \in Clients : GetOut(c) BY <1>20 DEF GetOut
<1>21. CASE Probe BY <1>21 DEF Probe
<1>22. CASE Remove BY <1>22 DEF Remove
<1>23. CASE \E m \in pending : Answer(m) BY <1>23 DEF Answer
<1>24. CASE WorkBegin BY <1>24 DEF WorkBegin
<1>25. CASE SignalRxDone BY <1>25 DEF SignalRxDone, RxAborted
<1>26. CASE WorkEnd BY <1>26 DEF WorkEnd
<1>27. CASE UNCHANGED vars BY <1>27 DEF vars
<1>28. CASE \E c \in Clients : SendFails(c) BY <1>28 DEF SendFails
<1> QED BY <1>1, <1>2, <1>3, <1>4, <1>5, <1>6, <1>7, <1>8, <1>9, <1>10, <1>11, <1>12, <1>13, <1>14, <1>15, <1>16, <1>17, <1>18, <1>19, <1>20, <1>21, <1>22, <1>23, <1>24, <1>25, <1>26, <1>27, <1>28 DEF Next, InCall, Work

\* Numbers of requests stay above those that a restart leaves.
LEMMA NumberedPreserved == ASSUME TypeOK, Asking, DeviceBehindSend, Numbered, [Next]_vars PROVE Numbered'
<1> USE SpcomAssumption DEF TypeOK, DeviceBehindSend, Asking, InTransaction, Numbered, Buffered, Message, Locations, Outside, Sending, Getting, Go, sync, link, rx, packets, history
<1>1. CASE \E c \in Clients : OpenControl(c) BY <1>1 DEF OpenControl
<1>2. CASE \E c \in Clients : RegisterDriver(c) BY <1>2 DEF RegisterDriver
<1>3. CASE \E c \in Clients : DriverRegistered(c) BY <1>3 DEF DriverRegistered
<1>4. CASE \E c \in Clients : Register(c) BY <1>4 DEF Register
<1>5. CASE \E c \in Clients : Unregister(c) BY <1>5 DEF Unregister, Deinit
<1>6. CASE \E c \in Clients : CloseControl(c) BY <1>6, SMTT(30) DEF CloseControl, Deinit
<1>7. CASE \E c \in Clients : Send(c) BY <1>7, ZenonT(40) DEF Send
<1>8. CASE \E c \in Clients : SendAgain(c) BY <1>8 DEF SendAgain, TrySend
<1>9. CASE \E c \in Clients : Get(c) BY <1>9 DEF Get
<1>10. CASE \E c \in Clients : RxInterrupted(c) BY <1>10 DEF RxInterrupted
<1>11. CASE \E c \in Clients : TakeSync(c) BY <1>11 DEF TakeSync
<1>12. CASE \E c \in Clients : SendBegin(c) BY <1>12 DEF SendBegin, TrySend
<1>13. CASE \E c \in Clients : SendGivesUp(c) BY <1>13 DEF SendGivesUp
<1>14. CASE \E c \in Clients : RxReady(c) BY <1>14 DEF RxReady, Take, Current
<1>15. CASE \E c \in Clients : RxWait(c) BY <1>15 DEF RxWait, Current
<1>16. CASE \E c \in Clients : RxWakes(c) BY <1>16 DEF RxWakes
<1>17. CASE \E c \in Clients : RxExpires(c) BY <1>17 DEF RxExpires
<1>18. CASE \E c \in Clients : RxTimeout(c) BY <1>18 DEF RxTimeout
<1>19. CASE \E c \in Clients : RxTakes(c) BY <1>19 DEF RxTakes, Take
<1>20. CASE \E c \in Clients : GetOut(c) BY <1>20 DEF GetOut
<1>21. CASE Probe BY <1>21 DEF Probe
<1>22. CASE Remove BY <1>22 DEF Remove
<1>23. CASE \E m \in pending : Answer(m) BY <1>23 DEF Answer
<1>24. CASE WorkBegin BY <1>24 DEF WorkBegin
<1>25. CASE SignalRxDone BY <1>25 DEF SignalRxDone, RxAborted
<1>26. CASE WorkEnd BY <1>26 DEF WorkEnd
<1>27. CASE UNCHANGED vars BY <1>27 DEF vars
<1>28. CASE \E c \in Clients : SendFails(c) BY <1>28 DEF SendFails
<1> QED BY <1>1, <1>2, <1>3, <1>4, <1>5, <1>6, <1>7, <1>8, <1>9, <1>10, <1>11, <1>12, <1>13, <1>14, <1>15, <1>16, <1>17, <1>18, <1>19, <1>20, <1>21, <1>22, <1>23, <1>24, <1>25, <1>26, <1>27, <1>28 DEF Next, InCall, Work

\* Nobody but its owner counts on during a transaction.
LEMMA AskingPreserved == ASSUME TypeOK, SyncHasOwner, Asking, [Next]_vars PROVE Asking'
<1> USE SpcomAssumption DEF TypeOK, SyncHasOwner, Holding, Asking, InTransaction, Message, Locations, Outside, Sending, Getting, Go, sync, link, rx, packets, history
<1>1. CASE \E c \in Clients : OpenControl(c) BY <1>1 DEF OpenControl
<1>2. CASE \E c \in Clients : RegisterDriver(c) BY <1>2 DEF RegisterDriver
<1>3. CASE \E c \in Clients : DriverRegistered(c) BY <1>3 DEF DriverRegistered
<1>4. CASE \E c \in Clients : Register(c) BY <1>4 DEF Register
<1>5. CASE \E c \in Clients : Unregister(c) BY <1>5 DEF Unregister, Deinit
<1>6. CASE \E c \in Clients : CloseControl(c) BY <1>6 DEF CloseControl, Deinit
<1>7. CASE \E c \in Clients : Send(c) BY <1>7 DEF Send
<1>8. CASE \E c \in Clients : SendAgain(c) BY <1>8 DEF SendAgain, TrySend
<1>9. CASE \E c \in Clients : Get(c) BY <1>9 DEF Get
<1>10. CASE \E c \in Clients : RxInterrupted(c) BY <1>10 DEF RxInterrupted
<1>11. CASE \E c \in Clients : TakeSync(c) BY <1>11 DEF TakeSync
<1>12. CASE \E c \in Clients : SendBegin(c) BY <1>12 DEF SendBegin, TrySend
<1>13. CASE \E c \in Clients : SendGivesUp(c) BY <1>13 DEF SendGivesUp
<1>14. CASE \E c \in Clients : RxReady(c) BY <1>14 DEF RxReady, Take, Current
<1>15. CASE \E c \in Clients : RxWait(c) BY <1>15 DEF RxWait, Current
<1>16. CASE \E c \in Clients : RxWakes(c) BY <1>16 DEF RxWakes
<1>17. CASE \E c \in Clients : RxExpires(c) BY <1>17 DEF RxExpires
<1>18. CASE \E c \in Clients : RxTimeout(c) BY <1>18 DEF RxTimeout
<1>19. CASE \E c \in Clients : RxTakes(c) BY <1>19 DEF RxTakes, Take
<1>20. CASE \E c \in Clients : GetOut(c) BY <1>20 DEF GetOut
<1>21. CASE Probe BY <1>21 DEF Probe
<1>22. CASE Remove BY <1>22 DEF Remove
<1>23. CASE \E m \in pending : Answer(m) BY <1>23 DEF Answer
<1>24. CASE WorkBegin BY <1>24 DEF WorkBegin
<1>25. CASE SignalRxDone BY <1>25 DEF SignalRxDone, RxAborted
<1>26. CASE WorkEnd BY <1>26 DEF WorkEnd
<1>27. CASE UNCHANGED vars BY <1>27 DEF vars
<1>28. CASE \E c \in Clients : SendFails(c) BY <1>28 DEF SendFails
<1> QED BY <1>1, <1>2, <1>3, <1>4, <1>5, <1>6, <1>7, <1>8, <1>9, <1>10, <1>11, <1>12, <1>13, <1>14, <1>15, <1>16, <1>17, <1>18, <1>19, <1>20, <1>21, <1>22, <1>23, <1>24, <1>25, <1>26, <1>27, <1>28 DEF Next, InCall, Work

\* What a wait finds is the answer to the request.
LEMMA WaitingPreserved == ASSUME TypeOK, SyncHasOwner, Numbered, Asking, Waiting, AnswersTransaction, [Next]_vars PROVE (Waiting /\ AnswersTransaction)'
<1> USE SpcomAssumption DEF TypeOK, SyncHasOwner, Holding, Numbered, Asking, InTransaction, Waiting, AnswersTransaction, Buffered, Message, Locations, Outside, Sending, Getting, Go, sync, link, rx, packets, history
<1>1. CASE \E c \in Clients : OpenControl(c) BY <1>1 DEF OpenControl
<1>2. CASE \E c \in Clients : RegisterDriver(c) BY <1>2 DEF RegisterDriver
<1>3. CASE \E c \in Clients : DriverRegistered(c) BY <1>3 DEF DriverRegistered
<1>4. CASE \E c \in Clients : Register(c) BY <1>4 DEF Register
<1>5. CASE \E c \in Clients : Unregister(c) BY <1>5 DEF Unregister, Deinit
<1>6. CASE \E c \in Clients : CloseControl(c) BY <1>6 DEF CloseControl, Deinit
<1>7. CASE \E c \in Clients : Send(c) BY <1>7 DEF Send
<1>8. CASE \E c \in Clients : SendAgain(c) BY <1>8 DEF SendAgain, TrySend
<1>9. CASE \E c \in Clients : Get(c) BY <1>9 DEF Get
<1>10. CASE \E c \in Clients : RxInterrupted(c) BY <1>10 DEF RxInterrupted
<1>11. CASE \E c \in Clients : TakeSync(c) BY <1>11 DEF TakeSync
<1>12. CASE \E c \in Clients : SendBegin(c) BY <1>12 DEF SendBegin, TrySend
<1>13. CASE \E c \in Clients : SendGivesUp(c) BY <1>13 DEF SendGivesUp
<1>14. CASE \E c \in Clients : RxReady(c) BY <1>14 DEF RxReady, Take, Current
<1>15. CASE \E c \in Clients : RxWait(c) BY <1>15 DEF RxWait, Current
<1>16. CASE \E c \in Clients : RxWakes(c) BY <1>16 DEF RxWakes
<1>17. CASE \E c \in Clients : RxExpires(c) BY <1>17 DEF RxExpires
<1>18. CASE \E c \in Clients : RxTimeout(c) BY <1>18 DEF RxTimeout
<1>19. CASE \E c \in Clients : RxTakes(c) BY <1>19 DEF RxTakes, Take
<1>20. CASE \E c \in Clients : GetOut(c) BY <1>20 DEF GetOut
<1>21. CASE Probe BY <1>21 DEF Probe
<1>22. CASE Remove BY <1>22 DEF Remove
<1>23. CASE \E m \in pending : Answer(m) BY <1>23 DEF Answer
<1>24. CASE WorkBegin BY <1>24 DEF WorkBegin
<1>25. CASE SignalRxDone BY <1>25, SMTT(30) DEF SignalRxDone, RxAborted
<1>26. CASE WorkEnd BY <1>26 DEF WorkEnd
<1>27. CASE UNCHANGED vars BY <1>27 DEF vars
<1>28. CASE \E c \in Clients : SendFails(c) BY <1>28 DEF SendFails
<1> QED BY <1>1, <1>2, <1>3, <1>4, <1>5, <1>6, <1>7, <1>8, <1>9, <1>10, <1>11, <1>12, <1>13, <1>14, <1>15, <1>16, <1>17, <1>18, <1>19, <1>20, <1>21, <1>22, <1>23, <1>24, <1>25, <1>26, <1>27, <1>28 DEF Next, InCall, Work

\* The invariant of the channel: types, the owner of the lock, registrations, the
\* device, and what transaction numbers say of requests and answers.
THEOREM IInvHolds == Spec => []IInv
<1>1. Init => IInv
  <2> SUFFICES ASSUME Init PROVE IInv OBVIOUS
  <2> USE SpcomAssumption DEF Init, Outside
  <2>1. TypeOK
    <3>1. registered = {c \in Clients : pc[c] \notin Outside} /\ pc \in [Clients -> Locations] BY DEF Locations
    <3>2. rx_list \in Seq(Message) /\ txn_id \in Nat /\ rx_buf_txn_id \in Nat OBVIOUS
    <3>3. session \in 0..MaxSessions OBVIOUS
    <3>4. rpdrv \in BOOLEAN /\ rpdev \in BOOLEAN /\ rpmsg_abort \in BOOLEAN /\ rx_done \in BOOLEAN OBVIOUS
    <3> QED BY <3>1, <3>2, <3>3, <3>4 DEF TypeOK
  <2>2. SyncHasOwner BY DEF SyncHasOwner, Holding, Sending, Getting
  <2>3. Matched /\ DeviceBehindSend BY DEF Matched, DeviceBehindSend
  <2>4. Numbered BY DEF Numbered, Buffered
  <2>5. Asking /\ Waiting /\ AnswersTransaction BY DEF Asking, InTransaction, Waiting, AnswersTransaction, Buffered
  <2> QED BY <2>1, <2>2, <2>3, <2>4, <2>5 DEF IInv
<1>2. IInv /\ [Next]_vars => IInv'
  BY TypePreserved, MatchedPreserved, OwnerPreserved, DevicePreserved, NumberedPreserved,
     AskingPreserved, WaitingPreserved DEF IInv
<1> QED BY <1>1, <1>2, PTL DEF Spec

\* The channel's state has its types, whoever comes, goes and fails: a process is a
\* client exactly from its registration to its release.
THEOREM TypeCorrect == Spec => []TypeOK
BY IInvHolds, PTL DEF IInv

\* shared_sync_lock is never left locked by nobody, nor unlocked under its owner.
THEOREM SyncAlwaysOwned == Spec => []SyncHasOwner
BY IInvHolds, PTL DEF IInv

\* The connected check without a lock is made good by rpmsg_abort: no process sends
\* to a device that was removed.
THEOREM SendsToDevice == Spec => []DeviceBehindSend
BY IInvHolds, PTL DEF IInv

\* Across timeouts, deaths and restarts a process is given only an answer with the
\* transaction number of its request.
THEOREM AnswersMatch == Spec => []AnswersTransaction
BY IInvHolds, PTL DEF IInv

\* A process has asked exactly from the sending of its request to the return of
\* GET_MSG, or until it leaves the channel.
Exchange == \A c \in Clients : asked[c] # None <=> pc[c] \in InTransaction \cup {"out"}

\* Every step keeps what it says about a process.
LEMMA ExchangePreserved == ASSUME TypeOK, Exchange, [Next]_vars PROVE Exchange'
<1> USE SpcomAssumption DEF TypeOK, Exchange, InTransaction, Locations, Outside, Sending, Getting, Go, sync, link, rx, packets, history
<1>1. CASE \E c \in Clients : OpenControl(c) BY <1>1 DEF OpenControl
<1>2. CASE \E c \in Clients : RegisterDriver(c) BY <1>2 DEF RegisterDriver
<1>3. CASE \E c \in Clients : DriverRegistered(c) BY <1>3 DEF DriverRegistered
<1>4. CASE \E c \in Clients : Register(c) BY <1>4 DEF Register
<1>5. CASE \E c \in Clients : Unregister(c) BY <1>5 DEF Unregister, Deinit
<1>6. CASE \E c \in Clients : CloseControl(c) BY <1>6 DEF CloseControl, Deinit
<1>7. CASE \E c \in Clients : Send(c) BY <1>7 DEF Send
<1>8. CASE \E c \in Clients : SendAgain(c) BY <1>8 DEF SendAgain, TrySend
<1>9. CASE \E c \in Clients : Get(c) BY <1>9 DEF Get
<1>10. CASE \E c \in Clients : RxInterrupted(c) BY <1>10 DEF RxInterrupted
<1>11. CASE \E c \in Clients : TakeSync(c) BY <1>11 DEF TakeSync
<1>12. CASE \E c \in Clients : SendBegin(c)
  <2> PICK c \in Clients : SendBegin(c) BY <1>12
  <2>1. [txn |-> txn_id + 1, session |-> session] \in Message BY DEF Message
  <2>2. asked'[c] # None /\ pc'[c] \in InTransaction BY <2>1 DEF SendBegin, TrySend
  <2>3. ASSUME NEW d \in Clients, d # c PROVE asked'[d] = asked[d] /\ pc'[d] = pc[d] BY <2>3 DEF SendBegin, TrySend
  <2> QED BY <2>2, <2>3
<1>13. CASE \E c \in Clients : SendGivesUp(c) BY <1>13 DEF SendGivesUp
<1>14. CASE \E c \in Clients : RxReady(c) BY <1>14 DEF RxReady, Take, Current
<1>15. CASE \E c \in Clients : RxWait(c) BY <1>15 DEF RxWait, Current
<1>16. CASE \E c \in Clients : RxWakes(c) BY <1>16 DEF RxWakes
<1>17. CASE \E c \in Clients : RxExpires(c) BY <1>17 DEF RxExpires
<1>18. CASE \E c \in Clients : RxTimeout(c) BY <1>18 DEF RxTimeout
<1>19. CASE \E c \in Clients : RxTakes(c) BY <1>19 DEF RxTakes, Take
<1>20. CASE \E c \in Clients : GetOut(c) BY <1>20 DEF GetOut
<1>21. CASE Probe BY <1>21 DEF Probe
<1>22. CASE Remove BY <1>22 DEF Remove
<1>23. CASE \E m \in pending : Answer(m) BY <1>23 DEF Answer
<1>24. CASE WorkBegin BY <1>24 DEF WorkBegin
<1>25. CASE SignalRxDone BY <1>25 DEF SignalRxDone, RxAborted
<1>26. CASE WorkEnd BY <1>26 DEF WorkEnd
<1>27. CASE UNCHANGED vars BY <1>27 DEF vars
<1>28. CASE \E c \in Clients : SendFails(c) BY <1>28 DEF SendFails
<1> QED BY <1>1, <1>2, <1>3, <1>4, <1>5, <1>6, <1>7, <1>8, <1>9, <1>10, <1>11, <1>12, <1>13, <1>14, <1>15, <1>16, <1>17, <1>18, <1>19, <1>20, <1>21, <1>22, <1>23, <1>24, <1>25, <1>26, <1>27, <1>28 DEF Next, InCall, Work

\* The invariant behind the turns: that of the channel, and when a process has asked.
LEMMA ExchangeHolds == Spec => [](IInv /\ Exchange)
<1>1. Init => Exchange BY DEF Init, Exchange, InTransaction
<1>2. IInv /\ Exchange /\ [Next]_vars => Exchange' BY ExchangePreserved DEF IInv
<1> QED BY <1>1, <1>2, IInvHolds, PTL DEF Spec

\* Which step of the channel is which of a turn: the lock is taken, a request is
\* sent, an answer is found in the buffer, the lock is unlocked.
LEMMA AskRefines == ASSUME IInv, Exchange, NEW c \in Clients, SendBegin(c) PROVE Promise!Ask(c)
<1> DEFINE m == [txn |-> txn_id + 1, session |-> session]
<1> USE SpcomAssumption DEF IInv, TypeOK
<1>1. pc[c] = "begin" BY DEF SendBegin, TrySend, Go
<1>2. shared_sync_lock = c BY <1>1 DEF SyncHasOwner, Holding, Sending
<1>3. asked[c] = None BY <1>1 DEF Exchange, InTransaction
<1>4. got[c] = None BY <1>1 DEF Waiting
<1>5. m \in Message /\ m # None BY DEF Message
<1>6. asked' = [asked EXCEPT ![c] = m] /\ asked'[c] = m BY DEF SendBegin
<1>7. UNCHANGED <<shared_sync_lock, got>> BY DEF SendBegin, history
<1> QED BY <1>2, <1>3, <1>4, <1>5, <1>6, <1>7 DEF Promise!Ask

\* A process that takes the buffer is given the answer to what it asked.
LEMMA GiveRefines ==
  ASSUME IInv, IInv', Exchange, NEW c \in Clients, pc[c] \in {"get", "woken"}, Buffered, Take(c),
         UNCHANGED <<shared_sync_lock, asked>>
  PROVE  Promise!Give(c)
<1> USE SpcomAssumption DEF IInv, TypeOK
<1>1. shared_sync_lock = c BY DEF SyncHasOwner, Holding, Getting
<1>2. asked[c] # None BY DEF Exchange, InTransaction
<1>3. got[c] = None BY DEF Waiting
<1>4. got' = [got EXCEPT ![c] = rpmsg_rx_buf] /\ got'[c] = rpmsg_rx_buf BY DEF Take
<1>5. got'[c] # None BY <1>4 DEF Buffered
<1>6. got'[c].txn = asked[c].txn BY <1>5 DEF AnswersTransaction
<1> QED BY <1>1, <1>2, <1>3, <1>4, <1>5, <1>6 DEF Promise!Give

\* A process that is registered holds the lock in a transaction only, and then it
\* is the one to unlock it.
LEMMA DeinitRefines ==
  ASSUME IInv, Exchange, NEW c \in Clients, pc[c] \in {"idle", "sent"}, Deinit(c)
  PROVE  Promise!Leave(c) \/ UNCHANGED Promise!vars
<1> USE SpcomAssumption DEF IInv, TypeOK
<1>1. got[c] = None /\ got' = got BY DEF Waiting, Deinit
<1>2. got' = [got EXCEPT ![c] = None] BY <1>1
<1>3. asked' = [asked EXCEPT ![c] = None] BY DEF Deinit
<1>4. CASE pc[c] = "idle"
  <2>1. asked[c] = None BY <1>4 DEF Exchange, InTransaction
  <2>2. asked' = asked BY <2>1, <1>3
  <2>3. shared_sync_lock # c BY <1>4 DEF SyncHasOwner, Holding, Sending, Getting
  <2>4. active_pid # c BY <2>3 DEF SyncHasOwner
  <2>5. shared_sync_lock' = shared_sync_lock BY <2>4 DEF Deinit, sync
  <2> QED BY <2>2, <2>5, <1>1 DEF Promise!vars
<1>5. CASE pc[c] = "sent"
  <2>1. shared_sync_lock = c /\ active_pid = c BY <1>5 DEF SyncHasOwner, Holding, Sending, Getting
  <2>2. shared_sync_lock' = None BY <2>1 DEF Deinit
  <2> QED BY <2>1, <2>2, <1>2, <1>3 DEF Promise!Leave
<1> QED BY <1>4, <1>5

\* A step of the channel is a step of the promise or none.
LEMMA StepRefines == ASSUME IInv, IInv', Exchange, [Next]_vars PROVE [Promise!Next]_Promise!vars
<1> USE SpcomAssumption DEF Promise!vars, Go, sync, link, rx, packets, history
<1>1. CASE \E c \in Clients : OpenControl(c) BY <1>1 DEF OpenControl
<1>2. CASE \E c \in Clients : RegisterDriver(c) BY <1>2 DEF RegisterDriver
<1>3. CASE \E c \in Clients : DriverRegistered(c) BY <1>3 DEF DriverRegistered
<1>4. CASE \E c \in Clients : Register(c) BY <1>4 DEF Register
<1>5. CASE \E c \in Clients : Unregister(c)
  <2> PICK c \in Clients : Unregister(c) BY <1>5
  <2>1. pc[c] \in {"idle", "sent"} /\ Deinit(c) BY DEF Unregister
  <2> QED BY <2>1, DeinitRefines DEF Promise!Next
<1>6. CASE \E c \in Clients : CloseControl(c)
  <2> PICK c \in Clients : CloseControl(c) BY <1>6
  <2>1. CASE c \in registered
    <3>1. pc[c] \in {"idle", "sent"} BY <2>1 DEF CloseControl, IInv, TypeOK, Outside
    <3> QED BY <2>1, <3>1, DeinitRefines DEF CloseControl, Promise!Next
  <2>2. CASE c \notin registered BY <2>2 DEF CloseControl
  <2> QED BY <2>1, <2>2
<1>7. CASE \E c \in Clients : Send(c) BY <1>7 DEF Send
<1>8. CASE \E c \in Clients : SendAgain(c) BY <1>8 DEF SendAgain, TrySend
<1>9. CASE \E c \in Clients : Get(c) BY <1>9 DEF Get
<1>10. CASE \E c \in Clients : RxInterrupted(c) BY <1>10 DEF RxInterrupted
<1>11. CASE \E c \in Clients : TakeSync(c)
  <2> PICK c \in Clients : TakeSync(c) BY <1>11
  <2>1. Promise!Take(c) BY DEF TakeSync, Promise!Take
  <2> QED BY <2>1 DEF Promise!Next
<1>12. CASE \E c \in Clients : SendBegin(c) BY <1>12, AskRefines DEF Promise!Next
<1>13. CASE \E c \in Clients : SendGivesUp(c) BY <1>13 DEF SendGivesUp
<1>14. CASE \E c \in Clients : RxReady(c)
  <2> PICK c \in Clients : RxReady(c) BY <1>14
  <2>1. pc[c] \in {"get", "woken"} /\ Buffered /\ Take(c) /\ UNCHANGED <<shared_sync_lock, asked>> BY DEF RxReady
  <2> QED BY <2>1, GiveRefines DEF Promise!Next
<1>15. CASE \E c \in Clients : RxWait(c) BY <1>15 DEF RxWait, Current
<1>16. CASE \E c \in Clients : RxWakes(c) BY <1>16 DEF RxWakes
<1>17. CASE \E c \in Clients : RxExpires(c) BY <1>17 DEF RxExpires
<1>18. CASE \E c \in Clients : RxTimeout(c) BY <1>18 DEF RxTimeout
<1>19. CASE \E c \in Clients : RxTakes(c)
  <2> PICK c \in Clients : RxTakes(c) BY <1>19
  <2>1. pc[c] \in {"get", "woken"} /\ UNCHANGED <<shared_sync_lock, asked>> BY DEF RxTakes
  <2>2. CASE ~rpmsg_abort /\ Buffered BY <2>1, <2>2, GiveRefines DEF RxTakes, Promise!Next
  <2>3. CASE ~(~rpmsg_abort /\ Buffered) BY <2>3 DEF RxTakes
  <2> QED BY <2>2, <2>3
<1>20. CASE \E c \in Clients : GetOut(c)
  <2> PICK c \in Clients : GetOut(c) BY <1>20
  <2>1. shared_sync_lock = c /\ active_pid = c BY DEF GetOut, IInv, SyncHasOwner, Holding, Getting
  <2>2. Promise!Leave(c) BY <2>1 DEF GetOut, Promise!Leave
  <2> QED BY <2>2 DEF Promise!Next
<1>21. CASE Probe BY <1>21 DEF Probe
<1>22. CASE Remove BY <1>22 DEF Remove
<1>23. CASE \E m \in pending : Answer(m) BY <1>23 DEF Answer
<1>24. CASE WorkBegin BY <1>24 DEF WorkBegin
<1>25. CASE SignalRxDone BY <1>25 DEF SignalRxDone, RxAborted
<1>26. CASE WorkEnd BY <1>26 DEF WorkEnd
<1>27. CASE UNCHANGED vars BY <1>27 DEF vars
<1>28. CASE \E c \in Clients : SendFails(c)
  <2> PICK c \in Clients : SendFails(c) BY <1>28
  <2> USE DEF IInv, TypeOK
  <2>1. pc[c] = "begin" BY DEF SendFails
  <2>2. shared_sync_lock = c BY <2>1 DEF SyncHasOwner, Holding, Sending
  <2>3. asked[c] = None /\ got[c] = None BY <2>1 DEF Exchange, InTransaction, Waiting
  <2>4. asked' = [asked EXCEPT ![c] = None] /\ got' = [got EXCEPT ![c] = None] BY <2>3 DEF SendFails
  <2>5. Promise!Leave(c) BY <2>2, <2>4 DEF SendFails, Promise!Leave
  <2> QED BY <2>5 DEF Promise!Next
<1> QED BY <1>1, <1>2, <1>3, <1>4, <1>5, <1>6, <1>7, <1>8, <1>9, <1>10, <1>11, <1>12, <1>13, <1>14, <1>15, <1>16, <1>17, <1>18, <1>19, <1>20, <1>21, <1>22, <1>23, <1>24, <1>25, <1>26, <1>27, <1>28 DEF Next, InCall, Work

\* The channel gives turns: whoever fails, ends, times out or restarts, a process
\* asks once in its turn, is given at most one answer, one with the number of its
\* request, and leaves nothing of its exchange to the next.
THEOREM TurnsImplemented == Spec => TurnsSpec
<1>1. Init => Promise!Init BY DEF Init, Promise!Init
<1>2. IInv /\ IInv' /\ Exchange /\ [Next]_vars => [Promise!Next]_Promise!vars BY StepRefines
<1> QED BY <1>1, <1>2, ExchangeHolds, PTL DEF Spec, TurnsSpec, Promise!Spec

-----------------------------------------------------------------------------
\* A waiting process is not left asleep with a packet in the buffer.
NotSleptOver == \A c \in Clients : pc[c] = "wait" /\ Buffered => rx_done

\* Only the process in its turn resets the completion, and it looks at the buffer under the same lock.
LEMMA AwokenPreserved == ASSUME TypeOK, SyncHasOwner, NotSleptOver, [Next]_vars PROVE NotSleptOver'
<1> USE SpcomAssumption DEF TypeOK, SyncHasOwner, NotSleptOver, Holding, Buffered, Locations, Outside, Sending, Getting, Go, sync, link, rx, packets, history
<1>1. CASE \E c \in Clients : OpenControl(c) BY <1>1 DEF OpenControl
<1>2. CASE \E c \in Clients : RegisterDriver(c) BY <1>2 DEF RegisterDriver
<1>3. CASE \E c \in Clients : DriverRegistered(c) BY <1>3 DEF DriverRegistered
<1>4. CASE \E c \in Clients : Register(c) BY <1>4 DEF Register
<1>5. CASE \E c \in Clients : Unregister(c) BY <1>5 DEF Unregister, Deinit
<1>6. CASE \E c \in Clients : CloseControl(c) BY <1>6 DEF CloseControl, Deinit
<1>7. CASE \E c \in Clients : Send(c) BY <1>7 DEF Send
<1>8. CASE \E c \in Clients : SendAgain(c) BY <1>8 DEF SendAgain, TrySend
<1>9. CASE \E c \in Clients : Get(c) BY <1>9 DEF Get
<1>10. CASE \E c \in Clients : RxInterrupted(c) BY <1>10 DEF RxInterrupted
<1>11. CASE \E c \in Clients : TakeSync(c) BY <1>11 DEF TakeSync
<1>12. CASE \E c \in Clients : SendBegin(c) BY <1>12 DEF SendBegin, TrySend
<1>13. CASE \E c \in Clients : SendGivesUp(c) BY <1>13 DEF SendGivesUp
<1>14. CASE \E c \in Clients : RxReady(c) BY <1>14 DEF RxReady, Take, Current
<1>15. CASE \E c \in Clients : RxWait(c) BY <1>15 DEF RxWait, Current
<1>16. CASE \E c \in Clients : RxWakes(c) BY <1>16 DEF RxWakes
<1>17. CASE \E c \in Clients : RxExpires(c) BY <1>17 DEF RxExpires
<1>18. CASE \E c \in Clients : RxTimeout(c) BY <1>18 DEF RxTimeout
<1>19. CASE \E c \in Clients : RxTakes(c) BY <1>19 DEF RxTakes, Take
<1>20. CASE \E c \in Clients : GetOut(c) BY <1>20 DEF GetOut
<1>21. CASE Probe BY <1>21 DEF Probe
<1>22. CASE Remove BY <1>22 DEF Remove
<1>23. CASE \E m \in pending : Answer(m) BY <1>23 DEF Answer
<1>24. CASE WorkBegin BY <1>24 DEF WorkBegin
<1>25. CASE SignalRxDone BY <1>25 DEF SignalRxDone, RxAborted
<1>26. CASE WorkEnd BY <1>26 DEF WorkEnd
<1>27. CASE UNCHANGED vars BY <1>27 DEF vars
<1>28. CASE \E c \in Clients : SendFails(c) BY <1>28 DEF SendFails
<1> QED BY <1>1, <1>2, <1>3, <1>4, <1>5, <1>6, <1>7, <1>8, <1>9, <1>10, <1>11, <1>12, <1>13, <1>14, <1>15, <1>16, <1>17, <1>18, <1>19, <1>20, <1>21, <1>22, <1>23, <1>24, <1>25, <1>26, <1>27, <1>28 DEF Next, InCall, Work

\* No wake-up is lost: a process that sleeps in spcom_rx while a packet lies in the channel's buffer
\* has been woken, however its going to sleep, the work that brings packets, the removal of the device
\* and the ends of other processes interleave. That turns end without running into the timeout
\* rests on it.
THEOREM AnswerWakes == Spec => []NotSleptOver
<1>1. Init => NotSleptOver BY DEF Init, NotSleptOver
<1>2. IInv /\ NotSleptOver /\ [Next]_vars => NotSleptOver' BY AwokenPreserved DEF IInv
<1> QED BY <1>1, <1>2, IInvHolds, PTL DEF Spec

\* The processes of a channel have a place in its table.
ClientsFit ==
  IsFiniteSet(registered) /\ Cardinality(registered) <= SPCOM_MAX_CHANNEL_CLIENTS

\* A process that leaves gives its place back.
LEMMA Leaves ==
  ASSUME ClientsFit, NEW c, registered' = registered \ {c} PROVE ClientsFit'
<1>1. IsFiniteSet(registered') /\ Cardinality(registered') <= Cardinality(registered)
  BY FS_Subset DEF ClientsFit
<1>2. Cardinality(registered) \in Nat /\ Cardinality(registered') \in Nat
  BY <1>1, FS_CardinalityType DEF ClientsFit
<1> QED BY <1>1, <1>2, SpcomAssumption DEF ClientsFit

\* Every step leaves no more processes than there are places.
LEMMA ClientsPreserved == ASSUME TypeOK, Matched, ClientsFit, [Next]_vars PROVE ClientsFit'
<1> USE SpcomAssumption DEF ClientsFit, Locations, Outside, Sending, Getting, Go, sync, link, rx, packets, history
<1>1. CASE \E c \in Clients : OpenControl(c) BY <1>1 DEF OpenControl
<1>2. CASE \E c \in Clients : RegisterDriver(c) BY <1>2 DEF RegisterDriver
<1>3. CASE \E c \in Clients : DriverRegistered(c)
  <2>1. PICK c \in Clients : DriverRegistered(c) BY <1>3
  <2>2. registered = {} BY <2>1 DEF DriverRegistered, TypeOK, Matched
  <2>3. registered' = {c} BY <2>1, <2>2 DEF DriverRegistered
  <2>4. IsFiniteSet({c}) /\ Cardinality({c}) = 1 BY FS_Singleton, Zenon
  <2> QED BY <2>3, <2>4
<1>4. CASE \E c \in Clients : Register(c)
  <2>1. PICK c \in Clients : ~is_busy /\ registered' = registered \cup {c} BY <1>4 DEF Register
  <2>2. Cardinality(registered) \in Nat BY FS_CardinalityType
  <2>3. Cardinality(registered) < SPCOM_MAX_CHANNEL_CLIENTS BY <2>1, <2>2 DEF is_busy
  <2>4. IsFiniteSet(registered') /\ Cardinality(registered') <= Cardinality(registered) + 1
    BY <2>1, <2>2, FS_AddElement
  <2>5. Cardinality(registered') \in Nat BY <2>4, FS_CardinalityType
  <2> QED BY <2>2, <2>3, <2>4, <2>5
<1>5. CASE \E c \in Clients : Unregister(c) BY <1>5, Leaves DEF Unregister, Deinit
<1>6. CASE \E c \in Clients : CloseControl(c) BY <1>6, Leaves DEF CloseControl, Deinit
<1>7. CASE \E c \in Clients : Send(c) BY <1>7 DEF Send
<1>8. CASE \E c \in Clients : SendAgain(c) BY <1>8 DEF SendAgain, TrySend
<1>9. CASE \E c \in Clients : Get(c) BY <1>9 DEF Get
<1>10. CASE \E c \in Clients : RxInterrupted(c) BY <1>10 DEF RxInterrupted
<1>11. CASE \E c \in Clients : TakeSync(c) BY <1>11 DEF TakeSync
<1>12. CASE \E c \in Clients : SendBegin(c) BY <1>12 DEF SendBegin, TrySend
<1>13. CASE \E c \in Clients : SendGivesUp(c) BY <1>13 DEF SendGivesUp
<1>14. CASE \E c \in Clients : RxReady(c) BY <1>14 DEF RxReady, Take, Current
<1>15. CASE \E c \in Clients : RxWait(c) BY <1>15 DEF RxWait, Current
<1>16. CASE \E c \in Clients : RxWakes(c) BY <1>16 DEF RxWakes
<1>17. CASE \E c \in Clients : RxExpires(c) BY <1>17 DEF RxExpires
<1>18. CASE \E c \in Clients : RxTimeout(c) BY <1>18 DEF RxTimeout
<1>19. CASE \E c \in Clients : RxTakes(c) BY <1>19 DEF RxTakes, Take
<1>20. CASE \E c \in Clients : GetOut(c) BY <1>20 DEF GetOut
<1>21. CASE Probe BY <1>21 DEF Probe
<1>22. CASE Remove BY <1>22 DEF Remove
<1>23. CASE \E m \in pending : Answer(m) BY <1>23 DEF Answer
<1>24. CASE WorkBegin BY <1>24 DEF WorkBegin
<1>25. CASE SignalRxDone BY <1>25 DEF SignalRxDone, RxAborted
<1>26. CASE WorkEnd BY <1>26 DEF WorkEnd
<1>27. CASE UNCHANGED vars BY <1>27 DEF vars
<1>28. CASE \E c \in Clients : SendFails(c) BY <1>28 DEF SendFails
<1> QED BY <1>1, <1>2, <1>3, <1>4, <1>5, <1>6, <1>7, <1>8, <1>9, <1>10, <1>11, <1>12, <1>13, <1>14, <1>15, <1>16, <1>17, <1>18, <1>19, <1>20, <1>21, <1>22, <1>23, <1>24, <1>25, <1>26, <1>27, <1>28 DEF Next, InCall, Work

\* The table pid[] never overflows: is_busy is set where the count equals the maximum, not
\* where it passes it, but one process comes at a time, the one that registers the driver finds
\* the table empty, and every way to leave gives back one place
\* (spcom_register_channel, spcom_channel_deinit_locked).
THEOREM TableNeverOverflows == Spec => []ClientsFit
<1>1. Init => ClientsFit BY SpcomAssumption, FS_EmptySet DEF Init, ClientsFit
<1>2. IInv /\ ClientsFit /\ [Next]_vars => ClientsFit' BY ClientsPreserved DEF IInv
<1> QED BY <1>1, <1>2, IInvHolds, PTL DEF Spec
=============================================================================
