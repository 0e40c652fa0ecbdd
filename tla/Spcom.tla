------------------------------- MODULE Spcom -------------------------------
(***************************************************************************)
(* A sharable channel to the secure processor (spcom.c), through the ioctl *)
(* interface: processes register with the channel, take turns to send a    *)
(* request and to wait for its answer, and leave it when they end, while   *)
(* the processor answers late or never, and restarts.                      *)
(*                                                                         *)
(* shared_sync_lock stays locked from SEND_MSG to the return of GET_MSG,   *)
(* and over user space in between; active_pid says who unlocks it.         *)
(* ch->lock makes a step of what is done under it. A packet is queued by   *)
(* the callback and taken to its channel by a work.                        *)
(*                                                                         *)
(* A request is known by its transaction and by the session of the         *)
(* processor it was made in; the code compares only the transaction.       *)
(***************************************************************************)
EXTENDS Integers, Sequences, FiniteSets

CONSTANTS
  Clients,                    \* processes
  None, Freed,                \* no buffer; a pointer to one that was freed
  SPCOM_MAX_CHANNEL_CLIENTS,
  INITIAL_TXN_ID,
  MaxTxn,                     \* bound on the requests of a session
  MaxSessions                 \* bound on the starts of the processor

Message == [txn : Nat, session : Nat]

ASSUME SpcomAssumption ==
  /\ None \notin Clients /\ None \notin Message /\ Freed \notin Message \cup {None}
  /\ SPCOM_MAX_CHANNEL_CLIENTS \in Nat \ {0}
  /\ INITIAL_TXN_ID \in Nat /\ MaxTxn \in Nat /\ MaxSessions \in Nat

VARIABLES
  pc,           \* where each process is
  registered,   \* ch->pid
  shared_sync_lock, active_pid,
  rpdrv,        \* the channel has a driver on the rpmsg bus
  rpdev,        \* and a device, while the processor runs its application
  rpmsg_abort, txn_id,
  rpmsg_rx_buf,
  rx_buf_txn_id, rx_done,
  rx_list,      \* packets that wait for the work
  work,         \* the work: scheduled, running
  pending,      \* requests the processor has and may answer
  session,      \* starts of the processor so far
  asked, got    \* what each process last asked for, and what it was given

sync == <<shared_sync_lock, active_pid>>
link == <<rpdrv, rpdev, session>>
rx == <<rpmsg_rx_buf, rx_buf_txn_id, rx_done>>
packets == <<rx_list, work>>
history == <<asked, got>>
vars == <<pc, registered, sync, link, rpmsg_abort, txn_id, rx, packets, pending, history>>

Buffered == rpmsg_rx_buf \notin {None, Freed}   \* actual_rx_size is not zero

Sending == {"sync", "begin", "asleep"}
Getting == {"get", "wait", "woken", "expired", "out"}
Outside == {"closed", "open", "matching"}
Locations == Outside \cup {"idle"} \cup Sending \cup {"sent"} \cup Getting
Holding == (Sending \ {"sync"}) \cup {"sent"} \cup Getting

TypeOK ==
  /\ pc \in [Clients -> Locations] /\ registered = {c \in Clients : pc[c] \notin Outside}
  /\ shared_sync_lock \in Clients \cup {None} /\ active_pid \in Clients \cup {None}
  /\ rpdrv \in BOOLEAN /\ rpdev \in BOOLEAN /\ session \in 0..MaxSessions
  /\ rpmsg_abort \in BOOLEAN /\ txn_id \in Nat
  /\ rpmsg_rx_buf \in Message \cup {None, Freed} /\ rx_buf_txn_id \in Nat /\ rx_done \in BOOLEAN
  /\ rx_list \in Seq(Message) /\ work \in SUBSET {"scheduled", "running"}
  /\ pending \in SUBSET Message
  /\ asked \in [Clients -> Message \cup {None}] /\ got \in [Clients -> Message \cup {None}]

Init ==
  /\ pc = [c \in Clients |-> "closed"] /\ registered = {}
  /\ shared_sync_lock = None /\ active_pid = None
  /\ rpdrv = FALSE /\ rpdev = FALSE /\ session = 0
  /\ rpmsg_abort = FALSE /\ txn_id = INITIAL_TXN_ID
  /\ rpmsg_rx_buf = None /\ rx_buf_txn_id = INITIAL_TXN_ID /\ rx_done = FALSE
  /\ rx_list = <<>> /\ work = {} /\ pending = {}
  /\ asked = [c \in Clients |-> None] /\ got = [c \in Clients |-> None]

Go(c, from, to) == pc[c] \in from /\ pc' = [pc EXCEPT ![c] = to]

-----------------------------------------------------------------------------
(* Coming and going. A registration that has to register the driver holds  *)
(* ch_list_lock over the calls of the bus.                                 *)
ch_list_lock == \E c \in Clients : pc[c] = "matching"
is_busy == Cardinality(registered) = SPCOM_MAX_CHANNEL_CLIENTS

OpenControl(c) ==
  /\ ~ch_list_lock /\ Go(c, {"closed"}, "open")
  /\ UNCHANGED <<registered, sync, link, rpmsg_abort, txn_id, rx, packets, pending, history>>

RegisterDriver(c) ==
  /\ ~ch_list_lock /\ ~rpdrv /\ Go(c, {"open"}, "matching") /\ rpdrv' = TRUE
  /\ UNCHANGED <<registered, sync, rpdev, session, rpmsg_abort, txn_id, rx, packets, pending, history>>

DriverRegistered(c) ==
  /\ Go(c, {"matching"}, "idle") /\ rpmsg_abort' = FALSE
  /\ registered' = registered \cup {c}
  /\ UNCHANGED <<sync, link, txn_id, rx, packets, pending, history>>

Register(c) ==
  /\ ~ch_list_lock /\ rpdrv /\ ~is_busy /\ Go(c, {"open"}, "idle")
  /\ registered' = registered \cup {c}
  /\ UNCHANGED <<sync, link, rpmsg_abort, txn_id, rx, packets, pending, history>>

\* Mutant: the entry in pid[] is left behind.
DeinitKeepsPid(c) ==
  /\ UNCHANGED <<registered, rx_buf_txn_id, rx_done, link, rpmsg_abort, txn_id, packets, pending, got>>
  /\ IF active_pid = c THEN active_pid' = None /\ shared_sync_lock' = None ELSE UNCHANGED sync
  /\ rpmsg_rx_buf' = None
  /\ asked' = [asked EXCEPT ![c] = None]

\* Mutant: a process that ends in a transaction does not unlock shared_sync_lock.
DeinitKeepsSync(c) ==
  /\ registered' = registered \ {c}
  /\ active_pid' = (IF active_pid = c THEN None ELSE active_pid)
  /\ rpmsg_rx_buf' = None
  /\ asked' = [asked EXCEPT ![c] = None]
  /\ UNCHANGED <<shared_sync_lock, rx_buf_txn_id, rx_done, link, rpmsg_abort, txn_id, packets, pending, got>>

\* spcom_channel_deinit_locked
Deinit(c) ==
  /\ registered' = registered \ {c}
  /\ IF active_pid = c THEN active_pid' = None /\ shared_sync_lock' = None ELSE UNCHANGED sync
  /\ rpmsg_rx_buf' = None
  /\ asked' = [asked EXCEPT ![c] = None]
  /\ UNCHANGED <<rx_buf_txn_id, rx_done, link, rpmsg_abort, txn_id, packets, pending, got>>

Unregister(c) == ~ch_list_lock /\ Go(c, {"idle", "sent"}, "open") /\ Deinit(c)

\* The process ends, or closes the control device; a call under way keeps it open.
CloseControl(c) ==
  /\ ~ch_list_lock /\ Go(c, {"open", "idle", "sent"}, "closed")
  /\ IF c \in registered THEN Deinit(c)
     ELSE UNCHANGED <<registered, sync, link, rpmsg_abort, txn_id, rx, packets, pending, history>>

-----------------------------------------------------------------------------
(* Sending a request. *)
Send(c) ==
  /\ rpdev /\ Go(c, {"idle"}, "sync") /\ txn_id < INITIAL_TXN_ID + MaxTxn
  /\ UNCHANGED <<registered, sync, link, rpmsg_abort, txn_id, rx, packets, pending, history>>

TakeSync(c) ==
  /\ Go(c, {"sync"}, "begin") /\ shared_sync_lock = None /\ shared_sync_lock' = c
  /\ UNCHANGED <<registered, active_pid, link, rpmsg_abort, txn_id, rx, packets, pending, history>>

\* One turn of the loop around rpmsg_trysend. The caller is told that all was sent whatever came of it.
TrySend(c, from, m) ==
  \/ rpmsg_abort /\ Go(c, from, "sent") /\ UNCHANGED pending
  \/ ~rpmsg_abort /\ Go(c, from, "sent") /\ pending' = pending \cup {m}
  \/ ~rpmsg_abort /\ Go(c, from, "asleep") /\ UNCHANGED pending

SendBegin(c) ==
  LET m == [txn |-> txn_id + 1, session |-> session] IN
    /\ TrySend(c, {"begin"}, m)
    /\ active_pid' = c /\ txn_id' = m.txn /\ asked' = [asked EXCEPT ![c] = m]
    /\ UNCHANGED <<registered, shared_sync_lock, link, rpmsg_abort, rx, packets, got>>

\* SEND_MODIFIED_MSG with a DMA buffer that cannot be put into the request.
SendFails(c) ==
  /\ Go(c, {"begin"}, "idle")
  /\ active_pid' = None /\ shared_sync_lock' = None /\ txn_id' = txn_id + 1
  /\ UNCHANGED <<registered, link, rpmsg_abort, rx, packets, pending, history>>

SendAgain(c) ==
  /\ TrySend(c, {"asleep"}, asked[c])
  /\ UNCHANGED <<registered, sync, link, rpmsg_abort, txn_id, rx, packets, history>>

\* Mutant: no timeout in the loop, only the abort ends it.
SendInsists(c) ==
  /\ rpmsg_abort /\ Go(c, {"asleep"}, "sent")
  /\ UNCHANGED <<registered, sync, link, rpmsg_abort, txn_id, rx, packets, pending, history>>

SendGivesUp(c) ==
  /\ Go(c, {"asleep"}, "sent")
  /\ UNCHANGED <<registered, sync, link, rpmsg_abort, txn_id, rx, packets, pending, history>>

-----------------------------------------------------------------------------
(* Waiting for the answer: spcom_rx inside GET_MSG. *)
Get(c) ==
  /\ \/ rpdev /\ Go(c, {"sent"}, "get")
     \/ Go(c, {"sent"}, "out")    \* not connected, or no memory for the answer
  /\ UNCHANGED <<registered, sync, link, rpmsg_abort, txn_id, rx, packets, pending, history>>

Take(c) ==
  /\ got' = [got EXCEPT ![c] = rpmsg_rx_buf] /\ rpmsg_rx_buf' = None
  /\ UNCHANGED <<rx_buf_txn_id, rx_done>>

\* Mutant: a pending buffer is taken whichever transaction it was received in.
CurrentAlways == rx_buf_txn_id # 0

Current == rx_buf_txn_id = txn_id

RxReady(c) ==
  /\ Go(c, {"get"}, "out") /\ Current /\ Buffered /\ Take(c)
  /\ UNCHANGED <<registered, sync, link, rpmsg_abort, txn_id, packets, pending, asked>>

RxWait(c) ==
  /\ Go(c, {"get"}, "wait") /\ ~(Current /\ Buffered)
  /\ rpmsg_rx_buf' = IF Current THEN rpmsg_rx_buf ELSE None
  /\ rx_done' = FALSE
  /\ UNCHANGED <<registered, sync, link, rpmsg_abort, txn_id, rx_buf_txn_id, packets, pending, history>>

\* The wait ends; the lock is still to be taken.
RxWakes(c) ==
  /\ rx_done /\ Go(c, {"wait"}, "woken")
  /\ UNCHANGED <<registered, sync, link, rpmsg_abort, txn_id, rx, packets, pending, history>>

RxExpires(c) ==
  /\ ~rx_done /\ Go(c, {"wait"}, "expired")
  /\ UNCHANGED <<registered, sync, link, rpmsg_abort, txn_id, rx, packets, pending, history>>

RxInterrupted(c) ==
  /\ Go(c, {"wait"}, "out")
  /\ UNCHANGED <<registered, sync, link, rpmsg_abort, txn_id, rx, packets, pending, history>>

RxTimeout(c) ==
  /\ Go(c, {"expired"}, "out") /\ txn_id' = txn_id + 1
  /\ UNCHANGED <<registered, sync, link, rpmsg_abort, rx, packets, pending, history>>

RxTakes(c) ==
  /\ Go(c, {"woken"}, "out")
  /\ IF ~rpmsg_abort /\ Buffered THEN Take(c) ELSE UNCHANGED <<rx, got>>
  /\ UNCHANGED <<registered, sync, link, rpmsg_abort, txn_id, packets, pending, asked>>

\* get_message_out
GetOut(c) ==
  /\ Go(c, {"out"}, "idle")
  /\ IF active_pid = c THEN active_pid' = None /\ shared_sync_lock' = None ELSE UNCHANGED sync
  /\ asked' = [asked EXCEPT ![c] = None] /\ got' = [got EXCEPT ![c] = None]
  /\ UNCHANGED <<registered, link, rpmsg_abort, txn_id, rx, packets, pending>>

-----------------------------------------------------------------------------
(* The processor, its transport and the work that takes packets to the     *)
(* channel.                                                                *)
Probe ==
  /\ rpdrv /\ ~rpdev /\ session < MaxSessions
  /\ rpdev' = TRUE /\ rpmsg_abort' = FALSE /\ txn_id' = INITIAL_TXN_ID /\ session' = session + 1
  /\ UNCHANGED <<pc, registered, sync, rpdrv, rx, packets, pending, history>>

\* Mutant: the device goes without the abort that stops those about to send to it.
RemoveUnaborted ==
  /\ rpdev /\ rpdev' = FALSE /\ txn_id' = 0 /\ rx_done' = TRUE
  /\ pending' = {}
  /\ UNCHANGED <<pc, registered, sync, rpdrv, session, rpmsg_abort, rpmsg_rx_buf, rx_buf_txn_id, packets, history>>

Remove ==
  /\ rpdev /\ rpdev' = FALSE /\ rpmsg_abort' = TRUE /\ txn_id' = 0 /\ rx_done' = TRUE
  /\ pending' = {}
  /\ UNCHANGED <<pc, registered, sync, rpdrv, session, rpmsg_rx_buf, rx_buf_txn_id, packets, history>>

\* An answer, and spcom_rpdev_cb.
Answer(m) ==
  /\ rpdev /\ pending' = pending \ {m}
  /\ rx_list' = Append(rx_list, m) /\ work' = work \cup {"scheduled"}
  /\ UNCHANGED <<pc, registered, sync, link, rpmsg_abort, txn_id, rx, history>>

WorkBegin ==
  /\ work = {"scheduled"} /\ work' = {"running"}
  /\ UNCHANGED <<pc, registered, sync, link, rpmsg_abort, txn_id, rx, rx_list, pending, history>>

WorkEnd ==
  /\ "running" \in work /\ rx_list = <<>> /\ work' = work \ {"running"}
  /\ UNCHANGED <<pc, registered, sync, link, rpmsg_abort, txn_id, rx, rx_list, pending, history>>

\* Both ways to rx_aborted end the work, whatever is left on the list.
RxAborted == work' = work \ {"running"} /\ UNCHANGED <<rx_buf_txn_id, rx_done>>

SignalRxDone ==
  /\ "running" \in work /\ rx_list # <<>> /\ rx_list' = Tail(rx_list)
  /\ LET m == Head(rx_list) IN
       \/ /\ rpmsg_abort /\ RxAborted
          /\ rpmsg_rx_buf' = IF rpmsg_rx_buf = None THEN None ELSE Freed
       \/ /\ ~rpmsg_abort /\ m.txn # txn_id /\ RxAborted
          /\ rpmsg_rx_buf' = None
       \/ /\ ~rpmsg_abort /\ m.txn = txn_id
          /\ rpmsg_rx_buf' = m /\ rx_buf_txn_id' = txn_id /\ rx_done' = TRUE
          /\ UNCHANGED work
  /\ UNCHANGED <<pc, registered, sync, link, rpmsg_abort, txn_id, pending, history>>

-----------------------------------------------------------------------------
InCall(c) ==
  \/ TakeSync(c) \/ SendBegin(c) \/ SendGivesUp(c)
  \/ RxReady(c) \/ RxWait(c) \/ RxWakes(c) \/ RxExpires(c) \/ RxTimeout(c) \/ RxTakes(c) \/ GetOut(c)

Work == WorkBegin \/ SignalRxDone \/ WorkEnd

Next ==
  \/ \E c \in Clients :
       \/ OpenControl(c) \/ RegisterDriver(c) \/ DriverRegistered(c) \/ Register(c)
       \/ Unregister(c) \/ CloseControl(c) \/ Send(c) \/ SendFails(c) \/ SendAgain(c) \/ Get(c) \/ RxInterrupted(c) \/ InCall(c)
  \/ Probe \/ Remove \/ (\E m \in pending : Answer(m)) \/ Work

Spec == Init /\ [][Next]_vars

\* A call goes on, its retries and its wait are bounded, and mutexes are handed over in turn; the
\* library fetches after every send (or the process ends); the workqueue runs.
FairSpec ==
  /\ Spec /\ WF_vars(Work)
  /\ \A c \in Clients :
       /\ WF_vars(InCall(c)) /\ WF_vars(DriverRegistered(c)) /\ WF_vars(Get(c))
       /\ SF_vars(TakeSync(c))

-----------------------------------------------------------------------------
\* shared_sync_lock is held by the one process that is in a transaction, and
\* active_pid names it as soon as the call that took the lock can be left: no
\* failure, end of a process or restart leaves it locked by nobody, or unlocks
\* it under another process.
SyncHasOwner ==
  /\ \A c \in Clients : shared_sync_lock = c <=> pc[c] \in Holding
  /\ active_pid # None => shared_sync_lock = active_pid
  /\ \A c \in Clients : pc[c] \in Holding \ {"begin"} => active_pid = c

\* Who has passed the connected check, which takes no lock, sends to the device
\* only while there is one.
DeviceBehindSend ==
  \A c \in Clients : pc[c] \in {"sync", "begin", "asleep"} /\ ~rpmsg_abort => rpdev

\* A process is never given the answer to the request of another or to one that
\* it gave up, in all that transaction numbers tell apart.
AnswersTransaction ==
  \A c \in Clients : got[c] # None => asked[c] # None /\ got[c].txn = asked[c].txn

\* The channel serves its processes in turns (Turns): between taking
\* shared_sync_lock and unlocking it a process asks once and is given at most one
\* answer, one with the number of its request; meanwhile no other process asks or
\* is given anything, and whoever ends, fails or times out leaves nothing of its
\* exchange to the next.
Promise == INSTANCE Turns WITH turn <- shared_sync_lock
TurnsSpec == Promise!Spec

\* Who waits for its turn gets it, whatever becomes of the others, of their
\* requests and of the processor.
TurnComes == \A c \in Clients : pc[c] = "sync" ~> pc[c] # "sync"

\* "The transaction id is used to match request with response": what a process
\* is given is the response to the request it made, and to no other.
ResponseMatchesRequest == \A c \in Clients : got[c] # None => got[c] = asked[c]
=============================================================================
