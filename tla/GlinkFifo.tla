----------------------------- MODULE GlinkFifo -----------------------------
(***************************************************************************)
(* One ring of the GLINK transport to the secure processor                 *)
(* (qcom_glink_spss.c): the functions of the transmit pipe on one side,    *)
(* those of the receive pipe on the other, a processor each, with nothing  *)
(* but the bytes, head and tail shared.                                    *)
(*                                                                         *)
(* The callers are GLINK's core, outside the repository: senders exclude   *)
(* each other, one that finds no room asks the reader once for a           *)
(* notification (READ_NOTIF, for which room is reserved) and tries again;  *)
(* the receiver peeks at the header, which carries the length of the       *)
(* message, then at the rest, and advances.                                *)
(*                                                                         *)
(* A byte is its position in the stream of all bytes ever sent and the     *)
(* length of its message, so a byte that is lost, repeated or overwritten  *)
(* shows. Loads and stores of a processor take effect in its order.        *)
(***************************************************************************)
EXTENDS Integers

CONSTANTS
  Length,   \* bytes in the ring
  Senders,
  Sizes,    \* the messages: their bytes in header and data
  MaxTaken  \* bound on the stream: sending stops when that much was read

FIFO_FULL_RESERVE == 8
TX_BLOCKED_CMD_RESERVE == 8
Reserve == FIFO_FULL_RESERVE + TX_BLOCKED_CMD_RESERVE
Header == 8  \* struct glink_msg, with which every message starts

ALIGN(n) == ((n + 7) \div 8) * 8
Align == {n \in 0..Length : n % 8 = 0}
Index == 0..Length - 1

\* The ring has room for every message when it is empty.
ASSUME LengthAssumption == Length \in Nat /\ Length % 8 = 0 /\ Length > Reserve
ASSUME SizesAssumption ==
  \A m \in Sizes : m.hdr \in Nat /\ m.data \in Nat /\ m.hdr >= Header /\ m.hdr + m.data <= Length - Reserve

VARIABLES
  fifo, head, tail,
  op,       \* the step of the sender that holds the lock
  cur,      \* its head, not yet published
  msg,      \* what it writes
  waiting,  \* what each sender waits to send
  notified, \* sent_read_notify
  rop, got, \* the step of the receiver, and what it has read
  used,     \* history: bytes sent and not yet read, with their alignment
  taken,    \* history: bytes read before
  pending   \* history: the messages in between

writer == <<op, cur, msg, waiting, notified>>
reader == <<rop, got>>
vars == <<fifo, head, tail, writer, reader, used, taken, pending>>

Nothing == [hdr |-> 0, data |-> 0]
READ_NOTIF == [hdr |-> 8, data |-> 0]
Size(m) == m.hdr + m.data
Bytes == [at : Int, len : Nat]

Init ==
  /\ fifo = [i \in Index |-> [at |-> -1, len |-> 0]] /\ head = 0 /\ tail = 0
  /\ op = "idle" /\ cur = 0 /\ msg = Nothing
  /\ waiting = [s \in Senders |-> Nothing] /\ notified = FALSE
  /\ rop = "idle" /\ got = [k \in {} |-> fifo[0]]
  /\ used = 0 /\ taken = 0 /\ pending = {}

Wrap(i) == IF i >= Length THEN i - Length ELSE i
Least(a, b) == IF a < b THEN a ELSE b

-----------------------------------------------------------------------------
(* The transmit pipe. *)

\* Mutant: a ring without room is as good as one with.
tx_avail_unreserved == IF tail <= head THEN Length - head + tail ELSE tail - head

\* Mutant: an empty ring is taken for a full one.
tx_avail_strict ==
  LET avail == IF tail < head THEN Length - head + tail ELSE tail - head
  IN IF avail < Reserve THEN 0 ELSE avail - Reserve

tx_avail ==
  LET avail == IF tail <= head THEN Length - head + tail ELSE tail - head
  IN IF avail < Reserve THEN 0 ELSE avail - Reserve

\* Copies count bytes of the stream, from position pos, to the unpublished head.
tx_write_one(pos, count) ==
  LET len == Least(count, Length - cur) IN
  /\ fifo' = [i \in Index |->
       IF cur <= i /\ i < cur + len THEN [at |-> pos + (i - cur), len |-> Size(msg)]
       ELSE IF i < count - len THEN [at |-> pos + len + i, len |-> Size(msg)]
       ELSE fifo[i]]
  /\ cur' = Wrap(cur + count)

\* A write begins at the head that was published last.
Begin(m) == op' = "hdr" /\ cur' = head /\ msg' = m

\* A sender that finds no room.
Blocked(s, m) ==
  /\ waiting' = [waiting EXCEPT ![s] = m]
  /\ IF notified THEN UNCHANGED <<op, cur, msg, notified>>
     ELSE Begin(READ_NOTIF) /\ notified' = TRUE

Send(s, m) ==
  /\ op = "idle" /\ waiting[s] = Nothing /\ taken < MaxTaken
  /\ IF tx_avail >= Size(m) THEN Begin(m) /\ UNCHANGED <<waiting, notified>> ELSE Blocked(s, m)
  /\ UNCHANGED <<fifo, head, tail, reader, used, taken, pending>>

\* A waiting sender was woken, or its wait timed out.
Retry(s) ==
  /\ op = "idle" /\ waiting[s] # Nothing
  /\ IF tx_avail >= Size(waiting[s])
     THEN Begin(waiting[s]) /\ waiting' = [waiting EXCEPT ![s] = Nothing] /\ notified' = FALSE
     ELSE Blocked(s, waiting[s])
  /\ UNCHANGED <<fifo, head, tail, reader, used, taken, pending>>

WriteHeader ==
  /\ op = "hdr" /\ op' = "data" /\ tx_write_one(taken + used, msg.hdr)
  /\ UNCHANGED <<head, tail, msg, waiting, notified, reader, used, taken, pending>>

WriteData ==
  /\ op = "data" /\ op' = "publish" /\ tx_write_one(taken + used + msg.hdr, msg.data)
  /\ UNCHANGED <<head, tail, msg, waiting, notified, reader, used, taken, pending>>

\* Mutant: the head of the next message is not aligned.
PublishUnaligned ==
  /\ op = "publish" /\ op' = "idle"
  /\ head' = cur
  /\ used' = used + ALIGN(Size(msg))
  /\ pending' = pending \cup {[at |-> taken + used, len |-> Size(msg)]}
  /\ UNCHANGED <<fifo, tail, cur, msg, waiting, notified, reader, taken>>

\* The end of glink_spss_tx_write, after the barrier.
Publish ==
  /\ op = "publish" /\ op' = "idle"
  /\ head' = Wrap(ALIGN(cur))
  /\ used' = used + ALIGN(Size(msg))
  /\ pending' = pending \cup {[at |-> taken + used, len |-> Size(msg)]}
  /\ UNCHANGED <<fifo, tail, cur, msg, waiting, notified, reader, taken>>

-----------------------------------------------------------------------------
(* The receive pipe. *)

rx_avail == IF head < tail THEN Length - tail + head ELSE head - tail

\* Mutant: the second part is read from where the first ended.
rx_peak_straight(offset, count) ==
  LET start == Wrap(tail + offset)
      len == Least(count, Length - start)
  IN [k \in 0..count - 1 |-> IF k < len THEN fifo[start + k] ELSE fifo[Length - 1]]

\* count bytes, offset bytes after the tail.
rx_peak(offset, count) ==
  LET start == Wrap(tail + offset)
      len == Least(count, Length - start)
  IN [k \in 0..count - 1 |-> IF k < len THEN fifo[start + k] ELSE fifo[k - len]]

ReadHeader ==
  /\ rop = "idle" /\ rx_avail >= Header
  /\ got' = rx_peak(0, Header) /\ rop' = "rest"
  /\ UNCHANGED <<fifo, head, tail, writer, used, taken, pending>>

\* The rest of the message, if all of it is there.
ReadRest ==
  /\ rop = "rest"
  /\ LET n == got[0].len
         rest == rx_peak(Header, n - Header)
     IN IF rx_avail < ALIGN(n) THEN rop' = "idle" /\ UNCHANGED got
        ELSE /\ rop' = "advance"
             /\ got' = [k \in 0..n - 1 |-> IF k < Header THEN got[k] ELSE rest[k - Header]]
  /\ UNCHANGED <<fifo, head, tail, writer, used, taken, pending>>

\* rx_advance.
Advance ==
  /\ rop = "advance" /\ rop' = "idle" /\ UNCHANGED got
  /\ LET count == ALIGN(got[0].len) IN
     /\ tail' = Wrap(tail + count)
     /\ used' = used - count /\ taken' = taken + count
     /\ pending' = {m \in pending : m.at # taken}
  /\ UNCHANGED <<fifo, head, writer>>

-----------------------------------------------------------------------------
Write == WriteHeader \/ WriteData \/ Publish
Read == ReadHeader \/ ReadRest \/ Advance
Trying(s) == Retry(s) \/ \E m \in Sizes : Send(s, m)

\* Everything sent and read: the bound on the stream, not the transport, ends a behaviour.
Over ==
  /\ taken >= MaxTaken /\ used = 0 /\ op = "idle" /\ rop = "idle"
  /\ \A s \in Senders : waiting[s] = Nothing
  /\ UNCHANGED vars

Next == Write \/ Read \/ (\E s \in Senders : Trying(s)) \/ Over

Spec == Init /\ [][Next]_vars

\* A write that began goes on, the receiver is woken for what is there, and a blocked sender
\* tries again at least every ten seconds.
FairSpec == Spec /\ WF_vars(Write) /\ WF_vars(Read) /\ \A s \in Senders : WF_vars(Retry(s))

-----------------------------------------------------------------------------
(* Properties. *)

Messages == {m \in [at : Nat, len : Nat] : m.len >= Header /\ m.len <= Length - 8}

TypeOK ==
  /\ fifo \in [Index -> Bytes] /\ head \in Align \ {Length} /\ tail \in Align \ {Length}
  /\ op \in {"idle", "hdr", "data", "publish"} /\ cur \in Index
  /\ msg \in Sizes \cup {Nothing, READ_NOTIF} /\ waiting \in [Senders -> Sizes \cup {Nothing}]
  /\ notified \in BOOLEAN /\ rop \in {"idle", "rest", "advance"}
  /\ used \in Nat /\ taken \in Nat /\ \A m \in pending : m \in Messages

\* The ring is never so full that head meets tail and all of it looks empty, although a blocked
\* sender writes its READ_NOTIF without looking for room, and one write may take seven bytes
\* more than it asked for: the two reserves of eight are enough, for any number of senders.
NeverFull == used <= Length - 8 /\ (head = tail => used = 0)

\* What the receiver passes on is one message as it was sent, every byte of it and
\* the next in the stream, wherever the ring wraps and whatever is written meanwhile.
ReadsWhatWasSent ==
  rop = "advance" =>
    \E m \in pending :
      /\ m.at = taken
      /\ got = [k \in 0..m.len - 1 |-> [at |-> m.at + k, len |-> m.len]]

\* The ring implements MessageStream: messages are received in the order in which they were
\* sent, each once, whole and never before it was published.
Stream == INSTANCE MessageStream WITH
  Lengths <- {Size(m) : m \in Sizes \cup {READ_NOTIF}}, Capacity <- Length - 8,
  sent <- taken + used, read <- taken, messages <- pending,
  hand <- IF rop = "advance" THEN {got} ELSE {}
StreamSpec == Stream!Spec

\* A sender that was blocked gets its message into the ring, at the latest once the others
\* stop sending (MaxTaken): no loss of a notification leaves it waiting beside an empty ring.
SentAtLast == \A s \in Senders : waiting[s] # Nothing ~> waiting[s] = Nothing
=============================================================================
