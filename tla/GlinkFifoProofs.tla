-------------------------- MODULE GlinkFifoProofs --------------------------
(***************************************************************************)
(* Proofs about GlinkFifo, for a ring of any aligned length, any senders   *)
(* and any messages that fit it.                                           *)
(*                                                                         *)
(* NeverFull and ReadsWhatWasSent are not inductive. The invariant says    *)
(* how much room a write leaves, with and without a READ_NOTIF under way   *)
(* (Room), where head and the unpublished head stand (Heads), that the     *)
(* messages in the ring follow each other without gaps (Chain), and that   *)
(* the bytes between tail and head, those being written and those already  *)
(* read are the ones of their messages (Content, Written, Reading).        *)
(* Indices are compared without division by the length: a position is      *)
(* less than two lengths away from the start of the ring.                  *)
(*                                                                         *)
(* The ring implements MessageStream, an action at a time: publishing the  *)
(* head puts a message, reading the rest takes it, and advancing the tail  *)
(* removes it. NothingStuck is what keeps both sides going.                *)
(***************************************************************************)
EXTENDS GlinkFifo, TLAPS

\* The byte of the stream at a position of it, as a message of some length holds it.
Byte(p, n) == [at |-> p, len |-> n]

Claimed == IF op = "idle" THEN used ELSE used + ALIGN(Size(msg))

Room ==
  /\ used \in Align
  /\ Claimed <= Length - 8
  /\ ~notified => Claimed <= Length - 16
  /\ op # "idle" => msg \in Sizes \cup {READ_NOTIF}

Heads ==
  /\ head = Wrap(tail + used)
  /\ op = "hdr" => cur = head
  /\ op = "data" => cur = Wrap(head + msg.hdr)
  /\ op = "publish" => cur = Wrap(head + Size(msg))

Follows(m, n) == n.at = m.at + ALIGN(m.len)

Chain ==
  /\ used > 0 => \E m \in pending : m.at = taken
  /\ \A m \in pending :
       /\ m.at >= taken /\ m.at + ALIGN(m.len) <= taken + used
       /\ m.at + ALIGN(m.len) = taken + used \/ \E n \in pending : Follows(m, n)
  /\ \A m, n \in pending : m # n => m.at + ALIGN(m.len) <= n.at \/ n.at + ALIGN(n.len) <= m.at

Content ==
  \A m \in pending : \A k \in 0..m.len - 1 :
    fifo[Wrap(tail + (m.at - taken) + k)] = Byte(m.at + k, m.len)

Written ==
  /\ op \in {"data", "publish"} =>
       \A k \in 0..msg.hdr - 1 : fifo[Wrap(head + k)] = Byte(taken + used + k, Size(msg))
  /\ op = "publish" =>
       \A k \in msg.hdr..Size(msg) - 1 : fifo[Wrap(head + k)] = Byte(taken + used + k, Size(msg))

Reading ==
  /\ rop = "rest" =>
       \E m \in pending : m.at = taken /\ got = [k \in 0..Header - 1 |-> Byte(m.at + k, m.len)]
  /\ ReadsWhatWasSent

IInv == TypeOK /\ Room /\ Heads /\ Chain /\ Content /\ Written /\ Reading

-----------------------------------------------------------------------------
(* Lemmas about alignment and the wrap. *)

\* Alignment adds less than eight bytes, and none to what is aligned.
LEMMA AlignBounds ==
  ASSUME NEW n \in Nat
  PROVE  /\ ALIGN(n) \in Nat /\ ALIGN(n) % 8 = 0
         /\ n <= ALIGN(n) /\ ALIGN(n) <= n + 7
         /\ n % 8 = 0 => ALIGN(n) = n
BY DEF ALIGN

\* What fits an aligned room still fits it when aligned.
LEMMA AlignFits ==
  ASSUME NEW n \in Nat, NEW u \in Nat, NEW l \in Nat, u % 8 = 0, l % 8 = 0, u + n <= l
  PROVE  u + ALIGN(n) <= l
BY DEF ALIGN

\* Behind an aligned part only the rest is padded.
LEMMA AlignSum ==
  ASSUME NEW n \in Nat, NEW u \in Nat, u % 8 = 0
  PROVE  ALIGN(u + n) = u + ALIGN(n) /\ (u + ALIGN(n)) % 8 = 0
BY DEF ALIGN

\* Two steps around the ring are one.
LEMMA WrapTwice ==
  ASSUME NEW a \in Nat, NEW x \in Nat, NEW y \in Nat, Length \in Nat, a < Length, x + y < Length
  PROVE  Wrap(Wrap(a + x) + y) = Wrap(a + x + y)
BY DEF Wrap

\* Once around the ring.
LEMMA WrapAround ==
  ASSUME NEW a \in Nat, NEW x \in Nat, NEW y \in Nat, Length \in Nat, a < Length, x <= Length, y < x
  PROVE  Wrap(Wrap(a + x) + (Length - x + y)) = Wrap(a + y)
<1>. CASE x < Length
  BY DEF Wrap
<1>. CASE x = Length
  BY DEF Wrap
<1>. QED
  OBVIOUS

\* A wrapped index lies in the ring.
LEMMA WrapInRing ==
  ASSUME NEW a \in Nat, NEW x \in Nat, Length \in Nat, a < Length, x <= Length
  PROVE  Wrap(a + x) \in Index
BY DEF Wrap, Index

-----------------------------------------------------------------------------
(* Lemmas about the pipes. *)

\* The sizes of what is written.
LEMMA SizeBounds ==
  ASSUME NEW m \in Sizes \cup {READ_NOTIF}
  PROVE  /\ m.hdr \in Nat /\ m.data \in Nat /\ m.hdr >= 8
         /\ Size(m) \in Nat /\ Size(m) >= 8 /\ Size(m) <= Length - 8
         /\ m.hdr + m.data = Size(m)
BY LengthAssumption, SizesAssumption DEF READ_NOTIF, Size, Header, Reserve, FIFO_FULL_RESERVE, TX_BLOCKED_CMD_RESERVE

\* glink_spss_tx_avail is the room in the ring less the two reserves, or nothing.
LEMMA AvailToWrite ==
  ASSUME TypeOK, Heads, used <= Length - 8
  PROVE  tx_avail = IF Length - used < 16 THEN 0 ELSE Length - used - 16
BY LengthAssumption DEF TypeOK, Heads, Align, Wrap, tx_avail, Reserve, FIFO_FULL_RESERVE,
  TX_BLOCKED_CMD_RESERVE

\* glink_spss_rx_avail is what was sent and not yet read.
LEMMA AvailToRead ==
  ASSUME TypeOK, Heads, used <= Length - 8
  PROVE  rx_avail = used
BY LengthAssumption DEF TypeOK, Heads, Align, Wrap, rx_avail

\* What is claimed for a write is in the ring when it is done, so used stays below the length.
LEMMA UsedBelow ==
  ASSUME TypeOK, Room
  PROVE  used \in Nat /\ used % 8 = 0 /\ used <= Length - 8
<1>1. CASE op = "idle"
  BY <1>1 DEF Room, Claimed, Align
<1>2. CASE op # "idle"
  <2>1. Size(msg) \in Nat
    BY <1>2, SizeBounds DEF Room
  <2>. QED
    BY <1>2, <2>1, AlignBounds, LengthAssumption DEF Room, Claimed, Align
<1>. QED
  BY <1>1, <1>2

\* tx_write_one puts count bytes behind the unpublished head and leaves the rest of the ring.
LEMMA WriteOne ==
  ASSUME TypeOK, NEW pos \in Nat, NEW count \in Nat, count <= Length, Size(msg) \in Nat,
         tx_write_one(pos, count)
  PROVE  /\ fifo' \in [Index -> Bytes] /\ cur' \in Index /\ cur' = Wrap(cur + count)
         /\ \A k \in Nat : k < count => fifo'[Wrap(cur + k)] = Byte(pos + k, Size(msg))
         /\ \A k \in Nat : count <= k /\ k < Length => fifo'[Wrap(cur + k)] = fifo[Wrap(cur + k)]
<1>. DEFINE len == Least(count, Length - cur)
<1>1. len \in Nat /\ len <= count /\ len <= Length - cur /\ (len = count \/ len = Length - cur)
  BY LengthAssumption DEF TypeOK, Index, Least
<1>2. fifo' = [i \in Index |->
       IF cur <= i /\ i < cur + len THEN [at |-> pos + (i - cur), len |-> Size(msg)]
       ELSE IF i < count - len THEN [at |-> pos + len + i, len |-> Size(msg)]
       ELSE fifo[i]]
  BY DEF tx_write_one
<1>3. cur' = Wrap(cur + count)
  BY DEF tx_write_one
<1>4. cur \in Nat /\ cur < Length /\ Length \in Nat
  BY LengthAssumption DEF TypeOK, Index
<1>. HIDE DEF len
<1>5. fifo' \in [Index -> Bytes]
  BY <1>1, <1>2, <1>4 DEF Bytes, Index, TypeOK
<1>6. ASSUME NEW k \in Nat, k < count
      PROVE  fifo'[Wrap(cur + k)] = Byte(pos + k, Size(msg))
  <2>1. CASE k < len
    <3>1. Wrap(cur + k) = cur + k /\ cur + k \in Index
      BY <1>1, <1>4, <2>1 DEF Wrap, Index
    <3>. QED
      BY <1>1, <1>2, <1>4, <2>1, <3>1 DEF Byte
  <2>2. CASE k >= len
    <3>1. len = Length - cur /\ Wrap(cur + k) = k - len /\ k - len \in Index /\ ~(cur <= k - len)
      BY <1>1, <1>4, <1>6, <2>2 DEF Wrap, Index
    <3>2. k - len < count - len
      BY <1>1, <1>6, <2>2
    <3>. QED
      BY <1>1, <1>2, <1>4, <2>2, <3>1, <3>2 DEF Byte
  <2>. QED
    BY <1>1, <2>1, <2>2
<1>7. ASSUME NEW k \in Nat, count <= k, k < Length
      PROVE  fifo'[Wrap(cur + k)] = fifo[Wrap(cur + k)]
  <2>1. CASE cur + k < Length
    <3>1. Wrap(cur + k) = cur + k /\ cur + k \in Index /\ len = count
      BY <1>1, <1>4, <1>7, <2>1 DEF Wrap, Index
    <3>. QED
      BY <1>1, <1>2, <1>4, <1>7, <2>1, <3>1
  <2>2. CASE cur + k >= Length
    <3>1. Wrap(cur + k) = cur + k - Length /\ cur + k - Length \in Index /\ cur + k - Length < cur
      BY <1>1, <1>4, <1>7, <2>2 DEF Wrap, Index
    <3>2. ~(cur + k - Length < count - len)
      BY <1>1, <1>4, <1>7, <2>2
    <3>. QED
      BY <1>1, <1>2, <1>4, <1>7, <3>1, <3>2
  <2>. QED
    BY <1>4, <2>1, <2>2
<1>8. cur' \in Index
  BY <1>3, <1>4, WrapInRing
<1>. QED
  BY <1>3, <1>5, <1>6, <1>7, <1>8

\* rx_peak returns the bytes that start offset bytes after the tail.
LEMMA Peek ==
  ASSUME TypeOK, NEW offset \in Nat, NEW count \in Nat, offset < Length, offset + count <= Length
  PROVE  rx_peak(offset, count) = [k \in 0..count - 1 |-> fifo[Wrap(tail + offset + k)]]
<1>. DEFINE start == Wrap(tail + offset)
            len == Least(count, Length - start)
<1>1. tail \in Nat /\ tail < Length /\ Length \in Nat
  BY LengthAssumption DEF TypeOK, Align
<1>2. start \in Nat /\ start < Length
  BY <1>1 DEF Wrap
<1>. HIDE DEF start
<1>3. len \in Nat /\ len <= count /\ len <= Length - start /\ (len = count \/ len = Length - start)
  BY <1>1, <1>2 DEF Least
<1>4. rx_peak(offset, count) = [k \in 0..count - 1 |-> IF k < len THEN fifo[start + k] ELSE fifo[k - len]]
  BY DEF rx_peak, start
<1>. HIDE DEF len
<1>5. ASSUME NEW k \in 0..count - 1
      PROVE  Wrap(tail + offset + k) = IF k < len THEN start + k ELSE k - len
  <2>1. Wrap(start + k) = Wrap(tail + offset + k)
    <3>1. k \in Nat /\ offset + k < Length
      BY <1>1, <1>5
    <3>. QED
      BY <1>1, <3>1, WrapTwice DEF start
  <2>2. Wrap(start + k) = IF k < len THEN start + k ELSE k - len
    BY <1>1, <1>2, <1>3, <1>5 DEF Wrap
  <2>. QED
    BY <2>1, <2>2
<1>. QED
  BY <1>4, <1>5

-----------------------------------------------------------------------------
(* The initial state and the steps. *)

\* The numbers every step relies on.
LEMMA Numbers ==
  ASSUME IInv
  PROVE  /\ Length \in Nat /\ Length >= 24 /\ Length % 8 = 0
         /\ head \in Nat /\ head < Length /\ head % 8 = 0
         /\ tail \in Nat /\ tail < Length /\ tail % 8 = 0
         /\ used \in Nat /\ used % 8 = 0 /\ used <= Length - 8
         /\ taken \in Nat
         /\ tx_avail = (IF Length - used < 16 THEN 0 ELSE Length - used - 16)
         /\ rx_avail = used
         /\ op # "idle" => msg \in Sizes \cup {READ_NOTIF}
<1>1. Length \in Nat /\ Length >= 24 /\ Length % 8 = 0
  BY LengthAssumption DEF Reserve, FIFO_FULL_RESERVE, TX_BLOCKED_CMD_RESERVE
<1>2. used \in Nat /\ used % 8 = 0 /\ used <= Length - 8
  BY UsedBelow DEF IInv
<1>3. tx_avail = (IF Length - used < 16 THEN 0 ELSE Length - used - 16) /\ rx_avail = used
  BY <1>2, AvailToWrite, AvailToRead DEF IInv
<1>. QED
  BY <1>1, <1>2, <1>3 DEF IInv, TypeOK, Align, Room

\* The empty ring satisfies the invariant.
LEMMA InitIInv == Init => IInv
<1>. SUFFICES ASSUME Init PROVE IInv
  OBVIOUS
<1>1. Length \in Nat /\ Length >= 24 /\ Length % 8 = 0
  BY LengthAssumption DEF Reserve, FIFO_FULL_RESERVE, TX_BLOCKED_CMD_RESERVE
<1>2. TypeOK
  <2>1. fifo \in [Index -> Bytes] /\ cur \in Index
    BY <1>1 DEF Init, Bytes, Index
  <2>2. 0 \in Align \ {Length}
    BY <1>1 DEF Align
  <2>3. waiting \in [Senders -> Sizes \cup {Nothing}] /\ msg \in Sizes \cup {Nothing, READ_NOTIF}
    BY DEF Init
  <2>. QED
    BY <2>1, <2>2, <2>3 DEF Init, TypeOK
<1>3. Room /\ Heads
  BY <1>1 DEF Init, Room, Claimed, Heads, Align, Wrap
<1>4. Chain /\ Content
  BY DEF Init, Chain, Content
<1>5. Written /\ Reading
  BY DEF Init, Written, Reading, ReadsWhatWasSent
<1>. QED
  BY <1>2, <1>3, <1>4, <1>5 DEF IInv

\* A write begins where there is room for it.
LEMMA BeginKeeps ==
  ASSUME IInv, op = "idle", NEW m \in Sizes \cup {READ_NOTIF}, Begin(m),
         notified' \in BOOLEAN, waiting' \in [Senders -> Sizes \cup {Nothing}],
         used + ALIGN(Size(m)) <= Length - 8,
         ~notified' => used + ALIGN(Size(m)) <= Length - 16,
         UNCHANGED <<fifo, head, tail, reader, used, taken, pending>>
  PROVE  IInv'
<1>1. TypeOK'
  BY Numbers DEF IInv, TypeOK, Begin, reader, Align, Index
<1>2. Room' /\ Heads'
  BY DEF IInv, Room, Heads, Begin, Claimed, Size, Wrap
<1>3. Chain' /\ Content'
  BY DEF IInv, Chain, Content, Follows, Wrap
<1>4. Written' /\ Reading'
  BY DEF IInv, Written, Reading, ReadsWhatWasSent, reader, Begin
<1>. QED
  BY <1>1, <1>2, <1>3, <1>4 DEF IInv

\* A sender that finds room leaves both reserves, a blocked one takes eight bytes once.
LEMMA TryKeeps ==
  ASSUME IInv, NEW s \in Senders, NEW m \in Sizes, op = "idle",
         UNCHANGED <<fifo, head, tail, reader, used, taken, pending>>,
         \/ /\ tx_avail >= Size(m) /\ Begin(m)
            /\ notified' \in {notified, FALSE} /\ waiting' \in {waiting, [waiting EXCEPT ![s] = Nothing]}
         \/ Blocked(s, m)
  PROVE  IInv'
<1>1. Size(m) \in Nat /\ Size(m) >= 8
  BY SizeBounds
<1>2. CASE tx_avail >= Size(m) /\ Begin(m)
           /\ notified' \in {notified, FALSE} /\ waiting' \in {waiting, [waiting EXCEPT ![s] = Nothing]}
  <2>1. used + 16 + Size(m) <= Length
    BY <1>1, <1>2, Numbers
  <2>2. used + 16 \in Nat /\ (used + 16) % 8 = 0
    BY Numbers
  <2>3. (used + 16) + ALIGN(Size(m)) <= Length
    BY <1>1, <2>1, <2>2, Numbers, AlignFits
  <2>4. notified' \in BOOLEAN /\ waiting' \in [Senders -> Sizes \cup {Nothing}]
    BY <1>2 DEF IInv, TypeOK
  <2>5. ALIGN(Size(m)) \in Nat
    BY <1>1, AlignBounds
  <2>6. used + ALIGN(Size(m)) <= Length - 16
    BY <2>3, <2>5, Numbers
  <2>7. used + ALIGN(Size(m)) <= Length - 8
    BY <2>5, <2>6, Numbers
  <2>. QED
    BY <1>2, <2>4, <2>6, <2>7, BeginKeeps
<1>3. CASE Blocked(s, m)
  <2>1. waiting' \in [Senders -> Sizes \cup {Nothing}]
    BY <1>3 DEF Blocked, IInv, TypeOK
  <2>2. CASE notified
    <3>1. UNCHANGED <<op, cur, msg, notified>>
      BY <1>3, <2>2 DEF Blocked
    <3>2. TypeOK'
      BY <2>1, <3>1 DEF IInv, TypeOK, reader
    <3>3. Room' /\ Heads'
      BY <3>1 DEF IInv, Room, Heads, Claimed, Size, Wrap
    <3>4. Chain' /\ Content'
      BY DEF IInv, Chain, Content, Follows, Wrap
    <3>5. Written' /\ Reading'
      BY <3>1 DEF IInv, Written, Reading, ReadsWhatWasSent, reader, Wrap, Size
    <3>. QED
      BY <3>2, <3>3, <3>4, <3>5 DEF IInv
  <2>3. CASE ~notified
    <3>1. Begin(READ_NOTIF) /\ notified' = TRUE
      BY <1>3, <2>3 DEF Blocked
    <3>2. used <= Length - 16
      BY <2>3 DEF IInv, Room, Claimed
    <3>3. ALIGN(Size(READ_NOTIF)) = 8
      BY DEF ALIGN, Size, READ_NOTIF
    <3>4. used + ALIGN(Size(READ_NOTIF)) <= Length - 8
      BY <3>2, <3>3, Numbers
    <3>. QED
      BY <2>1, <3>1, <3>4, BeginKeeps
  <2>. QED
    BY <2>2, <2>3
<1>. QED
  BY <1>2, <1>3

\* What the sender writes lies behind the unread bytes and leaves them alone.
LEMMA WriteKeeps ==
  ASSUME IInv, op \in {"hdr", "data"},
         NEW done \in Nat, NEW count \in Nat, done + count <= Size(msg), cur = Wrap(head + done),
         tx_write_one(taken + used + done, count),
         UNCHANGED <<head, tail, used, taken, pending>>
  PROVE  /\ fifo' \in [Index -> Bytes] /\ cur' \in Index /\ cur' = Wrap(head + (done + count))
         /\ Content'
         /\ \A k \in 0..done - 1 : fifo'[Wrap(head + k)] = fifo[Wrap(head + k)]
         /\ \A k \in done..(done + count) - 1 :
              fifo'[Wrap(head + k)] = Byte(taken + used + k, Size(msg))
<1>1. msg \in Sizes \cup {READ_NOTIF} /\ Size(msg) \in Nat /\ used + ALIGN(Size(msg)) <= Length - 8
  BY SizeBounds DEF IInv, Room, Claimed
<1>2. used + Size(msg) <= Length - 8
  BY <1>1, Numbers, AlignBounds
<1>3. /\ taken + used + done \in Nat /\ count <= Length /\ done + count < Length
      /\ used + (done + count) < Length
  BY <1>1, <1>2, Numbers
<1>0. /\ Length \in Nat /\ head \in Nat /\ head < Length /\ tail \in Nat /\ tail < Length
      /\ used \in Nat /\ taken \in Nat
  BY Numbers
<1>4. /\ fifo' \in [Index -> Bytes] /\ cur' \in Index /\ cur' = Wrap(cur + count)
      /\ \A k \in Nat : k < count => fifo'[Wrap(cur + k)] = Byte(taken + used + done + k, Size(msg))
      /\ \A k \in Nat : count <= k /\ k < Length => fifo'[Wrap(cur + k)] = fifo[Wrap(cur + k)]
  BY <1>1, <1>3, WriteOne DEF IInv
<1>5. cur' = Wrap(head + (done + count))
  <2>1. Wrap(Wrap(head + done) + count) = Wrap(head + done + count)
    BY <1>0, <1>3 DEF Wrap
  <2>. QED
    BY <1>4, <2>1, <1>0
<1>6. ASSUME NEW k \in done..(done + count) - 1
      PROVE  fifo'[Wrap(head + k)] = Byte(taken + used + k, Size(msg))
  <2>1. k - done \in Nat /\ k - done < count /\ done + (k - done) < Length
    BY <1>0, <1>3, <1>6
  <2>2. Wrap(cur + (k - done)) = Wrap(head + done + (k - done))
    BY <1>0, <2>1 DEF Wrap
  <2>3. head + done + (k - done) = head + k /\ taken + used + done + (k - done) = taken + used + k
    BY <1>6, Numbers
  <2>. QED
    BY <1>4, <2>1, <2>2, <2>3
<1>7. ASSUME NEW k \in 0..done - 1
      PROVE  fifo'[Wrap(head + k)] = fifo[Wrap(head + k)]
  <2>1. Wrap(cur + (Length - done + k)) = Wrap(head + k)
    BY <1>0, <1>3, <1>7 DEF Wrap
  <2>2. Length - done + k \in Nat /\ count <= Length - done + k /\ Length - done + k < Length
    BY <1>3, <1>7, Numbers
  <2>. QED
    BY <1>4, <2>1, <2>2
<1>8. ASSUME NEW j \in Nat, j < used
      PROVE  fifo'[Wrap(tail + j)] = fifo[Wrap(tail + j)]
  <2>1. cur = Wrap(tail + (used + done))
    <3>1. Wrap(Wrap(tail + used) + done) = Wrap(tail + used + done)
      BY <1>0, <1>3 DEF Wrap
    <3>. QED
      BY <1>0, <3>1 DEF IInv, Heads
  <2>2. used + done \in Nat /\ used + done <= Length /\ j < used + done
    BY <1>3, <1>8, Numbers
  <2>3. Wrap(cur + (Length - (used + done) + j)) = Wrap(tail + j)
    BY <1>8, <2>1, <2>2, Numbers, WrapAround
  <2>4. /\ Length - (used + done) + j \in Nat /\ count <= Length - (used + done) + j
        /\ Length - (used + done) + j < Length
    BY <1>3, <1>8, <2>2, Numbers
  <2>. QED
    BY <1>4, <2>3, <2>4
<1>9. Content'
  <2>1. ASSUME NEW m \in pending, NEW k \in 0..m.len - 1
        PROVE  fifo'[Wrap(tail + (m.at - taken) + k)] = Byte(m.at + k, m.len)
    <3>1. m.at \in Nat /\ m.len \in Nat /\ m.at >= taken /\ m.at + ALIGN(m.len) <= taken + used
      BY DEF IInv, TypeOK, Messages, Chain
    <3>2. m.len <= ALIGN(m.len) /\ ALIGN(m.len) \in Nat
      BY <3>1, AlignBounds
    <3>3. (m.at - taken) + k \in Nat /\ (m.at - taken) + k < used
      BY <2>1, <3>1, <3>2, Numbers
    <3>4. tail + (m.at - taken) + k = tail + ((m.at - taken) + k)
      BY <2>1, <3>1, Numbers
    <3>. QED
      BY <1>8, <3>3, <3>4 DEF IInv, Content
  <2>. QED
    BY <2>1 DEF Content, Wrap
<1>. QED
  BY <1>4, <1>5, <1>6, <1>7, <1>9

\* The header goes behind head, into room that no message has.
LEMMA WriteHeaderKeeps == IInv /\ WriteHeader => IInv'
<1>. SUFFICES ASSUME IInv, WriteHeader PROVE IInv'
  OBVIOUS
<1>. USE DEF WriteHeader, reader
<1>1. /\ msg \in Sizes \cup {READ_NOTIF} /\ msg.hdr \in Nat /\ msg.data \in Nat
      /\ Size(msg) \in Nat /\ msg.hdr <= Size(msg)
  BY SizeBounds DEF IInv, Room
<1>2. cur = Wrap(head + 0)
  BY Numbers DEF IInv, Heads, Wrap
<1>3. taken + used + 0 = taken + used /\ 0 + msg.hdr = msg.hdr
  BY <1>1, Numbers
<1>4. /\ fifo' \in [Index -> Bytes] /\ cur' \in Index /\ cur' = Wrap(head + msg.hdr) /\ Content'
      /\ \A k \in 0..msg.hdr - 1 : fifo'[Wrap(head + k)] = Byte(taken + used + k, Size(msg))
  <2>1. tx_write_one(taken + used + 0, msg.hdr) /\ 0 + msg.hdr <= Size(msg)
    BY <1>1, <1>3
  <2>. QED
    BY <1>1, <1>2, <1>3, <2>1, WriteKeeps
<1>5. TypeOK'
  BY <1>4 DEF IInv, TypeOK
<1>6. Room' /\ Heads'
  BY <1>4 DEF IInv, Room, Heads, Claimed, Size, Wrap
<1>7. Chain'
  BY DEF IInv, Chain, Follows
<1>8. Written' /\ Reading'
  BY <1>4 DEF IInv, Written, Reading, ReadsWhatWasSent, Size, Wrap
<1>. QED
  BY <1>4, <1>5, <1>6, <1>7, <1>8 DEF IInv

\* So does the rest of the message.
LEMMA WriteDataKeeps == IInv /\ WriteData => IInv'
<1>. SUFFICES ASSUME IInv, WriteData PROVE IInv'
  OBVIOUS
<1>. USE DEF WriteData, reader
<1>1. /\ msg \in Sizes \cup {READ_NOTIF} /\ msg.hdr \in Nat /\ msg.data \in Nat
      /\ Size(msg) \in Nat /\ msg.hdr + msg.data = Size(msg)
  BY SizeBounds DEF IInv, Room
<1>2. cur = Wrap(head + msg.hdr)
  BY DEF IInv, Heads
<1>3. /\ fifo' \in [Index -> Bytes] /\ cur' \in Index /\ cur' = Wrap(head + Size(msg)) /\ Content'
      /\ \A k \in 0..msg.hdr - 1 : fifo'[Wrap(head + k)] = fifo[Wrap(head + k)]
      /\ \A k \in msg.hdr..Size(msg) - 1 :
           fifo'[Wrap(head + k)] = Byte(taken + used + k, Size(msg))
  <2>1. msg.hdr + msg.data <= Size(msg)
    BY <1>1
  <2>. QED
    BY <1>1, <1>2, <2>1, WriteKeeps
<1>4. TypeOK'
  BY <1>3 DEF IInv, TypeOK
<1>5. Room' /\ Heads'
  BY <1>3 DEF IInv, Room, Heads, Claimed, Size, Wrap
<1>6. Chain'
  BY DEF IInv, Chain, Follows
<1>7. Written' /\ Reading'
  <2>1. \A k \in 0..msg.hdr - 1 : fifo'[Wrap(head + k)] = Byte(taken + used + k, Size(msg))
    BY <1>3 DEF IInv, Written
  <2>. QED
    BY <1>3, <2>1 DEF IInv, Written, Reading, ReadsWhatWasSent, Size, Wrap
<1>. QED
  BY <1>3, <1>4, <1>5, <1>6, <1>7 DEF IInv

\* A published message follows the last one, and its alignment is inside what was claimed.
LEMMA PublishKeeps == IInv /\ Publish => IInv'
<1>. SUFFICES ASSUME IInv, Publish PROVE IInv'
  OBVIOUS
<1>. DEFINE n == Size(msg)
            new == [at |-> taken + used, len |-> n]
<1>0. /\ Length \in Nat /\ Length % 8 = 0 /\ Length >= 24
      /\ head \in Nat /\ head < Length /\ head % 8 = 0
      /\ tail \in Nat /\ tail < Length /\ tail % 8 = 0
      /\ used \in Nat /\ used % 8 = 0 /\ taken \in Nat
  BY Numbers
<1>1. /\ n \in Nat /\ n >= 8 /\ n <= Length - 8 /\ msg.hdr \in Nat /\ msg.hdr <= n
      /\ used + ALIGN(n) <= Length - 8 /\ (~notified => used + ALIGN(n) <= Length - 16)
  BY SizeBounds DEF Publish, IInv, Room, Claimed
<1>2. ALIGN(n) \in Nat /\ n <= ALIGN(n) /\ ALIGN(n) >= 8 /\ (used + ALIGN(n)) % 8 = 0
  <2>1. ALIGN(n) \in Nat /\ n <= ALIGN(n) /\ ALIGN(n) % 8 = 0
    BY <1>1, AlignBounds
  <2>. QED
    BY <1>0, <1>1, <2>1
<1>3. op' = "idle" /\ used' = used + ALIGN(n) /\ pending' = pending \cup {new}
      /\ UNCHANGED <<fifo, tail, cur, msg, waiting, notified, rop, got, taken>>
  BY DEF Publish, reader
<1>4. \A k \in 0..n - 1 : fifo[Wrap(tail + used + k)] = Byte(taken + used + k, n)
  <2>1. \A k \in 0..n - 1 : fifo[Wrap(head + k)] = Byte(taken + used + k, n)
    BY <1>1 DEF Publish, IInv, Written
  <2>2. \A k \in 0..n - 1 : Wrap(Wrap(tail + used) + k) = Wrap(tail + used + k)
    BY <1>0, <1>1, <1>2 DEF Wrap
  <2>3. head = Wrap(tail + used)
    BY DEF IInv, Heads
  <2>. QED
    BY <2>1, <2>2, <2>3
<1>. HIDE DEF n
<1>5. head' = Wrap(tail + (used + ALIGN(n))) /\ head' \in Align \ {Length}
  <2>1. cur = Wrap(head + n) /\ head = Wrap(tail + used) /\ head' = Wrap(ALIGN(cur))
    BY DEF Publish, IInv, Heads, n
  <2>2. CASE head + n < Length
    <3>0. cur = head + n
      BY <1>0, <1>1, <2>1, <2>2 DEF Wrap
    <3>1. ALIGN(cur) = head + ALIGN(n) /\ (head + ALIGN(n)) % 8 = 0
      BY <1>0, <1>1, <3>0, AlignSum
    <3>2. head + ALIGN(n) <= Length
      BY <1>0, <1>1, <2>2, AlignFits
    <3>. QED
      BY <1>0, <1>1, <1>2, <2>1, <3>1, <3>2 DEF Wrap, Align
  <2>3. CASE head + n >= Length
    <3>1. cur = head - Length + n
      BY <1>0, <1>1, <2>1, <2>3 DEF Wrap
    <3>2. ALIGN(head + n) = head + ALIGN(n) /\ (head + ALIGN(n)) % 8 = 0
      BY <1>0, <1>1, AlignSum
    <3>3. cur \in Nat /\ Length + cur = head + n
      BY <1>0, <1>1, <2>3, <3>1
    <3>4. ALIGN(Length + cur) = Length + ALIGN(cur) /\ ALIGN(cur) \in Nat /\ ALIGN(cur) % 8 = 0
      BY <1>0, <3>3, AlignSum, AlignBounds
    <3>5. ALIGN(cur) = head + ALIGN(n) - Length
      BY <1>0, <1>2, <3>2, <3>3, <3>4
    <3>6. ALIGN(cur) < Length
      <4>1. ALIGN(n) <= Length
        BY <1>0, <1>1, <1>2
      <4>. QED
        BY <1>0, <1>2, <3>5, <4>1
    <3>7. Wrap(tail + (used + ALIGN(n))) = ALIGN(cur)
      BY <1>0, <1>1, <1>2, <2>1, <2>3, <3>4, <3>5 DEF Wrap
    <3>8. Wrap(ALIGN(cur)) = ALIGN(cur)
      BY <1>0, <3>4, <3>6 DEF Wrap
    <3>. QED
      BY <1>0, <2>1, <3>4, <3>6, <3>7, <3>8 DEF Align
  <2>. QED
    BY <1>0, <1>1, <2>2, <2>3
<1>6. TypeOK'
  <2>1. new \in Messages
    BY <1>0, <1>1 DEF Messages, Header
  <2>. QED
    BY <1>0, <1>2, <1>3, <1>5, <2>1 DEF IInv, TypeOK
<1>7. Room' /\ Heads'
  <2>1. used' \in Align
    BY <1>0, <1>1, <1>2, <1>3 DEF Align
  <2>. QED
    BY <1>1, <1>3, <1>5, <2>1 DEF Room, Claimed, Heads, Wrap
<1>8. \A m \in pending : /\ m.at \in Nat /\ m.len \in Nat /\ ALIGN(m.len) \in Nat
                         /\ m.at >= taken /\ m.at + ALIGN(m.len) <= taken + used
  BY AlignBounds DEF IInv, TypeOK, Messages, Chain
<1>9. Chain'
  <2>1. used' > 0 => \E m \in pending' : m.at = taken'
    <3>1. CASE used > 0
      BY <1>3, <3>1 DEF IInv, Chain
    <3>2. CASE used = 0
      <4>1. new \in pending' /\ new.at = taken'
        BY <1>0, <1>3, <3>2
      <4>. QED
        BY <4>1
    <3>. QED
      BY <1>0, <3>1, <3>2
  <2>2. ASSUME NEW m \in pending'
        PROVE  /\ m.at >= taken' /\ m.at + ALIGN(m.len) <= taken' + used'
               /\ m.at + ALIGN(m.len) = taken' + used' \/ \E o \in pending' : Follows(m, o)
    <3>1. CASE m = new
      BY <1>0, <1>2, <1>3, <3>1
    <3>2. CASE m \in pending
      <4>1. m.at >= taken' /\ m.at + ALIGN(m.len) <= taken' + used'
        <5>1. m.at \in Nat /\ ALIGN(m.len) \in Nat /\ m.at >= taken /\ m.at + ALIGN(m.len) <= taken + used
          BY <3>2, <1>8
        <5>2. m.at + ALIGN(m.len) <= taken + (used + ALIGN(n))
          BY <1>0, <1>2, <5>1
        <5>. QED
          BY <1>3, <5>1, <5>2
      <4>2. CASE m.at + ALIGN(m.len) = taken + used
        <5>1. new \in pending' /\ Follows(m, new)
          BY <1>3, <4>2 DEF Follows
        <5>. QED
          BY <4>1, <5>1
      <4>3. CASE \E o \in pending : Follows(m, o)
        BY <1>3, <4>1, <4>3
      <4>. QED
        BY <3>2, <4>2, <4>3 DEF IInv, Chain
    <3>. QED
      BY <1>3, <3>1, <3>2
  <2>3. ASSUME NEW m \in pending', NEW o \in pending', m # o
        PROVE  m.at + ALIGN(m.len) <= o.at \/ o.at + ALIGN(o.len) <= m.at
    <3>1. CASE m \in pending /\ o \in pending
      BY <2>3, <3>1 DEF IInv, Chain
    <3>2. CASE m = new \/ o = new
      BY <1>0, <1>3, <1>8, <2>3, <3>2
    <3>. QED
      BY <1>3, <3>1, <3>2
  <2>. QED
    BY <2>1, <2>2, <2>3 DEF Chain, Follows, ALIGN
<1>10. Content'
  <2>1. ASSUME NEW m \in pending', NEW k \in 0..m.len - 1
        PROVE  fifo[Wrap(tail + (m.at - taken) + k)] = Byte(m.at + k, m.len)
    <3>1. CASE m \in pending
      BY <2>1, <3>1 DEF IInv, Content
    <3>2. CASE m = new
      <4>1. m.at = taken + used /\ m.len = n /\ m.at - taken = used
        BY <1>0, <3>2
      <4>. QED
        BY <1>4, <2>1, <4>1
    <3>. QED
      BY <1>3, <3>1, <3>2
  <2>. QED
    BY <1>3, <2>1 DEF Content, Wrap
<1>11. Written' /\ Reading'
  BY <1>3 DEF IInv, Written, Reading, ReadsWhatWasSent
<1>. QED
  BY <1>6, <1>7, <1>9, <1>10, <1>11 DEF IInv

\* What a step of the receiver that frees nothing leaves as it is.
LEMMA ReadKeeps ==
  ASSUME IInv, rop' \in {"idle", "rest", "advance"}, Reading',
         UNCHANGED <<fifo, head, tail, writer, used, taken, pending>>
  PROVE  IInv'
<1>1. TypeOK'
  BY DEF IInv, TypeOK, writer
<1>2. Room' /\ Heads' /\ Chain'
  BY DEF IInv, Room, Claimed, Heads, Chain, Follows, writer, Size, Wrap
<1>3. Content' /\ Written'
  BY DEF IInv, Content, Written, writer, Wrap, Size
<1>. QED
  BY <1>1, <1>2, <1>3 DEF IInv

\* What is read of a header is the header of the first message.
LEMMA ReadHeaderKeeps == IInv /\ ReadHeader => IInv'
<1>. SUFFICES ASSUME IInv, ReadHeader PROVE IInv'
  OBVIOUS
<1>1. PICK m \in pending : m.at = taken
  BY Numbers DEF ReadHeader, Header, IInv, Chain
<1>2. m.len \in Nat /\ m.len >= 8
  BY DEF IInv, TypeOK, Messages, Header
<1>3. rx_peak(0, Header) = [k \in 0..Header - 1 |-> fifo[Wrap(tail + 0 + k)]]
  <2>1. TypeOK /\ 0 \in Nat /\ Header \in Nat /\ 0 < Length /\ 0 + Header <= Length
    BY Numbers DEF IInv, Header
  <2>. QED
    BY <2>1, Peek
<1>4. ASSUME NEW k \in 0..Header - 1
      PROVE  fifo[Wrap(tail + 0 + k)] = Byte(m.at + k, m.len)
  <2>1. k \in 0..m.len - 1 /\ m.at - taken = 0
    BY <1>1, <1>2, Numbers DEF Header
  <2>. QED
    BY <2>1 DEF IInv, Content
<1>5. got' = [k \in 0..Header - 1 |-> Byte(m.at + k, m.len)]
  BY <1>3, <1>4 DEF ReadHeader
<1>6. Reading'
  BY <1>1, <1>5 DEF ReadHeader, Reading, ReadsWhatWasSent
<1>. QED
  BY <1>6, ReadKeeps DEF ReadHeader

\* What is read behind a header is the rest of the same message.
LEMMA ReadRestKeeps == IInv /\ ReadRest => IInv'
<1>. SUFFICES ASSUME IInv, ReadRest PROVE IInv'
  OBVIOUS
<1>1. PICK m \in pending : m.at = taken /\ got = [k \in 0..Header - 1 |-> Byte(m.at + k, m.len)]
  BY DEF ReadRest, IInv, Reading
<1>2. /\ m.len \in Nat /\ m.len >= 8 /\ m.len <= Length - 8 /\ m.at \in Nat
      /\ ALIGN(m.len) <= used
  <2>1. m.len \in Nat /\ m.len >= 8 /\ m.len <= Length - 8 /\ m.at \in Nat
    BY DEF IInv, TypeOK, Messages, Header
  <2>2. m.at + ALIGN(m.len) <= taken + used /\ ALIGN(m.len) \in Nat
    BY <2>1, AlignBounds DEF IInv, Chain
  <2>. QED
    BY <1>1, <2>1, <2>2, Numbers
<1>3. got[0].len = m.len
  BY <1>1 DEF Header, Byte
<1>4. ~(rx_avail < ALIGN(m.len))
  BY <1>2, Numbers, AlignBounds
<1>5. rop' = "advance"
      /\ got' = [k \in 0..m.len - 1 |->
                   IF k < Header THEN got[k] ELSE rx_peak(Header, m.len - Header)[k - Header]]
  BY <1>3, <1>4 DEF ReadRest
<1>6. rx_peak(Header, m.len - Header)
        = [k \in 0..(m.len - Header) - 1 |-> fifo[Wrap(tail + Header + k)]]
  <2>0. Length \in Nat
    BY Numbers
  <2>1. /\ TypeOK /\ Header \in Nat /\ m.len - Header \in Nat
        /\ Header < Length /\ Header + (m.len - Header) <= Length
    BY <1>2, <2>0 DEF IInv, Header
  <2>. QED
    BY <2>1, Peek
<1>7. ASSUME NEW k \in 0..m.len - 1
      PROVE  got'[k] = Byte(m.at + k, m.len)
  <2>1. CASE k < Header
    BY <1>1, <1>5, <1>7, <2>1 DEF Header
  <2>2. CASE k >= Header
    <3>1. k - Header \in 0..(m.len - Header) - 1 /\ ~(k < Header)
      BY <1>2, <1>7, <2>2 DEF Header
    <3>2. got'[k] = fifo[Wrap(tail + Header + (k - Header))]
      BY <1>5, <1>6, <1>7, <3>1
    <3>3. tail + Header + (k - Header) = tail + (m.at - taken) + k
      BY <1>1, <1>2, <1>7, Numbers DEF Header
    <3>. QED
      BY <1>7, <3>2, <3>3 DEF IInv, Content
  <2>. QED
    BY <1>7, <2>1, <2>2 DEF Header
<1>8. got' = [k \in 0..m.len - 1 |-> Byte(m.at + k, m.len)]
  BY <1>5, <1>7
<1>9. Reading'
  BY <1>1, <1>5, <1>8 DEF ReadRest, Reading, ReadsWhatWasSent, Byte
<1>. QED
  BY <1>5, <1>9, ReadKeeps DEF ReadRest

\* A message that was read leaves the ring, and the next one, if any, starts where it ended.
LEMMA AdvanceKeeps == IInv /\ Advance => IInv'
<1>. SUFFICES ASSUME IInv, Advance PROVE IInv'
  OBVIOUS
<1>0. /\ Length \in Nat /\ Length % 8 = 0 /\ Length >= 24
      /\ head \in Nat /\ head < Length /\ head % 8 = 0
      /\ tail \in Nat /\ tail < Length /\ tail % 8 = 0
      /\ used \in Nat /\ used % 8 = 0 /\ used <= Length - 8 /\ taken \in Nat
  BY Numbers
<1>1. PICK r \in pending : r.at = taken /\ got = [k \in 0..r.len - 1 |-> Byte(r.at + k, r.len)]
  BY DEF Advance, IInv, Reading, ReadsWhatWasSent, Byte
<1>. DEFINE c == ALIGN(r.len)
<1>2. \A m \in pending : /\ m.at \in Nat /\ m.len \in Nat /\ m.len >= 8
                         /\ ALIGN(m.len) \in Nat /\ m.len <= ALIGN(m.len) /\ ALIGN(m.len) % 8 = 0
                         /\ m.at >= taken /\ m.at + ALIGN(m.len) <= taken + used
  BY AlignBounds DEF IInv, TypeOK, Messages, Chain, Header
<1>3. c \in Nat /\ c % 8 = 0 /\ c >= 8 /\ c <= used
  BY <1>0, <1>1, <1>2, SMTT(30)
<1>4. /\ rop' = "idle" /\ tail' = Wrap(tail + c) /\ used' = used - c /\ taken' = taken + c
      /\ pending' = {m \in pending : m.at # taken}
      /\ UNCHANGED <<fifo, head, op, cur, msg, waiting, notified, got>>
  <2>1. got[0].len = r.len
    BY <1>1, <1>2 DEF Byte
  <2>. QED
    BY <2>1 DEF Advance, writer
<1>. HIDE DEF c
<1>5. /\ used' \in Nat /\ used' % 8 = 0 /\ used' <= used /\ taken' \in Nat
      /\ taken' + used' = taken + used
  BY <1>0, <1>3, <1>4
<1>6. tail' \in Nat /\ tail' < Length /\ tail' % 8 = 0
  BY <1>0, <1>3, <1>4 DEF Wrap
<1>7. \A m \in pending' : m \in pending /\ m # r /\ m.at >= taken'
  <2>1. ASSUME NEW m \in pending'
        PROVE  m \in pending /\ m # r /\ m.at >= taken'
    <3>1. m \in pending /\ m # r
      BY <1>1, <1>4
    <3>2. m.at + ALIGN(m.len) <= r.at \/ r.at + ALIGN(r.len) <= m.at
      BY <3>1 DEF IInv, Chain
    <3>3. m.at \in Nat /\ m.at >= taken /\ ALIGN(m.len) \in Nat /\ ALIGN(m.len) >= 8
      BY <1>2, <3>1
    <3>4. ~(m.at + ALIGN(m.len) <= r.at)
      BY <1>0, <1>1, <3>3
    <3>. QED
      BY <1>1, <1>4, <3>1, <3>2, <3>4 DEF c
  <2>. QED
    BY <2>1
<1>8. \A m \in pending : m.at > taken => m \in pending'
  BY <1>0, <1>2, <1>4
<1>9. TypeOK'
  BY <1>0, <1>4, <1>5, <1>6 DEF IInv, TypeOK, Align
<1>10. Room'
  <2>1. used' \in Align
    <3>1. used - c \in 0..Length /\ (used - c) % 8 = 0
      BY <1>0, <1>3
    <3>. QED
      BY <1>4, <3>1 DEF Align
  <2>2. Claimed' <= Claimed /\ Claimed \in Int /\ Claimed' \in Int
    <3>1. op # "idle" => Size(msg) \in Nat /\ ALIGN(Size(msg)) \in Nat
      BY SizeBounds, AlignBounds, Numbers
    <3>2. ALIGN(Size(msg))' = ALIGN(Size(msg))
      BY <1>4 DEF ALIGN, Size
    <3>. QED
      BY <1>0, <1>4, <1>5, <3>1, <3>2 DEF Claimed
  <2>3. Claimed' <= Length - 8 /\ (~notified' => Claimed' <= Length - 16)
    BY <1>0, <1>4, <2>2 DEF IInv, Room
  <2>. QED
    BY <1>4, <2>1, <2>3 DEF IInv, Room
<1>11. Heads'
  <2>1. head = Wrap(tail' + used')
    <3>1. Wrap(Wrap(tail + c) + (used - c)) = Wrap(tail + used)
      BY <1>0, <1>3 DEF Wrap
    <3>. QED
      BY <1>4, <3>1 DEF IInv, Heads
  <2>. QED
    BY <1>4, <2>1 DEF IInv, Heads, Wrap, Size
<1>12. Chain'
  <2>1. used' > 0 => \E m \in pending' : m.at = taken'
    <3>1. ASSUME used' > 0
          PROVE  \E m \in pending' : m.at = taken'
      <4>1. r.at + ALIGN(r.len) # taken + used
        BY <1>0, <1>1, <1>3, <1>4, <3>1 DEF c
      <4>2. PICK m \in pending : Follows(r, m)
        BY <4>1 DEF IInv, Chain
      <4>3. m.at = taken' /\ m.at > taken
        BY <1>0, <1>1, <1>3, <1>4, <4>2 DEF Follows, c
      <4>. QED
        BY <1>8, <4>3
    <3>. QED
      BY <3>1
  <2>2. ASSUME NEW m \in pending'
        PROVE  /\ m.at >= taken' /\ m.at + ALIGN(m.len) <= taken' + used'
               /\ m.at + ALIGN(m.len) = taken' + used' \/ \E o \in pending' : Follows(m, o)
    <3>1. m \in pending /\ m.at >= taken' /\ m.at + ALIGN(m.len) <= taken' + used'
      BY <1>2, <1>5, <1>7
    <3>2. CASE \E o \in pending : Follows(m, o)
      <4>1. PICK o \in pending : Follows(m, o)
        BY <3>2
      <4>2. o.at > taken
        BY <1>0, <1>2, <3>1, <4>1 DEF Follows
      <4>. QED
        BY <1>8, <3>1, <4>1, <4>2
    <3>3. CASE m.at + ALIGN(m.len) = taken + used
      BY <1>5, <3>1, <3>3
    <3>. QED
      BY <3>1, <3>2, <3>3 DEF IInv, Chain
  <2>3. \A m, o \in pending' : m # o => m.at + ALIGN(m.len) <= o.at \/ o.at + ALIGN(o.len) <= m.at
    BY <1>7 DEF IInv, Chain
  <2>. QED
    BY <2>1, <2>2, <2>3 DEF Chain, Follows, ALIGN
<1>13. Content'
  <2>1. ASSUME NEW m \in pending', NEW k \in 0..m.len - 1
        PROVE  fifo[Wrap(tail' + (m.at - taken') + k)] = Byte(m.at + k, m.len)
    <3>1. /\ m \in pending /\ m.at >= taken' /\ m.at \in Nat /\ m.len \in Nat /\ k \in Nat
          /\ (m.at - taken) + k < used
      <4>1. /\ m \in pending /\ m.at >= taken' /\ m.at \in Nat /\ m.len \in Nat
            /\ ALIGN(m.len) \in Nat /\ m.len <= ALIGN(m.len) /\ m.at + ALIGN(m.len) <= taken + used
        BY <1>2, <1>7
      <4>. QED
        BY <1>0, <2>1, <4>1
    <3>2. Wrap(Wrap(tail + c) + (m.at - (taken + c)) + k) = Wrap(tail + (m.at - taken) + k)
      BY <1>0, <1>3, <1>4, <3>1 DEF Wrap
    <3>. QED
      BY <1>4, <2>1, <3>1, <3>2 DEF IInv, Content
  <2>. QED
    BY <1>4, <2>1 DEF Content, Wrap
<1>14. Written'
  <2>1. taken' + used' = taken + used
    BY <1>5
  <2>. QED
    BY <1>4, <2>1 DEF IInv, Written, Wrap, Size
<1>15. Reading'
  BY <1>4 DEF Reading, ReadsWhatWasSent
<1>. QED
  BY <1>9, <1>10, <1>11, <1>12, <1>13, <1>14, <1>15 DEF IInv

-----------------------------------------------------------------------------
(* The theorems. *)

\* Every step of the pipes keeps the invariant.
LEMMA StepIInv == IInv /\ [Next]_vars => IInv'
<1>. SUFFICES ASSUME IInv, [Next]_vars PROVE IInv'
  OBVIOUS
<1>1. ASSUME NEW s \in Senders, NEW m \in Sizes, Send(s, m)
      PROVE  IInv'
  <2>1. \/ tx_avail >= Size(m) /\ Begin(m) /\ notified' = notified /\ waiting' = waiting
        \/ Blocked(s, m)
    BY <1>1 DEF Send
  <2>. QED
    BY <1>1, <2>1, TryKeeps DEF Send
<1>2. ASSUME NEW s \in Senders, Retry(s)
      PROVE  IInv'
  <2>1. waiting[s] \in Sizes
    BY <1>2 DEF Retry, IInv, TypeOK
  <2>2. \/ /\ tx_avail >= Size(waiting[s]) /\ Begin(waiting[s]) /\ notified' = FALSE
           /\ waiting' = [waiting EXCEPT ![s] = Nothing]
        \/ Blocked(s, waiting[s])
    BY <1>2 DEF Retry
  <2>. QED
    BY <1>2, <2>1, <2>2, TryKeeps DEF Retry
<1>3. CASE UNCHANGED vars
  <2>1. TypeOK' /\ Room' /\ Heads'
    BY <1>3 DEF vars, writer, reader, IInv, TypeOK, Room, Claimed, Heads, Size, Wrap
  <2>2. Chain' /\ Content'
    BY <1>3 DEF vars, writer, reader, IInv, Chain, Follows, Content, Wrap
  <2>3. Written' /\ Reading'
    BY <1>3 DEF vars, writer, reader, IInv, Written, Reading, ReadsWhatWasSent, Size, Wrap
  <2>. QED
    BY <2>1, <2>2, <2>3 DEF IInv
<1>. QED
  BY <1>1, <1>2, <1>3, WriteHeaderKeeps, WriteDataKeeps, PublishKeeps, ReadHeaderKeeps,
     ReadRestKeeps, AdvanceKeeps DEF Next, Write, Read, Trying, Over

\* The invariant on which the theorems below rest holds in every reachable state.
THEOREM IInvHolds == Spec => []IInv
<1>1. Init => IInv
  BY InitIInv
<1>2. IInv /\ [Next]_vars => IInv'
  BY StepIInv
<1>. QED
  BY <1>1, <1>2, PTL DEF Spec

\* Indices stay aligned and inside the ring, whatever is sent.
THEOREM TypeCorrect == Spec => []TypeOK
<1>1. IInv => TypeOK
  BY DEF IInv
<1>. QED
  BY <1>1, IInvHolds, PTL

\* The two reserves keep a full ring apart from an empty one, for any number of senders.
THEOREM NeverTakenForEmpty == Spec => []NeverFull
<1>1. IInv => NeverFull
  <2>. SUFFICES ASSUME IInv PROVE NeverFull
    OBVIOUS
  <2>1. used <= Length - 8 /\ used \in Nat /\ Length \in Nat
    BY Numbers
  <2>2. head = tail => used = 0
    BY Numbers DEF IInv, Heads, Wrap
  <2>. QED
    BY <2>1, <2>2 DEF NeverFull
<1>. QED
  BY <1>1, IInvHolds, PTL

\* Every message arrives whole and in its turn, for any length of the ring and any messages
\* that fit it.
THEOREM MessagesArriveWhole == Spec => []ReadsWhatWasSent
<1>1. IInv => ReadsWhatWasSent
  BY DEF IInv, Reading
<1>. QED
  BY <1>1, IInvHolds, PTL

-----------------------------------------------------------------------------
(* The refinement of MessageStream. *)

\* An empty ring is an empty stream.
LEMMA InitRefines == Init => Stream!Init
BY DEF Init, Stream!Init

\* Publish puts one message at the end of the stream, as long as a message can be, and
\* leaves no more under way than the ring holds short of its reserve.
LEMMA PublishRefines == ASSUME IInv, Publish PROVE Stream!Put
<1>. DEFINE n == Size(msg)
<1>1. op = "publish" /\ used' = used + ALIGN(n) /\ pending' = pending \cup {[at |-> taken + used, len |-> n]}
      /\ UNCHANGED <<taken, rop, got>>
  BY DEF Publish, reader
<1>2. msg \in Sizes \cup {READ_NOTIF} /\ Claimed <= Length - 8 /\ Claimed = used + ALIGN(n)
  BY <1>1 DEF IInv, Room, Claimed
<1>3. n \in Nat /\ ALIGN(n) \in Nat /\ n <= ALIGN(n)
  BY <1>2, SizeBounds, AlignBounds
<1>4. n \in {Size(m) : m \in Sizes \cup {READ_NOTIF}}
  BY <1>2
<1>5. /\ taken' + used' >= (taken + used) + n
      /\ taken' + used' <= taken + (Length - 8)
  <2>. HIDE DEF n
  <2>1. taken' + used' = (taken + used) + ALIGN(n) /\ Length \in Nat /\ used + ALIGN(n) <= Length - 8
    BY <1>1, <1>2, <1>3, Numbers
  <2>. QED
    BY <1>3, <2>1, Numbers
<1>. HIDE DEF n
<1>. QED
  BY <1>1, <1>4, <1>5 DEF Stream!Put

\* The receiver holds a message from the moment all of it was read.
LEMMA ReadRestRefines ==
  ASSUME IInv, IInv', ReadRest PROVE \E m \in pending : Stream!Take(m)
<1>1. rop = "rest" /\ UNCHANGED <<used, taken, pending>>
  BY DEF ReadRest
<1>2. PICK m \in pending : m.at = taken /\ got = [k \in 0..Header - 1 |-> Byte(m.at + k, m.len)]
  BY <1>1 DEF IInv, Reading
<1>3. rop' = "advance"
  <2>1. got[0].len = m.len
    BY <1>2 DEF Header, Byte
  <2>2. m.len \in Nat /\ m.at \in Nat /\ ALIGN(m.len) \in Nat /\ m.at + ALIGN(m.len) <= taken + used
    BY <1>2, AlignBounds DEF IInv, TypeOK, Messages, Chain
  <2>3. ~(rx_avail < ALIGN(m.len))
    BY <1>2, <2>2, Numbers
  <2>. QED
    BY <2>1, <2>3 DEF ReadRest
<1>4. PICK r \in pending : r.at = taken /\ got' = Stream!Content(r)
  BY <1>1, <1>3 DEF IInv, Reading, ReadsWhatWasSent, Stream!Content
<1>. QED
  BY <1>1, <1>3, <1>4 DEF Stream!Take

\* One message leaves, the one that was read, and the next one is the first of the rest.
LEMMA AdvanceRefines ==
  ASSUME IInv, Advance PROVE \E m \in pending : Stream!Remove(m)
<1>1. PICK r \in pending : r.at = taken /\ got = Stream!Content(r)
  BY DEF Advance, IInv, Reading, ReadsWhatWasSent, Stream!Content
<1>. DEFINE c == ALIGN(r.len)
<1>2. \A m \in pending : /\ m.at \in Nat /\ m.len \in Nat /\ m.len >= 8
                         /\ ALIGN(m.len) \in Nat /\ m.len <= ALIGN(m.len)
                         /\ m.at >= taken /\ m.at + ALIGN(m.len) <= taken + used
  BY AlignBounds DEF IInv, TypeOK, Messages, Chain, Header
<1>3. c \in Nat /\ c >= 8 /\ taken \in Nat /\ used \in Nat
  BY <1>1, <1>2, Numbers
<1>4. /\ rop = "advance" /\ rop' = "idle" /\ used' = used - c /\ taken' = taken + c
      /\ pending' = {m \in pending : m.at # taken}
  <2>1. got[0].len = r.len
    BY <1>1, <1>2 DEF Stream!Content
  <2>. QED
    BY <2>1 DEF Advance
<1>. HIDE DEF c
<1>5. \A m \in pending : m # r => m.at >= taken'
  <2>. SUFFICES ASSUME NEW m \in pending, m # r PROVE m.at >= taken'
    OBVIOUS
  <2>1. m.at + ALIGN(m.len) <= r.at \/ r.at + ALIGN(r.len) <= m.at
    BY DEF IInv, Chain
  <2>2. ~(m.at + ALIGN(m.len) <= r.at)
    BY <1>1, <1>2, <1>3
  <2>. QED
    BY <1>1, <1>4, <2>1, <2>2 DEF c
<1>6. pending' = pending \ {r}
  BY <1>1, <1>2, <1>3, <1>4, <1>5
<1>7. taken' + used' = taken + used
  BY <1>3, <1>4
<1>8. taken' \in {taken + used} \cup {m.at : m \in pending'}
  <2>1. CASE r.at + ALIGN(r.len) = taken + used
    BY <1>1, <1>4, <2>1 DEF c
  <2>2. CASE \E m \in pending : Follows(r, m)
    <3>1. PICK m \in pending : m.at = taken' /\ m # r
      BY <1>1, <1>3, <1>4, <2>2 DEF Follows, c
    <3>. QED
      BY <1>6, <3>1
  <2>. QED
    BY <2>1, <2>2 DEF IInv, Chain
<1>9. \A m \in pending' : taken' <= m.at
  BY <1>2, <1>3, <1>4, <1>5, <1>6
<1>. QED
  BY <1>1, <1>4, <1>6, <1>7, <1>8, <1>9 DEF Stream!Remove

\* A step of the pipes is a step of the stream or none.
LEMMA StepRefines == ASSUME IInv, [Next]_vars PROVE [Stream!Next]_(Stream!vars)
<1>1. CASE Publish
  BY <1>1, PublishRefines DEF Stream!Next
<1>2. CASE ReadRest
  BY <1>2, StepIInv, ReadRestRefines DEF Stream!Next
<1>3. CASE Advance
  BY <1>3, AdvanceRefines DEF Stream!Next
<1>4. CASE ~(Publish \/ ReadRest \/ Advance)
  <2>1. UNCHANGED <<used, taken, pending>>
    BY <1>4 DEF Next, Write, Read, Trying, Over, vars, Send, Retry, WriteHeader, WriteData, ReadHeader
  <2>2. CASE ReadHeader
    BY <2>1, <2>2 DEF ReadHeader, Stream!vars
  <2>3. CASE ~ReadHeader
    <3>1. UNCHANGED <<rop, got>>
      BY <1>4, <2>3 DEF Next, Write, Read, Trying, Over, vars, reader, Send, Retry, WriteHeader, WriteData
    <3>. QED
      BY <2>1, <3>1 DEF Stream!vars
  <2>. QED
    BY <2>2, <2>3
<1>. QED
  BY <1>1, <1>2, <1>3, <1>4

\* The ring implements MessageStream for every length, any senders and any messages that fit:
\* received in order, each once and whole, and never before its head was published.
THEOREM StreamImplemented == Spec => StreamSpec
<1>1. Init => Stream!Init
  BY InitRefines
<1>2. IInv /\ [Next]_vars => [Stream!Next]_(Stream!vars)
  BY StepRefines
<1>. QED
  BY <1>1, <1>2, IInvHolds, PTL DEF Spec, StreamSpec, Stream!Spec

-----------------------------------------------------------------------------
(* What the liveness of the transport rests on. *)

\* An empty ring has room for any message; a ring that is not empty shows the receiver a header;
\* and behind a header all of its message is there, so the receiver never has to wait for the
\* rest of one: the early return of ReadRest is not taken.
NothingStuck ==
  /\ used = 0 => \A m \in Sizes : tx_avail >= Size(m)
  /\ used > 0 => rx_avail >= Header
  /\ rop = "rest" => rx_avail >= ALIGN(got[0].len)

\* Neither side waits for what the other will not do: the sender of any message finds room once the
\* receiver has emptied the ring, and the receiver finds whole messages only
\* (glink_spss_tx_avail against the two reserves, qcom_glink_native_rx). SentAtLast rests on it.
THEOREM NeverStuck == Spec => []NothingStuck
<1>1. IInv => NothingStuck
  <2>. SUFFICES ASSUME IInv PROVE NothingStuck
    OBVIOUS
  <2>1. used = 0 => \A m \in Sizes : tx_avail >= Size(m)
    BY Numbers, SizesAssumption DEF Size, Reserve, FIFO_FULL_RESERVE, TX_BLOCKED_CMD_RESERVE
  <2>2. used > 0 => rx_avail >= Header
    BY Numbers DEF Header
  <2>3. ASSUME rop = "rest" PROVE rx_avail >= ALIGN(got[0].len)
    <3>1. PICK m \in pending : m.at = taken /\ got = [k \in 0..Header - 1 |-> Byte(m.at + k, m.len)]
      BY <2>3 DEF IInv, Reading
    <3>2. got[0].len = m.len
      BY <3>1 DEF Header, Byte
    <3>3. m.len \in Nat /\ m.at \in Nat /\ ALIGN(m.len) \in Nat /\ m.at + ALIGN(m.len) <= taken + used
      BY <3>1, AlignBounds DEF IInv, TypeOK, Messages, Chain
    <3>. QED
      BY <3>1, <3>2, <3>3, Numbers
  <2>. QED
    BY <2>1, <2>2, <2>3 DEF NothingStuck
<1>. QED
  BY <1>1, IInvHolds, PTL
=============================================================================
