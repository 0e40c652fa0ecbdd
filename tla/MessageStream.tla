--------------------------- MODULE MessageStream ---------------------------
(***************************************************************************)
(* What a ring promises its two processors: messages leave one after the   *)
(* other in the order in which they were sent, each once and whole, and no *)
(* more of them are under way than fit.                                    *)
(*                                                                         *)
(* A message is named by its place in the stream of all bytes ever sent;   *)
(* bytes may be left out between two messages. GlinkFifo implements this   *)
(* specification.                                                          *)
(***************************************************************************)
EXTENDS Naturals

CONSTANTS Lengths,  \* the lengths of messages
          Capacity  \* how much of the stream may be under way

VARIABLES sent,     \* the end of the last message that was sent
          read,     \* the beginning of the next one to be received
          messages, \* those in between
          hand      \* what the receiver holds: nothing, or the bytes of one message

vars == <<sent, read, messages, hand>>

Content(m) == [k \in 0..m.len - 1 |-> [at |-> m.at + k, len |-> m.len]]

Init == sent = 0 /\ read = 0 /\ messages = {} /\ hand = {}

Put ==
  \E n \in Lengths :
    /\ messages' = messages \cup {[at |-> sent, len |-> n]}
    /\ sent' >= sent + n /\ sent' <= read + Capacity
    /\ UNCHANGED <<read, hand>>

Take(m) ==
  /\ hand = {} /\ m.at = read
  /\ hand' = {Content(m)}
  /\ UNCHANGED <<sent, read, messages>>

\* The next one to be received is the first of those that are left.
Remove(m) ==
  /\ hand = {Content(m)} /\ m.at = read
  /\ hand' = {} /\ messages' = messages \ {m}
  /\ read' \in {sent} \cup {n.at : n \in messages'}
  /\ \A n \in messages' : read' <= n.at
  /\ UNCHANGED sent

Next == Put \/ \E m \in messages : Take(m) \/ Remove(m)

Spec == Init /\ [][Next]_vars
=============================================================================
