-------------------------------- MODULE Turns --------------------------------
(***************************************************************************)
(* What a sharable channel promises its processes: they take turns, and a  *)
(* turn is one exchange. Who has the turn asks once, may be given one      *)
(* answer with the number of its request, and leaves with nothing of the   *)
(* exchange left behind. Nobody else asks or is given anything meanwhile.  *)
(* Timeouts, retries, ends of processes and restarts of the processor, the *)
(* packets and the buffer they arrive in, show only as answers that do not *)
(* come.                                                                   *)
(***************************************************************************)
CONSTANTS
  Clients,    \* who takes turns
  None        \* nobody; no request; no answer

VARIABLES
  turn,       \* who has the turn
  asked,      \* the request of each
  got         \* the answer each was given

vars == <<turn, asked, got>>

Init ==
  /\ turn = None
  /\ asked = [c \in Clients |-> None] /\ got = [c \in Clients |-> None]

Take(c) ==
  /\ turn = None /\ turn' = c
  /\ UNCHANGED <<asked, got>>

Ask(c) ==
  /\ turn = c /\ asked[c] = None /\ got[c] = None
  /\ asked' = [asked EXCEPT ![c] = asked'[c]] /\ asked'[c] # None
  /\ UNCHANGED <<turn, got>>

Give(c) ==
  /\ turn = c /\ asked[c] # None /\ got[c] = None
  /\ got' = [got EXCEPT ![c] = got'[c]] /\ got'[c] # None
  /\ got'[c].txn = asked[c].txn
  /\ UNCHANGED <<turn, asked>>

Leave(c) ==
  /\ turn = c /\ turn' = None
  /\ asked' = [asked EXCEPT ![c] = None] /\ got' = [got EXCEPT ![c] = None]

Next == \E c \in Clients : Take(c) \/ Ask(c) \/ Give(c) \/ Leave(c)

Spec == Init /\ [][Next]_vars
=============================================================================
