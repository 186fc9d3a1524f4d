------------------------------ MODULE PerfExchange ------------------------------
(***************************************************************************)
(* What the perf protocol (docs/PROTOCOL.md) promises the client of every  *)
(* implementation under test, whatever library carries it: a client opens  *)
(* one stream and asks for a number of bytes; it is handed bytes of the    *)
(* blob, never more than it asked for; and when the stream ends, it has    *)
(* been handed exactly that many.  A connection may also be lost.          *)
(*                                                                         *)
(* The modules of the implementations state that they implement Spec.      *)
(***************************************************************************)
EXTENDS Naturals

CONSTANTS
  Clients,   \* the clients (or connections) that run an exchange
  Sizes      \* the blob sizes that are requested, natural numbers

VARIABLES
  phase,      \* phase[c]: "idle", "open" or "lost"
  requested,  \* requested[c]: the size in c's request, once c is open
  delivered,  \* delivered[c]: bytes of the response handed to c
  finished    \* finished[c]: c has seen the end of the response stream

vars == <<phase, requested, delivered, finished>>

TypeOK ==
  /\ phase \in [Clients -> {"idle", "open", "lost"}]
  /\ requested \in [Clients -> Sizes \cup {0}]
  /\ delivered \in [Clients -> Nat]
  /\ finished \in [Clients -> BOOLEAN]

Init ==
  /\ phase = [c \in Clients |-> "idle"]
  /\ requested = [c \in Clients |-> 0]
  /\ delivered = [c \in Clients |-> 0]
  /\ finished = [c \in Clients |-> FALSE]

Request(c) ==
  /\ phase[c] = "idle"
  /\ phase' = [phase EXCEPT ![c] = "open"]
  /\ \E s \in Sizes : requested' = [requested EXCEPT ![c] = s]
  /\ UNCHANGED <<delivered, finished>>

\* Some more of the blob; the end of the stream only with the last of it.
Deliver(c) ==
  /\ phase[c] = "open"
  /\ ~finished[c]
  /\ \E n \in delivered[c] .. requested[c] :
       /\ delivered' = [delivered EXCEPT ![c] = n]
       /\ \/ UNCHANGED finished
          \/ /\ n = requested[c]
             /\ finished' = [finished EXCEPT ![c] = TRUE]
  /\ UNCHANGED <<phase, requested>>

\* The client may still be handed what had arrived.
Lose(c) ==
  /\ phase[c] = "open"
  /\ phase' = [phase EXCEPT ![c] = "lost"]
  /\ \E n \in delivered[c] .. requested[c] : delivered' = [delivered EXCEPT ![c] = n]
  /\ UNCHANGED <<requested, finished>>

Next == \E c \in Clients : Request(c) \/ Deliver(c) \/ Lose(c)

Spec == Init /\ [][Next]_vars
=============================================================================
