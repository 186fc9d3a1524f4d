------------------------------- MODULE NeqoClient -------------------------------
(***************************************************************************)
(* The perf client on top of neqo (iut/neqo/src/client.rs): connect and    *)
(* run, each a drive_until around the synchronous neqo Connection.         *)
(*                                                                         *)
(* A round of drive_until has four steps: the closure `done` handles the   *)
(* library's events; the library's datagrams are sent, waiting while the   *)
(* socket is full; if that raised events, the round ends; otherwise the    *)
(* task sleeps until the socket is readable or the library's timer fires.  *)
(* Everything between two awaits is one action.                            *)
(*                                                                         *)
(* neqo-transport, the socket and the server are external.                 *)
(***************************************************************************)
EXTENDS Naturals

CONSTANTS
  Sizes,    \* the blob sizes that may be requested
  Replies   \* the lengths that a response may have, whatever was asked for

ASSUME SizesAssumption == Sizes \subseteq Nat
ASSUME RepliesAssumption == Replies \subseteq Nat

VARIABLES
  \* the task
  call,        \* "connect" or "run" while it is awaited; "ok" or "failed"
  step,        \* "done", "output", "blocked" (socket full) or "wait"
  timeout,     \* drive_until's local: the library has given a timer
  size,        \* the requested blob size
  received,    \* run's counter
  response_done,
  \* the library
  state,       \* "init", "auth", "authenticated", "connected", "draining", "closed"
  reason,      \* why it drains or has closed: "none", "error" or "clean"
  events,      \* what next_event() has still to return
  unsent,      \* it has datagrams to send
  written,     \* the request is in the stream's send buffer
  buffered,    \* response bytes that have been put into the stream
  bufferedFin, \* so has the end of the response
  expired,     \* its idle or draining period is over
  \* the socket: what the datagrams in its receive buffer carry
  socket,      \* [readable, flight, data, fin, close]
  \* the network and the server
  initialSent, requestSent,   \* datagrams with the Initial, the request
  reply,       \* the length of the server's response
  sent, sentFin               \* what the server has sent of it

taskVars == <<call, step, timeout, size, received, response_done>>
libVars == <<state, reason, events, unsent, written, buffered, bufferedFin, expired>>
serverVars == <<initialSent, requestSent, reply, sent, sentFin>>
vars == <<taskVars, libVars, socket, serverVars>>

EmptySocket ==
  [readable |-> FALSE, flight |-> FALSE, data |-> 0, fin |-> FALSE, close |-> "none"]

\* The server's response may be too short or too long.
Init ==
  /\ call = "connect" /\ step = "done" /\ timeout = FALSE
  /\ size \in Sizes /\ received = 0 /\ response_done = FALSE
  /\ state = "init" /\ reason = "none" /\ events = {} /\ unsent = TRUE
  /\ written = FALSE /\ buffered = 0 /\ bufferedFin = FALSE /\ expired = FALSE
  /\ socket = EmptySocket
  /\ initialSent = FALSE /\ requestSent = FALSE
  /\ reply \in Replies /\ sent = 0 /\ sentFin = FALSE

Active == call \in {"connect", "run"}

-----------------------------------------------------------------------------
(***************************************************************************)
(* Step 1: the closures, which take every event there is.                  *)
(***************************************************************************)

\* connect: AuthenticationNeeded is answered; an error ends the call, and so
\* does the connection being up; run then writes the request before its first
\* round of drive_until.
ConnectDone ==
  /\ call = "connect" /\ step = "done"
  /\ events' = {}
  /\ IF {"Draining", "Closed"} \cap events # {} /\ reason = "error"
     THEN call' = "failed" /\ UNCHANGED <<step, state, unsent, written>>
     ELSE IF "Connected" \in events
     THEN /\ IF state = "connected"
             THEN call' = "run" /\ written' = TRUE /\ unsent' = TRUE
             ELSE call' = "failed" /\ UNCHANGED <<written, unsent>>  \* stream_create
          /\ UNCHANGED <<step, state>>
     ELSE /\ IF "AuthenticationNeeded" \in events /\ state = "auth"
             THEN state' = "authenticated" /\ unsent' = TRUE
             ELSE UNCHANGED <<state, unsent>>
          /\ step' = "output"
          /\ UNCHANGED <<call, written>>
  /\ UNCHANGED <<timeout, size, received, response_done, reason, buffered,
                 bufferedFin, expired, socket, serverVars>>

\* run: a readable response stream is read to what has arrived.  A stream whose
\* connection has gone is not read: stream_recv fails.
ReadsStream == "RecvStreamReadable" \in events /\ state = "connected"

\* Variant: the bytes of an earlier read are counted again.
ReadTwice == received + buffered

\* received, once the stream has been read to what has arrived.
ReadToEnd == buffered

\* Variant: a response that is too long is accepted.
RunResultAtLeast(length) == IF length >= size THEN "ok" ELSE "failed"

\* What run returns when the response has ended.
RunResult(length) == IF length = size THEN "ok" ELSE "failed"

RunDone ==
  /\ call = "run" /\ step = "done"
  /\ events' = {}
  /\ IF \/ "RecvStreamReadable" \in events /\ state # "connected"
        \/ "Closed" \in events /\ reason = "error"
     THEN call' = "failed" /\ UNCHANGED <<step, received, response_done>>
     ELSE /\ received' = IF ReadsStream THEN ReadToEnd ELSE received
          /\ response_done' = (response_done \/ (ReadsStream /\ bufferedFin))
          /\ IF response_done'
             THEN call' = RunResult(received') /\ UNCHANGED step
             ELSE step' = "output" /\ UNCHANGED call
  /\ UNCHANGED <<timeout, size, state, reason, unsent, written, buffered,
                 bufferedFin, expired, socket, serverVars>>

-----------------------------------------------------------------------------
(***************************************************************************)
(* Steps 2 and 3: output.                                                  *)
(***************************************************************************)

\* A batch is sent ...
SendBatch ==
  /\ Active /\ step = "output" /\ unsent
  /\ unsent' = FALSE
  /\ initialSent' = TRUE
  /\ requestSent' = (requestSent \/ written)
  /\ UNCHANGED <<taskVars, state, reason, events, written, buffered, bufferedFin,
                 expired, socket, reply, sent, sentFin>>

\* ... or the socket is full, and the task awaits writable() ...
SendBlocked ==
  /\ Active /\ step = "output" /\ unsent
  /\ step' = "blocked"
  /\ UNCHANGED <<call, timeout, size, received, response_done, libVars, socket, serverVars>>

Writable ==
  /\ Active /\ step = "blocked"
  /\ step' = "output"
  /\ UNCHANGED <<call, timeout, size, received, response_done, libVars, socket, serverVars>>

\* The call ends when sending or receiving fails, or waiting for the socket does.
SocketError ==
  /\ Active
  /\ (step = "output" /\ unsent) \/ step \in {"blocked", "wait"}
  /\ call' = "failed"
  /\ UNCHANGED <<step, timeout, size, received, response_done, libVars, socket, serverVars>>

\* What the library's own work in process_multiple_output does to it: it goes on
\* with an authenticated handshake, and closes when a period is over.
LibraryWorks ==
  /\ state' = IF expired THEN "closed"
              ELSE IF state = "authenticated" THEN "connected" ELSE state
  /\ reason' = IF expired /\ reason = "none" THEN "error" ELSE reason
  /\ events' = IF state' = state THEN events
               ELSE events \cup {IF expired THEN "Closed" ELSE "Connected"}
  /\ expired' = FALSE

\* Variant: step 3 is left out.
NextStepSleeps == "wait"

\* Step 3: has_events.
NextStep == IF events' # {} THEN "done" ELSE "wait"

\* The library has nothing more to send: it gives its timer, unless closed.
OutputDone ==
  /\ Active /\ step = "output" /\ ~unsent
  /\ LibraryWorks
  /\ timeout' = (state' # "closed")
  /\ step' = NextStep
  /\ UNCHANGED <<call, size, received, response_done, unsent, written, buffered,
                 bufferedFin, socket, serverVars>>

-----------------------------------------------------------------------------
(***************************************************************************)
(* Step 4: the socket is readable, or the timer fires.                     *)
(***************************************************************************)

\* All datagrams in the socket are given to the library.
InputEvents ==
  (IF socket.flight /\ state = "init" THEN {"AuthenticationNeeded"} ELSE {})
  \cup (IF socket.data > buffered \/ (socket.fin /\ ~bufferedFin)
        THEN {"RecvStreamReadable"} ELSE {})
  \cup (IF socket.close # "none" THEN {"Draining"} ELSE {})

SocketReadable ==
  /\ Active /\ step = "wait" /\ socket.readable
  /\ socket' = EmptySocket
  /\ step' = "done"
  /\ events' = events \cup InputEvents
  /\ state' = IF socket.close # "none" THEN "draining"
              ELSE IF socket.flight /\ state = "init" THEN "auth" ELSE state
  /\ reason' = socket.close
  /\ buffered' = IF socket.data > buffered THEN socket.data ELSE buffered
  /\ bufferedFin' = (bufferedFin \/ socket.fin)
  /\ unsent' = (socket.close = "none")
  /\ UNCHANGED <<call, timeout, size, received, response_done, written, expired, serverVars>>

\* The timer is that of a retransmission or of the idle or draining period.  The
\* select is biased: a readable socket comes first.
TimerFires ==
  /\ Active /\ step = "wait" /\ timeout /\ ~socket.readable
  /\ step' = "done"
  /\ expired' \in (IF state = "draining" THEN {TRUE} ELSE BOOLEAN)
  /\ unsent' = (unsent \/ (~expired' /\ state # "draining"))
  /\ UNCHANGED <<call, timeout, size, received, response_done, state, reason, events,
                 written, buffered, bufferedFin, socket, serverVars>>

-----------------------------------------------------------------------------
(***************************************************************************)
(* The server and the network.  Datagrams may be lost: what is sent is in  *)
(* the socket when a retransmission arrives.                               *)
(***************************************************************************)
Arrive(s) ==
  /\ socket' = [s EXCEPT !.readable = TRUE]
  /\ UNCHANGED <<taskVars, libVars, initialSent, requestSent, reply>>

\* A closed connection is answered no more.
Alive == socket.close = "none" /\ reason = "none"

Flight ==
  /\ Alive
  /\ initialSent /\ state = "init" /\ ~socket.flight
  /\ Arrive([socket EXCEPT !.flight = TRUE])
  /\ UNCHANGED <<sent, sentFin>>

Response(n, fin) ==
  /\ Alive
  /\ requestSent /\ ~bufferedFin
  /\ sent' = n
  /\ fin => n = reply
  /\ sentFin' = (sentFin \/ fin)
  /\ Arrive([socket EXCEPT !.data = n, !.fin = @ \/ fin])
  /\ socket' # socket

Respond == \E n \in sent .. reply, fin \in BOOLEAN : Response(n, fin)

\* The server closes the connection, with an error or as it would after the
\* exchange.
ServerCloses(how) ==
  /\ Alive
  /\ initialSent
  /\ Arrive([socket EXCEPT !.close = how])
  /\ UNCHANGED <<sent, sentFin>>

Server == Flight \/ Respond \/ \E how \in {"error", "clean"} : ServerCloses(how)

-----------------------------------------------------------------------------
Output == SendBatch \/ SendBlocked \/ Writable \/ OutputDone

Next ==
  ConnectDone \/ RunDone \/ Output \/ SocketReadable \/ TimerFires \/ SocketError \/ Server

Spec == Init /\ [][Next]_vars

(***************************************************************************)
(* The task is scheduled, the socket does not stay full, the timer fires,  *)
(* and the server answers.                                                 *)
(***************************************************************************)
Fairness ==
  /\ WF_vars(ConnectDone) /\ WF_vars(RunDone)
  /\ SF_vars(SendBatch) /\ WF_vars(Writable) /\ WF_vars(OutputDone)
  /\ WF_vars(SocketReadable) /\ WF_vars(TimerFires)
  /\ WF_vars(Flight) /\ WF_vars(Response(reply, TRUE))

FairSpec == Spec /\ Fairness

-----------------------------------------------------------------------------
\* Type invariant of the task, the library and the socket; run's counter stays within
\* the response, in whatever pieces and however often it is read.
TypeOK ==
  /\ call \in {"connect", "run", "ok", "failed"}
  /\ step \in {"done", "output", "blocked", "wait"}
  /\ state \in {"init", "auth", "authenticated", "connected", "draining", "closed"}
  /\ reason \in {"none", "error", "clean"}
  /\ events \subseteq {"AuthenticationNeeded", "Connected", "RecvStreamReadable",
                       "Draining", "Closed"}
  /\ {timeout, response_done, unsent, written, bufferedFin, expired} \subseteq BOOLEAN
  /\ size \in Sizes /\ reply \in Replies /\ {received, buffered} \subseteq 0 .. reply
  /\ socket \in [readable : BOOLEAN, flight : BOOLEAN, data : Nat, fin : BOOLEAN,
                 close : {"none", "error", "clean"}]

\* connect and run come to an end, unless the server closes the connection
\* without an error: then nothing wakes the task any more.
CallsReturn == Active ~> ~Active \/ reason = "clean"

\* The client implements the exchange of docs/PROTOCOL.md whatever the length of the
\* response: an exchange with more bytes than were asked for is broken, and run must
\* not succeed with it.
Overrun == received > size

Exchange == INSTANCE PerfExchange WITH
  Clients   <- {"client"},
  phase     <- [c \in {"client"} |->
                  IF ~written THEN "idle"
                  ELSE IF call = "failed" \/ Overrun THEN "lost" ELSE "open"],
  requested <- [c \in {"client"} |-> IF written THEN size ELSE 0],
  delivered <- [c \in {"client"} |-> IF Overrun THEN size ELSE received],
  finished  <- [c \in {"client"} |-> call = "ok"]

ImplementsExchange == Exchange!Spec
=============================================================================
