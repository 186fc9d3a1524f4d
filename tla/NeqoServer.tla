------------------------------- MODULE NeqoServer -------------------------------
(***************************************************************************)
(* The perf server on top of neqo (iut/neqo/src/server.rs).                *)
(*                                                                         *)
(* One task runs Server::listen: it drains the application events of every *)
(* connection, sends what the library wants sent, and waits for one UDP    *)
(* datagram or for the library's timer.  Handlers are synchronous, so each *)
(* is one action, and the next datagram is processed only after the events *)
(* of the previous one are drained and the output is on the wire: `pc`.    *)
(*                                                                         *)
(* The handlers share one HashMap<StreamId, StreamState>.  A StreamId is   *)
(* unique within its connection only, and every client opens one stream,   *)
(* so every exchange of every connection uses the same key.                *)
(*                                                                         *)
(* neqo-transport and the clients are external: they are modelled from the *)
(* way the server uses them (the section "The library and the clients").   *)
(*                                                                         *)
(* A response is a number of zero bytes, so it is modelled by its length.  *)
(* The 8-byte header is modelled by two big-endian digits.                 *)
(***************************************************************************)
EXTENDS Naturals, Sequences

CONSTANTS
  Conns,     \* the connections, one client each
  Base,      \* the number of values of a header digit
  Sizes,     \* the blob sizes that clients request
  Window,    \* the stream flow-control window the clients grant
  Overlap,   \* TRUE: an exchange may begin while another is in progress
  None       \* Option::None

ASSUME BaseAssumption == Base \in Nat \ {0}
ASSUME SizesAssumption == Sizes \subseteq 0 .. (Base * Base - 1)
ASSUME WindowAssumption == Window \in Nat \ {0}
ASSUME OverlapAssumption == Overlap \in BOOLEAN

VARIABLES
  \* Server::listen
  pc,             \* "wait", "events", "output", or "stopped" (listen returned)
  stream_states,  \* the HashMap: None, or [read_buf, write_remaining]
  \* the library's side of each connection
  conn,           \* "idle", "open" or "closed"
  events,         \* what next_event() has still to return
  opened,         \* a frame of the client's stream has arrived
  arrived,        \* digits of the request received from the network
  read,           \* digits of the request taken with stream_recv
  reqFin,         \* the end of the request: "absent", "arrived" or "read"
  sent,           \* response bytes accepted by stream_send
  finSent,        \* stream_close_send has succeeded
  limit,          \* flow-control limit known to the library
  \* the network and the clients
  size,           \* the blob size the client of the connection requests
  wired,          \* response bytes in datagrams handed to the socket
  wiredFin,       \* so is the end of the response
  got             \* response bytes the client has received

serverVars == <<pc, stream_states>>
recvVars   == <<opened, arrived, read, reqFin>>
sendVars   == <<sent, finSent>>
clientVars == <<size, wired, wiredFin, got>>
vars == <<serverVars, conn, events, recvVars, sendVars, limit, clientVars>>

-----------------------------------------------------------------------------
\* The request header: Request::to_bytes and Blob::try_from.

HeaderLen == 2
Digit == 0 .. Base - 1

ToBytes(n) == <<n \div Base, n % Base>>
\* Variant: the digits are read in the wrong order.
FromBytesSwapped(b) == Base * b[2] + b[1]

FromBytes(b) == Base * b[1] + b[2]

\* The first stream that a client opens, the key of every exchange.
FirstStream == 0
StreamIds == {FirstStream}

StreamState == [read_buf : Seq(Digit), write_remaining : Nat \cup {None}]

ASSUME NoneAssumption == None \notin Nat \cup StreamState

NewStreamState == [read_buf |-> <<>>, write_remaining |-> None]

-----------------------------------------------------------------------------
Init ==
  /\ pc = "events"
  /\ stream_states = [id \in StreamIds |-> None]
  /\ conn = [c \in Conns |-> "idle"]
  /\ events = [c \in Conns |-> {}]
  /\ opened = [c \in Conns |-> FALSE]
  /\ arrived = [c \in Conns |-> 0]
  /\ read = [c \in Conns |-> 0]
  /\ reqFin = [c \in Conns |-> "absent"]
  /\ sent = [c \in Conns |-> 0]
  /\ finSent = [c \in Conns |-> FALSE]
  /\ limit = [c \in Conns |-> Window]
  /\ size = [c \in Conns |-> 0]
  /\ wired = [c \in Conns |-> 0]
  /\ wiredFin = [c \in Conns |-> FALSE]
  /\ got = [c \in Conns |-> 0]

-----------------------------------------------------------------------------
(***************************************************************************)
(* The handlers.  They work on a stream: its entry in the map and the send *)
(* side of the library's stream, [read_buf, write_remaining, sent, fin].   *)
(***************************************************************************)
StreamOf(c) ==
  [ read_buf        |-> stream_states[FirstStream].read_buf,
    write_remaining |-> stream_states[FirstStream].write_remaining,
    sent            |-> sent[c],
    fin             |-> finSent[c] ]

Lesser(m, n) == IF m <= n THEN m ELSE n

\* stream_send fails: the send side is closed, or the connection is.
SendFails(c, s) == s.fin \/ conn[c] = "closed"

\* Variant: the last chunk is not cut to what remains.
AcceptedUncut(c, s) == limit[c] - s.sent

\* The chunks that the loop of try_send_response gets accepted, together.
Accepted(c, s) == Lesser(s.write_remaining, limit[c] - s.sent)

\* Variant: the stream is closed when flow control stops the loop.
TrySendClosing(c, s) ==
  IF s.write_remaining = None \/ SendFails(c, s)
  THEN [s EXCEPT !.write_remaining = None]
  ELSE [s EXCEPT !.write_remaining = None, !.sent = @ + Accepted(c, s), !.fin = TRUE]

\* Variant: the stream is not closed after the last byte.
TrySendOpen(c, s) ==
  IF s.write_remaining = None \/ SendFails(c, s)
  THEN [s EXCEPT !.write_remaining = None]
  ELSE LET n == Accepted(c, s)
       IN [s EXCEPT !.write_remaining = IF n = @ THEN None ELSE @ - n, !.sent = @ + n]

try_send_response(c, s) ==
  CASE s.write_remaining = None -> s
    [] s.write_remaining # None /\ SendFails(c, s) ->
         [s EXCEPT !.write_remaining = None]
    [] OTHER ->
         LET n == Accepted(c, s)
             done == n = s.write_remaining
         IN [s EXCEPT !.write_remaining = IF done THEN None ELSE @ - n,
                      !.sent = @ + n,
                      !.fin = done]

\* Parse the header if it is complete and nothing is being sent.
ParseRequest(s) ==
  IF s.write_remaining = None /\ Len(s.read_buf) >= HeaderLen
  THEN [s EXCEPT !.write_remaining = FromBytes(s.read_buf)]
  ELSE s

\* The digits that stream_recv returns.
Unread(c) == SubSeq(ToBytes(size[c]), read[c] + 1, arrived[c])

\* The body of the loop of read_request, after stream_recv.
ReadPass(c, s) == try_send_response(c, ParseRequest(s))

(***************************************************************************)
(* The loop of read_request: the first stream_recv returns all that has    *)
(* arrived.  Unless it also returned the end of the stream or nothing, a   *)
(* second one returns nothing; the body then runs again, with the same     *)
(* read_buf.                                                               *)
(***************************************************************************)
read_request(c, s) ==
  LET once == ReadPass(c, [s EXCEPT !.read_buf = @ \o Unread(c)])
  IN IF reqFin[c] = "arrived" \/ read[c] = arrived[c] THEN once ELSE ReadPass(c, once)

\* The state after a handler has run on stream s of connection c.
StreamBecomes(c, s) ==
  /\ stream_states' = [stream_states EXCEPT ![FirstStream] =
       [read_buf |-> s.read_buf, write_remaining |-> s.write_remaining]]
  /\ sent' = [sent EXCEPT ![c] = s.sent]
  /\ finSent' = [finSent EXCEPT ![c] = s.fin]

-----------------------------------------------------------------------------
(***************************************************************************)
(* process_all_events and handle_event.  Events are queued in the order of *)
(* the frames that cause them, which is any order within a datagram, but   *)
(* NewStream comes before the other events of its stream.                  *)
(***************************************************************************)
NextEvent(c, e) ==
  /\ pc = "events"
  /\ e \in events[c]
  /\ "NewStream" \in events[c] => e = "NewStream"
  /\ events' = [events EXCEPT ![c] = @ \ {e}]
  /\ UNCHANGED <<pc, conn, opened, arrived, limit, clientVars>>

\* Variant: an entry that is already in the map is kept.
HandleNewStreamKeep(c) ==
  /\ NextEvent(c, "NewStream")
  /\ stream_states' = [stream_states EXCEPT ![FirstStream] =
       IF @ = None THEN NewStreamState ELSE @]
  /\ UNCHANGED <<read, reqFin, sendVars>>

HandleNewStream(c) ==
  /\ NextEvent(c, "NewStream")
  /\ stream_states' = [stream_states EXCEPT ![FirstStream] = NewStreamState]
  /\ UNCHANGED <<read, reqFin, sendVars>>

HandleReadable(c) ==
  /\ NextEvent(c, "RecvStreamReadable")
  /\ IF stream_states[FirstStream] = None
     THEN UNCHANGED <<stream_states, read, reqFin, sendVars>>
     ELSE IF conn[c] = "closed" \/ reqFin[c] = "read"     \* stream_recv fails
     THEN UNCHANGED <<stream_states, read, reqFin, sendVars>>
     ELSE /\ StreamBecomes(c, read_request(c, StreamOf(c)))
          /\ read' = [read EXCEPT ![c] = arrived[c]]
          /\ reqFin' = [reqFin EXCEPT ![c] = IF @ = "arrived" THEN "read" ELSE @]

\* Variant: the response is not resumed.
HandleWritableIdle(c) ==
  /\ NextEvent(c, "SendStreamWritable")
  /\ UNCHANGED <<stream_states, read, reqFin, sendVars>>

HandleWritable(c) ==
  /\ NextEvent(c, "SendStreamWritable")
  /\ IF stream_states[FirstStream] = None
     THEN UNCHANGED <<stream_states, sendVars>>
     ELSE StreamBecomes(c, try_send_response(c, StreamOf(c)))
  /\ UNCHANGED <<read, reqFin>>

\* Session ticket on Connected; every other event is ignored.
HandleOther(c) ==
  /\ NextEvent(c, "StateChange")
  /\ UNCHANGED <<stream_states, read, reqFin, sendVars>>

EventsDrained ==
  /\ pc = "events"
  /\ \A c \in Conns : events[c] = {}
  /\ pc' = "output"
  /\ UNCHANGED <<stream_states, conn, events, recvVars, sendVars, limit, clientVars>>

-----------------------------------------------------------------------------
\* process_output and send_to.

HasOutput(c) ==
  conn[c] = "open" /\ (wired[c] # sent[c] \/ wiredFin[c] # finSent[c])

SendDatagrams(c) ==
  /\ pc = "output"
  /\ HasOutput(c)
  /\ wired' = [wired EXCEPT ![c] = sent[c]]
  /\ wiredFin' = [wiredFin EXCEPT ![c] = finSent[c]]
  /\ UNCHANGED <<serverVars, conn, events, recvVars, sendVars, limit, size, got>>

\* listen returns, and the server ends for every connection: the socket fails,
\* in readable or recv while listen waits, or in send_to for one peer.
ListenFails ==
  /\ pc = "wait" \/ (pc = "output" /\ \E c \in Conns : HasOutput(c))
  /\ pc' = "stopped"
  /\ UNCHANGED <<stream_states, conn, events, recvVars, sendVars, limit, clientVars>>

OutputDone ==
  /\ pc = "output"
  /\ \A c \in Conns : ~HasOutput(c)
  /\ pc' = "wait"
  /\ UNCHANGED <<stream_states, conn, events, recvVars, sendVars, limit, clientVars>>

\* The timer of the library fires.
Timer ==
  /\ pc = "wait"
  /\ \E c \in Conns : conn[c] = "open"
  /\ pc' = "events"
  /\ UNCHANGED <<stream_states, conn, events, recvVars, sendVars, limit, clientVars>>

-----------------------------------------------------------------------------
(***************************************************************************)
(* The library and the clients.                                            *)
(***************************************************************************)

\* Both directions of the exchange are over for the server, or it is cut off.
Over(c) ==
  \/ conn[c] = "closed"
  \/ finSent[c] /\ reqFin[c] = "read"

\* A client connects, with the size it is going to request.
Connect(c) ==
  /\ pc = "wait"
  /\ conn[c] = "idle"
  /\ Overlap \/ \A d \in Conns : conn[d] = "idle" \/ Over(d)
  /\ conn' = [conn EXCEPT ![c] = "open"]
  /\ \E n \in Sizes : size' = [size EXCEPT ![c] = n]
  /\ events' = [events EXCEPT ![c] = {"StateChange"}]
  /\ pc' = "events"
  /\ UNCHANGED <<stream_states, recvVars, sendVars, limit, wired, wiredFin, got>>

When(b, e) == IF b THEN {e} ELSE {}

(***************************************************************************)
(* A datagram of client c: a frame of its stream that extends the request  *)
(* to k digits and perhaps to its end (`frame` alone: an early frame whose *)
(* data cannot be read yet), a new flow-control limit, a connection close. *)
(* Loss, duplication and delay are datagrams that come later or not at all.*)
(***************************************************************************)
Datagram(c, frame, k, fin, grant, close) ==
  /\ pc = "wait"
  /\ conn[c] = "open"
  /\ arrived[c] < k \/ fin => frame
  /\ fin => k = HeaderLen /\ reqFin[c] = "absent"
  /\ opened' = [opened EXCEPT ![c] = @ \/ frame]
  /\ arrived' = [arrived EXCEPT ![c] = k]
  /\ reqFin' = [reqFin EXCEPT ![c] = IF fin THEN "arrived" ELSE @]
  /\ limit' = [limit EXCEPT ![c] = IF grant THEN got[c] + Window ELSE @]
  /\ conn' = [conn EXCEPT ![c] = IF close THEN "closed" ELSE @]
  /\ events' = [events EXCEPT ![c] =
       When(frame /\ ~opened[c], "NewStream")
       \cup When(arrived[c] < k \/ fin, "RecvStreamReadable")
       \cup When(sent[c] = limit[c] /\ limit'[c] > limit[c] /\ ~finSent[c],
               "SendStreamWritable")
       \cup When(close, "StateChange")]
  /\ pc' = "events"
  /\ UNCHANGED <<stream_states, read, sendVars, clientVars>>

ReceiveDatagram(c) ==
  \E frame, fin, grant, close \in BOOLEAN, k \in arrived[c] .. HeaderLen :
    Datagram(c, frame, k, fin, grant, close)

\* The client has gone: the library closes the connection.
IdleTimeout(c) ==
  /\ pc = "wait"
  /\ conn[c] = "open"
  /\ conn' = [conn EXCEPT ![c] = "closed"]
  /\ events' = [events EXCEPT ![c] = {"StateChange"}]
  /\ pc' = "events"
  /\ UNCHANGED <<stream_states, recvVars, sendVars, limit, clientVars>>

\* The client receives some of the response that is under way.
ClientReceives(c) ==
  /\ conn[c] = "open"
  /\ \E n \in got[c] + 1 .. wired[c] : got' = [got EXCEPT ![c] = n]
  /\ UNCHANGED <<serverVars, conn, events, recvVars, sendVars, limit, size, wired, wiredFin>>

\* The client has read to the end of the response.
ClientDone(c) == wiredFin[c] /\ got[c] = wired[c]

-----------------------------------------------------------------------------
Handler(c) ==
  HandleNewStream(c) \/ HandleReadable(c) \/ HandleWritable(c) \/ HandleOther(c)

Server ==
  \/ \E c \in Conns : Handler(c) \/ SendDatagrams(c)
  \/ EventsDrained
  \/ OutputDone

Environment(c) ==
  Connect(c) \/ ReceiveDatagram(c) \/ IdleTimeout(c) \/ ClientReceives(c)

Next == Server \/ Timer \/ ListenFails \/ \E c \in Conns : Environment(c)

Spec == Init /\ [][Next]_vars

(***************************************************************************)
(* The task is scheduled.  QUIC retransmits, and the socket is a queue, so *)
(* of a connection that stays open the rest of the request arrives, every  *)
(* byte of the response does, and so does a new limit.                     *)
(***************************************************************************)
RestOfRequest(c) ==
  /\ reqFin[c] = "absent"
  /\ \E grant \in BOOLEAN : Datagram(c, TRUE, HeaderLen, TRUE, grant, FALSE)

NewLimit(c) ==
  /\ limit[c] < got[c] + Window
  /\ \E frame, fin \in BOOLEAN, k \in arrived[c] .. HeaderLen :
       Datagram(c, frame, k, fin, TRUE, FALSE)

Fairness ==
  /\ WF_vars(Server)
  /\ \A c \in Conns :
       SF_vars(RestOfRequest(c)) /\ SF_vars(NewLimit(c)) /\ WF_vars(ClientReceives(c))

FairSpec == Spec /\ Fairness

(***************************************************************************)
(* The clients' streams open with the whole header in one frame, as the    *)
(* client writes it, which makes exchanges that overlap less dangerous.    *)
(***************************************************************************)
WholeRequests == \A c \in Conns : opened[c] => arrived[c] = HeaderLen

WholeSpec == Init /\ [][Next /\ WholeRequests']_vars

-----------------------------------------------------------------------------
Event == {"NewStream", "RecvStreamReadable", "SendStreamWritable", "StateChange"}

\* Type invariant of the server, the library and the clients.
TypeOK ==
  /\ pc \in {"wait", "events", "output", "stopped"}
  /\ stream_states \in [StreamIds -> StreamState \cup {None}]
  /\ conn \in [Conns -> {"idle", "open", "closed"}]
  /\ events \in [Conns -> SUBSET Event]
  /\ opened \in [Conns -> BOOLEAN]
  /\ arrived \in [Conns -> 0 .. HeaderLen]
  /\ read \in [Conns -> 0 .. HeaderLen]
  /\ reqFin \in [Conns -> {"absent", "arrived", "read"}]
  /\ sent \in [Conns -> Nat]
  /\ finSent \in [Conns -> BOOLEAN]
  /\ limit \in [Conns -> Nat]
  /\ size \in [Conns -> 0 .. Base * Base - 1]
  /\ wired \in [Conns -> Nat]
  /\ wiredFin \in [Conns -> BOOLEAN]
  /\ got \in [Conns -> Nat]

\* The server ends a response only after writing exactly the requested number
\* of bytes (docs/PROTOCOL.md: "writes back exactly that many bytes (a blob)
\* before finishing the stream"), whatever try_send_response was interrupted by.
ExactResponse == \A c \in Conns : finSent[c] => sent[c] = size[c]

\* No byte of a response is written before read_request has the whole header,
\* and never more bytes than the header asks for, though read_buf is kept and
\* parsed again after the response is complete.
NothingUnasked ==
  \A c \in Conns : sent[c] > 0 => read[c] = HeaderLen /\ sent[c] <= size[c]

\* When listen waits for the network, a request that has been read and is not
\* answered is one that the client's flow control holds back: no event was
\* consumed (SendStreamWritable after Ok(0), a second RecvStreamReadable)
\* without writing all that could be written.
WaitsOnlyForCredit ==
  pc = "wait" =>
    \A c \in Conns :
      conn[c] = "open" /\ read[c] = HeaderLen /\ ~finSent[c] => sent[c] = limit[c]

\* While a client waits for its response, the entry that all connections share
\* holds what that client still has to get: neither an entry left over by an
\* earlier connection nor a second parse of read_buf replaces it.
EntryTracksExchange ==
  \A c \in Conns :
    conn[c] = "open" /\ read[c] = HeaderLen /\ ~finSent[c] =>
      LET entry == stream_states[FirstStream] IN
        /\ entry # None
        /\ entry.write_remaining # None
        /\ entry.write_remaining + sent[c] = size[c]

\* A client whose connection stays up gets its whole blob and the end of the
\* stream, unless listen has returned.
EveryRequestServed ==
  \A c \in Conns :
    conn[c] = "open" ~> ClientDone(c) \/ conn[c] = "closed" \/ pc = "stopped"

\* The server implements the exchange that docs/PROTOCOL.md promises to every
\* client.
Exchange == INSTANCE PerfExchange WITH
  Clients   <- Conns,
  phase     <- [c \in Conns |-> IF conn[c] = "closed" THEN "lost" ELSE conn[c]],
  requested <- size,
  delivered <- got,
  finished  <- [c \in Conns |-> ClientDone(c)]

ImplementsExchange == Exchange!Spec
=============================================================================
