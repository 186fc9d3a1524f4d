------------------------------ MODULE MsQuicServer ------------------------------
(***************************************************************************)
(* The msquic server (iut/msquic/src/server.cpp).                          *)
(*                                                                         *)
(* run_server starts a listener and waits for a signal; connections and    *)
(* streams live in callbacks on the library's threads.  A stream's         *)
(* StreamState owns the response until the library has sent it.  A         *)
(* callback is one action.  Every client opens one stream.                 *)
(*                                                                         *)
(* msquic, the clients and the network are external.  The header is two    *)
(* digits of base Base, a response its number of bytes.                    *)
(***************************************************************************)
EXTENDS Naturals, Sequences, FiniteSetsExt

CONSTANTS
  Conns,    \* the connections of the clients
  Base,     \* the base of the header's digits
  Sizes,    \* the blob sizes that are requested
  Limit,    \* a QUIC_BUFFER's length is modulo Limit (2^32)
  Memory    \* the bytes that all responses may have together

ASSUME BaseAssumption == Base \in Nat \ {0, 1}
ASSUME SizesAssumption == Sizes \subseteq 0 .. Base * Base - 1
ASSUME BoundsAssumption == Limit \in Nat \ {0} /\ Memory \in Nat

VARIABLES
  \* the process
  process,     \* the place in run_server, then in main; see Places
  config, listener,   \* handles: "none", "open" or "closed"
  signal,      \* "none", "pending" or "taken"
  \* handles and state of each connection
  conn,        \* "none", "open", "down", "closed" or "leaked"
  stream,      \* "none", "open" or "closed"
  state,       \* the stream's StreamState: "none", "live" or "freed"
  request,     \* the digits in StreamState::request
  response,    \* the size of StreamState::response
  length,      \* send_buffer.Length
  aborted,     \* StreamShutdown(ABORT): "no", "short" or "failed"
  \* the library
  sending,     \* it holds send_buffer
  ended,       \* PEER_SEND_SHUTDOWN is delivered
  read,        \* digits delivered with RECEIVE
  \* the client
  size,        \* the size it asks for
  delivered, finished, gone

processVars == <<process, config, listener, signal>>
streamVars == <<stream, state, request, response, length, aborted>>
libVars == <<sending, ended, read>>
clientVars == <<size, delivered, finished, gone>>
vars == <<processVars, conn, streamVars, libVars, clientVars>>

Header == 2

Places ==
  {"start", "masked", "waiting", "stopping", "unlistened", "closing", "exited", "killed"}

Init ==
  /\ process = "start" /\ config = "none" /\ listener = "none"
  /\ signal = "none"
  /\ conn = [c \in Conns |-> "none"] /\ stream = [c \in Conns |-> "none"]
  /\ state = [c \in Conns |-> "none"] /\ request = [c \in Conns |-> <<>>]
  /\ response = [c \in Conns |-> 0] /\ length = [c \in Conns |-> 0]
  /\ aborted = [c \in Conns |-> "no"]
  /\ sending = [c \in Conns |-> FALSE] /\ ended = [c \in Conns |-> FALSE]
  /\ read = [c \in Conns |-> 0]
  /\ size \in [Conns -> Sizes]
  /\ delivered = [c \in Conns |-> 0] /\ finished = [c \in Conns |-> FALSE]
  /\ gone = [c \in Conns |-> FALSE]

Alive == process \notin {"exited", "killed"}

-----------------------------------------------------------------------------
(***************************************************************************)
(* run_server and main.                                                    *)
(***************************************************************************)
Configure ==
  /\ process = "start"
  /\ config' = "open" /\ process' = "masked"
  /\ UNCHANGED <<listener, signal, conn, streamVars, libVars, clientVars>>

ConfigureFails ==
  /\ process = "start"
  /\ process' = "closing"
  /\ UNCHANGED <<config, listener, signal, conn, streamVars, libVars, clientVars>>

Listen ==
  /\ process = "masked"
  /\ listener' = "open" /\ process' = "waiting"
  /\ UNCHANGED <<config, signal, conn, streamVars, libVars, clientVars>>

\* The port in the listen address is no number: std::stoi throws after ListenerOpen,
\* and nothing catches it.
ListenPortInvalid ==
  /\ process = "masked"
  /\ listener' = "open" /\ process' = "killed"
  /\ UNCHANGED <<config, signal, conn, streamVars, libVars, clientVars>>

\* ListenerOpen fails, or ListenerStart does.
ListenFails ==
  /\ process = "masked"
  /\ listener' \in {"none", "closed"}
  /\ config' = "closed" /\ process' = "closing"
  /\ UNCHANGED <<signal, conn, streamVars, libVars, clientVars>>

\* A signal ends the process at once before the mask is set, and if a thread of the
\* library takes it: those are older than the mask and need not block it.
Signal ==
  /\ Alive /\ signal = "none"
  /\ \/ process' = "killed" /\ signal' = "taken"
     \/ process # "start" /\ signal' = "pending" /\ UNCHANGED process
  /\ UNCHANGED <<config, listener, conn, streamVars, libVars, clientVars>>

SigWait ==
  /\ process = "waiting" /\ signal = "pending"
  /\ signal' = "taken" /\ process' = "stopping"
  /\ UNCHANGED <<config, listener, conn, streamVars, libVars, clientVars>>

CloseListener ==
  /\ process = "stopping"
  /\ listener' = "closed" /\ process' = "unlistened"
  /\ UNCHANGED <<config, signal, conn, streamVars, libVars, clientVars>>

CloseConfiguration ==
  /\ process = "unlistened"
  /\ config' = "closed" /\ process' = "closing"
  /\ UNCHANGED <<listener, signal, conn, streamVars, libVars, clientVars>>

\* close_msquic: RegistrationClose waits for the handles of all connections.
CloseRegistration ==
  /\ process = "closing"
  /\ \A c \in Conns : conn[c] \in {"none", "closed"}
  /\ process' = "exited"
  /\ UNCHANGED <<config, listener, signal, conn, streamVars, libVars, clientVars>>

-----------------------------------------------------------------------------
(***************************************************************************)
(* listener_callback and connection_callback.                              *)
(***************************************************************************)
\* If ConnectionSetConfiguration fails, the library drops the connection.
NewConnection(c) ==
  /\ Alive /\ listener = "open" /\ conn[c] = "none"
  /\ \E result \in {"open", "closed"} : conn' = [conn EXCEPT ![c] = result]
  /\ UNCHANGED <<processVars, streamVars, libVars, clientVars>>

PeerStreamStarted(c) ==
  /\ Alive /\ conn[c] = "open" /\ stream[c] = "none" /\ ~gone[c]
  /\ stream' = [stream EXCEPT ![c] = "open"]
  /\ state' = [state EXCEPT ![c] = "live"]
  /\ UNCHANGED <<processVars, conn, request, response, length, aborted, libVars, clientVars>>

\* Variant: the connection is not closed.
ConnectionAfterwards_leaked == "leaked"

\* ConnectionClose.
ConnectionAfterwards == "closed"

ConnectionShutdownComplete(c) ==
  /\ Alive /\ conn[c] = "down" /\ stream[c] # "open"
  /\ conn' = [conn EXCEPT ![c] = ConnectionAfterwards]
  /\ UNCHANGED <<processVars, streamVars, libVars, clientVars>>

-----------------------------------------------------------------------------
(***************************************************************************)
(* stream_callback.                                                        *)
(***************************************************************************)
\* The digits that the client sends: the header, then one that does not count.  It
\* may end its request before any of them, with a FIN alone, or after any.
Sent(c) == <<size[c] \div Base, size[c] % Base, 0>>

\* Variant: what does not fit in the request is copied as well.
TakenUnbounded(old, data) == old \o data

\* Variant: every event fills the request from its beginning.
TakenRestart(old, data) == SubSeq(data, 1, IF Len(data) > Header THEN Header ELSE Len(data))

\* The request after more data, whatever buffers it comes in.
Taken(old, data) ==
  LET all == old \o data
  IN  SubSeq(all, 1, IF Len(all) > Header THEN Header ELSE Len(all))

Receive(c) ==
  /\ Alive /\ conn[c] = "open" /\ stream[c] = "open" /\ aborted[c] = "no" /\ ~gone[c]
  /\ ~ended[c]
  /\ \E n \in read[c] + 1 .. Header + 1 :
       /\ request' = [request EXCEPT ![c] = Taken(@, SubSeq(Sent(c), read[c] + 1, n))]
       /\ read' = [read EXCEPT ![c] = n]
  /\ UNCHANGED <<processVars, conn, stream, state, response, length, aborted, sending, ended,
                 clientVars>>

\* Variant: little-endian.
request_from_bytes_swapped(in) == in[2] * Base + in[1]

request_from_bytes(in) == in[1] * Base + in[2]

\* Variant: the response is a variable of the callback.
OwnedResponse_local(n) == 0

\* What StreamState::response holds when the callback has returned.
OwnedResponse(n) == n

\* send_buffer.Length, 32 bits of the response's size.
BufferLength(n) == n % Limit

Fits(n) == n + MapThenSumSet(LAMBDA d : response[d], Conns) <= Memory

PeerSendShutdown(c) ==
  /\ Alive /\ conn[c] = "open" /\ stream[c] = "open" /\ aborted[c] = "no" /\ ~gone[c]
  /\ ~ended[c]
  /\ ended' = [ended EXCEPT ![c] = TRUE]
  /\ UNCHANGED <<config, listener, signal, conn, stream, state, request, read,
                 clientVars>>

ShortRequest(c) ==
  /\ PeerSendShutdown(c)
  /\ Len(request[c]) < Header
  /\ aborted' = [aborted EXCEPT ![c] = "short"]
  /\ UNCHANGED <<process, response, length, sending>>

\* The response is built and sent; StreamSend may fail.
Answer(c) ==
  /\ PeerSendShutdown(c)
  /\ Len(request[c]) >= Header
  /\ LET n == request_from_bytes(request[c])
     IN  /\ Fits(n)
         /\ response' = [response EXCEPT ![c] = OwnedResponse(n)]
         /\ length' = [length EXCEPT ![c] = BufferLength(n)]
  /\ \/ sending' = [sending EXCEPT ![c] = TRUE] /\ UNCHANGED aborted
     \/ aborted' = [aborted EXCEPT ![c] = "failed"] /\ UNCHANGED sending
  /\ UNCHANGED process

\* std::bad_alloc leaves the callback, and nothing catches it.
OutOfMemory(c) ==
  /\ PeerSendShutdown(c)
  /\ Len(request[c]) >= Header
  /\ ~Fits(request_from_bytes(request[c]))
  /\ process' = "killed"
  /\ UNCHANGED <<response, length, aborted, sending>>

\* Variant: the state is not deleted.
StateAfterwards_leaked == "live"

\* delete state.
StateAfterwards == "freed"

\* Both directions are over, or the stream or the connection has been shut down;
\* SEND_COMPLETE has come before.
StreamShutdownComplete(c) ==
  /\ Alive /\ stream[c] = "open" /\ ~sending[c]
  /\ (ended[c] /\ finished[c]) \/ aborted[c] # "no" \/ conn[c] = "down"
  /\ stream' = [stream EXCEPT ![c] = "closed"]
  /\ state' = [state EXCEPT ![c] = StateAfterwards]
  /\ response' = [response EXCEPT ![c] = 0]
  /\ request' = [request EXCEPT ![c] = <<>>]
  /\ UNCHANGED <<processVars, conn, length, aborted, libVars, clientVars>>

-----------------------------------------------------------------------------
(***************************************************************************)
(* The library's sending, the clients and the network.                     *)
(***************************************************************************)
Deliver(c) ==
  /\ Alive /\ conn[c] = "open" /\ sending[c] /\ ~gone[c] /\ ~finished[c]
  /\ \E n \in delivered[c] .. length[c] :
       /\ delivered' = [delivered EXCEPT ![c] = n]
       /\ finished' = [finished EXCEPT ![c] = (n = length[c])]
       /\ n > delivered[c] \/ n = length[c]
  /\ UNCHANGED <<processVars, conn, streamVars, libVars, size, gone>>

\* SEND_COMPLETE: all is acknowledged, or will never be.
SendComplete(c) ==
  /\ Alive /\ sending[c]
  /\ finished[c] \/ conn[c] = "down"
  /\ sending' = [sending EXCEPT ![c] = FALSE]
  /\ UNCHANGED <<processVars, conn, streamVars, ended, read, clientVars>>

\* A client that stops without a word.
ClientGoes(c) ==
  /\ Alive /\ conn[c] = "open" /\ ~gone[c]
  /\ gone' = [gone EXCEPT ![c] = TRUE]
  /\ UNCHANGED <<processVars, conn, streamVars, libVars, size, delivered, finished>>

\* The client closes the connection, or the idle timeout is over.
ConnectionEnds(c) ==
  /\ Alive /\ conn[c] = "open"
  /\ conn' = [conn EXCEPT ![c] = "down"]
  /\ UNCHANGED <<processVars, streamVars, libVars, clientVars>>

-----------------------------------------------------------------------------
StreamCallback(c) ==
  Receive(c) \/ ShortRequest(c) \/ Answer(c) \/ OutOfMemory(c) \/ StreamShutdownComplete(c)

ConnectionCallback(c) == PeerStreamStarted(c) \/ ConnectionShutdownComplete(c)

Main ==
  Configure \/ Listen \/ SigWait \/ CloseListener \/ CloseConfiguration \/ CloseRegistration

Next ==
  \/ Main \/ ConfigureFails \/ ListenPortInvalid \/ ListenFails \/ Signal
  \/ \E c \in Conns :
       \/ NewConnection(c) \/ ConnectionCallback(c) \/ StreamCallback(c)
       \/ Deliver(c) \/ SendComplete(c) \/ ClientGoes(c) \/ ConnectionEnds(c)

Spec == Init /\ [][Next]_vars

(***************************************************************************)
(* The threads run; a client that is still there asks and reads, closes    *)
(* when its exchange is over, and the idle timeout (10 s, common.cpp) ends *)
(* the connection of one that is gone.                                     *)
(***************************************************************************)
ExchangeOver(c) == finished[c] \/ aborted[c] # "no" \/ gone[c]

Fairness ==
  /\ WF_vars(Main)
  /\ \A c \in Conns :
       /\ WF_vars(ConnectionCallback(c)) /\ WF_vars(StreamCallback(c))
       /\ WF_vars(Deliver(c)) /\ WF_vars(SendComplete(c))
       /\ WF_vars(ExchangeOver(c) /\ ConnectionEnds(c))

FairSpec == Spec /\ Fairness

-----------------------------------------------------------------------------
\* Type invariant; StreamState::request has no room for more than the header.
TypeOK ==
  /\ process \in Places
  /\ {config, listener} \subseteq {"none", "open", "closed"}
  /\ signal \in {"none", "pending", "taken"}
  /\ conn \in [Conns -> {"none", "open", "down", "closed", "leaked"}]
  /\ stream \in [Conns -> {"none", "open", "closed"}]
  /\ state \in [Conns -> {"none", "live", "freed"}]
  /\ request \in [Conns -> Seq(0 .. Base - 1)]
  /\ \A c \in Conns : Len(request[c]) <= Header
  /\ response \in [Conns -> Nat] /\ length \in [Conns -> Nat]
  /\ aborted \in [Conns -> {"no", "short", "failed"}]
  /\ {sending, ended, finished, gone} \subseteq [Conns -> BOOLEAN]
  /\ size \in [Conns -> Sizes]
  /\ read \in [Conns -> 0 .. Header + 1] /\ delivered \in [Conns -> Nat]

\* While the library holds send_buffer, its StreamState exists and the response has
\* at least the bytes that the buffer says (server.cpp: the state "owns the
\* zero-filled response buffer until the send completes").
BufferOutlivesSend ==
  \A c \in Conns : sending[c] => state[c] = "live" /\ length[c] <= response[c]

\* A connection is only closed when its stream is closed and its StreamState deleted,
\* however the exchange ended, and the process exits only with all handles closed.
NothingLeaked ==
  /\ \A c \in Conns : conn[c] = "closed" => stream[c] # "open" /\ state[c] # "live"
  /\ process = "exited" =>
       /\ "open" \notin {config, listener}
       /\ \A c \in Conns : conn[c] \in {"none", "closed"} /\ state[c] # "live"

\* A request that has its eight bytes, in whatever pieces they come and whatever
\* follows them, is not refused as too short.
WholeRequestServed ==
  \A c \in Conns : aborted[c] = "short" => read[c] < Header

\* A signal that the main thread waits for ends the server, whatever exchanges are
\* in progress; only an exception ends it earlier, from a failed allocation or from
\* the port.
ServerStops == signal = "pending" ~> process \in {"exited", "killed"}

\* A response that the server has finished has all the bytes that were asked for
\* (docs/PROTOCOL.md: the server "writes back exactly that many bytes" before
\* finishing the stream).  Sizes from Limit on break it: send_buffer.Length has 32 bits.
ExactResponse == \A c \in Conns : finished[c] => delivered[c] = size[c]

\* What the clients see is an exchange of the protocol: the end of a response comes
\* with the last of its bytes; an aborted stream and a connection that is over are
\* lost.  It needs sizes below Limit.
Exchange == INSTANCE PerfExchange WITH
  Clients   <- Conns,
  phase     <- [c \in Conns |->
                  IF stream[c] = "none" THEN "idle"
                  ELSE IF ~finished[c] /\ (aborted[c] # "no" \/ conn[c] # "open") THEN "lost"
                  ELSE "open"],
  requested <- [c \in Conns |-> IF stream[c] = "none" THEN 0 ELSE size[c]]

ImplementsExchange == Exchange!Spec
=============================================================================
