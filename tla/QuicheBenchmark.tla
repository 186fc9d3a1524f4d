----------------------------- MODULE QuicheBenchmark -----------------------------
(***************************************************************************)
(* The quiche implementation under test (iut/quiche/src): a connection and *)
(* the two `Benchmark` applications on its ends.  Connections share no     *)
(* state, so one is modelled, with its one stream (the client uses id 0).  *)
(*                                                                         *)
(* tokio-quiche drives a Benchmark from a worker task, which is external:  *)
(* in a round, the worker takes the packets that have arrived, calls       *)
(* process_reads if there were any, then process_writes, flushes, and      *)
(* waits for a packet, a timer or wait_for_data.  Client::run is another   *)
(* task: it meets the worker in the channel `reqs` and in a oneshot.       *)
(*                                                                         *)
(* The response is zero bytes, modelled by their number; the header is two *)
(* big-endian digits.                                                      *)
(***************************************************************************)
EXTENDS Naturals

CONSTANTS
  Base,       \* the number of values of a header digit
  Sizes,      \* the blob sizes a client may request
  Window,     \* the stream flow-control window of the client
  Split,      \* TRUE: the request may arrive in several pieces
  Lossy,      \* TRUE: the connection may be lost at any time
  None        \* Option::None

ASSUME BaseAssumption == Base \in Nat \ {0}
ASSUME SizesAssumption == Sizes \subseteq 0 .. (Base * Base - 1)
ASSUME WindowAssumption == Window \in Nat \ {0}
ASSUME FlagsAssumption == Split \in BOOLEAN /\ Lossy \in BOOLEAN
ASSUME NoneAssumption == None \notin Nat

VARIABLES
  \* Client::run and its Benchmark
  run,          \* "connected", "awaiting", "ok", "failed", "cancelled"
  size,         \* the requested blob size
  queued,       \* the request is in the channel `reqs`
  pending_req,  \* the stream has a oneshot sender in the map
  client,       \* the worker: "reads", "writes", "wait", or how it Ended
  clientWoken,  \* packets wait for the client's worker
  got,          \* response bytes returned by stream_recv
  gotFin,       \* so has the end of the response been
  \* the server's Benchmark
  server,       \* the worker: "reads", "writes", "wait", "closed", "lost"
  serverWoken,  \* packets wait for the server's worker
  pending_res,  \* None, or what remains of the response in the map
  \* the streams of the library
  written,      \* the request and its end are accepted by stream_send
  arrived,      \* digits of the request that have reached the server
  reqFin,       \* the end of the request: "absent", "arrived" or "read"
  read,         \* digits of the request returned by stream_recv
  sent,         \* response bytes accepted by stream_send
  finSent,      \* so is the end of the response
  limit,        \* the flow-control limit known to the server
  handshake     \* a last packet of the handshake is on its way to the client

clientVars == <<run, size, queued, pending_req, client, clientWoken, got, gotFin>>
serverVars == <<server, serverWoken, pending_res>>
requestVars == <<written, arrived, reqFin, read>>
responseVars == <<sent, finSent, limit>>
vars == <<clientVars, serverVars, requestVars, responseVars, handshake>>

HeaderLen == 2
ToBytes(n) == [i \in 1 .. HeaderLen |-> IF i = 1 THEN n \div Base ELSE n % Base]

\* Variant: the digits are read in the wrong order.
FromBytesSwapped(b) == Base * b[2] + b[1]

\* Variant: the header is taken for a signed number.
FromBytesSigned(b) == Base * b[1] + b[2] - (IF 2 * b[1] >= Base THEN Base * Base ELSE 0)

FromBytes(b) == Base * b[1] + b[2]

Init ==
  /\ run = "connected" /\ size \in Sizes
  /\ queued = FALSE /\ pending_req = FALSE
  /\ client = "reads" /\ clientWoken = FALSE
  /\ got = 0 /\ gotFin = FALSE
  /\ server = "reads" /\ serverWoken = FALSE /\ pending_res = None
  /\ written = FALSE /\ arrived = 0 /\ reqFin = "absent" /\ read = 0
  /\ sent = 0 /\ finSent = FALSE /\ limit = Window
  /\ handshake = TRUE

-----------------------------------------------------------------------------
(***************************************************************************)
(* Client::run.                                                            *)
(***************************************************************************)

\* How the client's worker ends: the connection is closed or lost, process_writes
\* ("failed") or process_reads ("error") returns an error, or it panics.
Ended == {"closed", "lost", "failed", "error", "panicked"}

\* The request is put in the channel; the worker is not woken.
SendRequest ==
  /\ run = "connected"
  /\ IF client \in Ended    \* the receiver is dropped
     THEN run' = "failed" /\ UNCHANGED queued
     ELSE run' = "awaiting" /\ queued' = TRUE
  /\ UNCHANGED <<size, pending_req, client, clientWoken, got, gotFin,
                 serverVars, requestVars, responseVars, handshake>>

\* rx.await fails when the worker ends: the oneshot sender goes with it.
RequestDropped ==
  /\ run = "awaiting"
  /\ client \in Ended
  /\ run' = "failed"
  /\ UNCHANGED <<size, queued, pending_req, client, clientWoken, got, gotFin,
                 serverVars, requestVars, responseVars, handshake>>

\* run is cancelled (a signal, a timeout) and drops the oneshot receiver.
Cancel ==
  /\ run = "awaiting"
  /\ run' = "cancelled"
  /\ UNCHANGED <<size, queued, pending_req, client, clientWoken, got, gotFin,
                 serverVars, requestVars, responseVars, handshake>>

-----------------------------------------------------------------------------
(***************************************************************************)
(* Benchmark::process_reads and process_writes of the client.              *)
(***************************************************************************)

\* The end of the response wakes run; nothing compares its length.
AnswerRequest ==
  IF ~pending_req THEN client' = "error" /\ UNCHANGED <<run, pending_req>>
  ELSE /\ pending_req' = FALSE
       /\ IF run = "cancelled" THEN client' = "panicked" /\ UNCHANGED run
                               ELSE client' = "writes" /\ run' = "ok"

\* Variant: the first data is taken for the end.
EndReadEarly == got' # got

\* stream_recv has returned the end of the response.
EndRead == gotFin' # gotFin

ClientReads ==
  /\ client = "reads"
  /\ clientWoken' = FALSE
  /\ IF clientWoken
     THEN /\ got' \in got .. sent
          /\ gotFin' \in {gotFin, finSent /\ got' = sent}
          /\ IF EndRead THEN AnswerRequest
                     ELSE client' = "writes" /\ UNCHANGED <<run, pending_req>>
     ELSE client' = "writes" /\ UNCHANGED <<run, pending_req, got, gotFin>>
  /\ UNCHANGED <<size, queued, serverVars, requestVars, responseVars, handshake>>

\* Variant: the oneshot sender is not kept.
ClientWritesUnregistered ==
  /\ client = "writes"
  /\ \/ client' \in {"reads", "wait"} /\ written' = (written \/ queued)
     \/ queued /\ client' = "failed" /\ UNCHANGED written
  /\ queued' = FALSE
  /\ UNCHANGED <<run, size, pending_req, clientWoken, got, gotFin, serverVars,
                 arrived, reqFin, read, responseVars, handshake>>

\* One request is taken from the channel and its sender kept; then the worker waits,
\* or goes round again because it has more to send.  If stream_send fails (the peer
\* allows no stream), the error ends the worker, which drops the sender.
ClientWrites ==
  /\ client = "writes"
  /\ \/ client' \in {"reads", "wait"} /\ written' = (written \/ queued)
     \/ queued /\ client' = "failed" /\ UNCHANGED written
  /\ queued' = FALSE
  /\ pending_req' = (pending_req \/ queued)
  /\ UNCHANGED <<run, size, clientWoken, got, gotFin, serverVars,
                 arrived, reqFin, read, responseVars, handshake>>

-----------------------------------------------------------------------------
(***************************************************************************)
(* Benchmark::process_reads and process_writes of the server.              *)
(***************************************************************************)

\* The buffer after stream_recv: what was read, from its start, then zeros.
ReadBuffer ==
  [i \in 1 .. HeaderLen |->
     IF read + i <= arrived THEN ToBytes(size)[read + i] ELSE 0]

Readable == read < arrived \/ reqFin = "arrived"

\* Whatever stream_recv returns is parsed as a whole request.
ServerReads ==
  /\ server = "reads"
  /\ serverWoken' = FALSE
  /\ IF serverWoken /\ Readable
     THEN /\ pending_res' = FromBytes(ReadBuffer)
          /\ read' = arrived
          /\ reqFin' = IF reqFin = "arrived" THEN "read" ELSE reqFin
     ELSE UNCHANGED <<pending_res, read, reqFin>>
  /\ server' = "writes"
  /\ UNCHANGED <<clientVars, written, arrived, responseVars, handshake>>

Lesser(m, n) == IF m <= n THEN m ELSE n

\* Variant: a response is dropped after its first chunk.
ResponseLeftDropped(rem, n) == IF n = rem \/ n > 0 THEN None ELSE rem - n

\* What is left of a response after n more bytes are accepted.
ResponseLeft(rem, n) == IF n = rem THEN None ELSE rem - n

\* stream_send(chunk, fin): the end counts if the whole chunk is accepted.  An
\* error (nothing accepted, or the stream has ended) is ignored.
ServerWrites ==
  /\ server = "writes"
  /\ server' \in {"reads", "wait"}
  /\ IF pending_res # None /\ ~finSent
     THEN LET n == Lesser(pending_res, limit - sent) IN
          /\ sent' = sent + n
          /\ finSent' = (n = pending_res)
          /\ pending_res' = ResponseLeft(pending_res, n)
     ELSE UNCHANGED <<pending_res, sent, finSent>>
  /\ UNCHANGED <<clientVars, serverWoken, requestVars, limit, handshake>>

-----------------------------------------------------------------------------
(***************************************************************************)
(* The workers' waits and the network.  wait_for_data sleeps for ever.     *)
(***************************************************************************)
Open == client \in {"reads", "writes", "wait"} /\ server \in {"reads", "writes", "wait"}

ClientWakes ==
  /\ client = "wait" /\ clientWoken
  /\ client' = "reads"
  /\ UNCHANGED <<run, size, queued, pending_req, clientWoken, got, gotFin,
                 serverVars, requestVars, responseVars, handshake>>

ServerWakes ==
  /\ server = "wait" /\ serverWoken
  /\ server' = "reads"
  /\ UNCHANGED <<clientVars, serverWoken, pending_res, requestVars, responseVars, handshake>>

\* The tail of the handshake (HANDSHAKE_DONE, session tickets) wakes the client.
HandshakePacket ==
  /\ Open /\ handshake
  /\ handshake' = FALSE
  /\ clientWoken' = TRUE
  /\ UNCHANGED <<run, size, queued, pending_req, client, got, gotFin,
                 serverVars, requestVars, responseVars>>

\* A packet with the request, whole unless Split.
RequestPacket(k, fin) ==
  /\ Open /\ written
  /\ arrived < k \/ fin
  /\ fin => k = HeaderLen /\ reqFin = "absent"
  /\ Split \/ (k = HeaderLen /\ fin)
  /\ arrived' = k
  /\ reqFin' = IF fin THEN "arrived" ELSE reqFin
  /\ serverWoken' = TRUE
  /\ UNCHANGED <<clientVars, server, pending_res, written, read, responseVars, handshake>>

DeliverRequest ==
  \E k \in arrived .. HeaderLen, fin \in BOOLEAN : RequestPacket(k, fin)

\* Packets with all that the server has sent so far.
ResponsePacket ==
  /\ Open
  /\ got < sent \/ gotFin # finSent
  /\ ~clientWoken
  /\ clientWoken' = TRUE
  /\ UNCHANGED <<run, size, queued, pending_req, client, got, gotFin,
                 serverVars, requestVars, responseVars, handshake>>

\* The client's library announces more credit as the response is read.
CreditPacket ==
  /\ Open
  /\ limit < got + Window
  /\ limit' = got + Window
  /\ serverWoken' = TRUE
  /\ UNCHANGED <<clientVars, server, pending_res, requestVars, sent, finSent, handshake>>

\* Nothing is on its way to either worker: the state in which only the idle
\* timers can fire.
Quiet ==
  /\ client = "wait" /\ server = "wait"
  /\ ~clientWoken /\ ~serverWoken /\ ~handshake
  /\ ~(written /\ reqFin = "absent")
  /\ got = sent /\ gotFin = finSent
  /\ limit = got + Window

Close(how) ==
  /\ Open
  /\ client' = how /\ server' = how
  /\ UNCHANGED <<run, size, queued, pending_req, clientWoken, got, gotFin,
                 serverWoken, pending_res, requestVars, responseVars, handshake>>

IdleTimeout == Quiet /\ Close("closed")

ConnectionLost == Lossy /\ Close("lost")

-----------------------------------------------------------------------------
Client == SendRequest \/ RequestDropped
ClientWorker == ClientReads \/ ClientWrites \/ ClientWakes
ServerWorker == ServerReads \/ ServerWrites \/ ServerWakes
Network == HandshakePacket \/ DeliverRequest \/ ResponsePacket \/ CreditPacket

Next == Client \/ Cancel \/ ClientWorker \/ ServerWorker \/ Network
        \/ IdleTimeout \/ ConnectionLost

Spec == Init /\ [][Next]_vars

(***************************************************************************)
(* The tasks are scheduled (a worker goes round again only while it has    *)
(* more to send, so it does not for ever), and QUIC retransmits.           *)
(***************************************************************************)
Fairness ==
  /\ WF_vars(Client)
  /\ WF_vars(ClientReads) /\ WF_vars(ClientWrites) /\ WF_vars(ClientWakes)
  /\ WF_vars(ServerReads) /\ WF_vars(ServerWrites) /\ WF_vars(ServerWakes)
  /\ WF_vars(HandshakePacket) /\ WF_vars(RequestPacket(HeaderLen, TRUE))
  /\ WF_vars(ResponsePacket) /\ WF_vars(CreditPacket)
  /\ SF_vars(ClientReads /\ got' = sent /\ gotFin' = finSent)
  /\ WF_vars(IdleTimeout)

FairSpec == Spec /\ Fairness

-----------------------------------------------------------------------------
\* Type invariant of both ends.
TypeOK ==
  /\ run \in {"connected", "awaiting", "ok", "failed", "cancelled"}
  /\ size \in Sizes
  /\ {queued, pending_req, clientWoken, gotFin, serverWoken, written, finSent, handshake}
       \subseteq BOOLEAN
  /\ client \in {"reads", "writes", "wait"} \cup Ended
  /\ server \in {"reads", "writes", "wait", "closed", "lost"}
  /\ pending_res \in Nat \cup {None}
  /\ arrived \in 0 .. HeaderLen /\ read \in 0 .. arrived
  /\ reqFin \in {"absent", "arrived", "read"}
  /\ {got, sent, limit} \subseteq Nat

\* A client whose run succeeds has been handed exactly what it asked for
\* (docs/PROTOCOL.md: "Assert the received length equals the requested size;
\* mismatch is a hard error"), though run itself does not look at the length.
ClientGetsBlob == run = "ok" => got = size

\* process_reads replaces whatever pending_res holds; a response in progress is
\* never replaced by one that does not continue it.
ResponseContinues == pending_res # None => pending_res + sent = size

\* The worker of a client never meets the end of a stream it does not know, and
\* panics on a dropped oneshot receiver only if run was cancelled.
WorkerSurvives ==
  /\ client # "error"
  /\ client = "panicked" => run = "cancelled"

\* No idle timeout can end an exchange whose request has been written: while it
\* is unanswered, something is on its way to one of the workers.
NeverQuietUnanswered == pending_req => ~Quiet

\* A request that has been written is answered, unless the connection is lost
\* or run is cancelled.
WrittenIsAnswered == written ~> run \in {"ok", "cancelled"} \/ client = "lost"

\* A request that run has put in the channel is written (docs/PROTOCOL.md:
\* "Write the 8-byte request, then finish the send side"), unless the library
\* refuses it.
QueuedIsWritten == queued ~> written \/ run = "cancelled" \/ client = "failed"

\* run has asked: the request is in the channel, in the stream, or was refused.
Asked == queued \/ written \/ pending_req

\* The two ends together implement the exchange of docs/PROTOCOL.md.
Exchange == INSTANCE PerfExchange WITH
  Clients   <- {"client"},
  phase     <- [c \in {"client"} |->
                  IF ~Asked THEN "idle"
                  ELSE IF run = "failed" THEN "lost" ELSE "open"],
  requested <- [c \in {"client"} |-> IF Asked THEN size ELSE 0],
  delivered <- [c \in {"client"} |-> got],
  finished  <- [c \in {"client"} |-> run = "ok"]

ImplementsExchange == Exchange!Spec
=============================================================================
