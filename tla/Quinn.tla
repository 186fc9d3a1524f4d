--------------------------------- MODULE Quinn ---------------------------------
(***************************************************************************)
(* The quinn client and server (iut/quinn/src), and those of noq, which    *)
(* differ in names only.                                                   *)
(*                                                                         *)
(* The server has a task that accepts connections, one per connection that *)
(* accepts streams, and one per stream that serves the request.  Each      *)
(* client is run_client of the harness (iut/common/src/lib.rs): connect,   *)
(* run, and the drop that closes the connection.  What lies between two    *)
(* awaits is one action.  Who starts the server and the clients is left to *)
(* the modules that extend this one.                                       *)
(*                                                                         *)
(* The quinn library and the network are external.  The request header is  *)
(* two digits of base Base, a response its number of bytes.                *)
(***************************************************************************)
EXTENDS Naturals

CONSTANTS
  Clients,   \* the runs of a client, each with a connection of its own
  Base,      \* the base of the header's digits
  Sizes      \* the blob sizes that are requested

ASSUME BaseAssumption == Base \in Nat \ {0, 1}
ASSUME SizesAssumption == Sizes \subseteq 0 .. Base * Base - 1

VARIABLES
  server,   \* "off", "starting", "listening", or how it ended: see Over
  conn      \* conn[c]: the exchange of client c, a record of
            \*   client     the place in run_client, see Places
            \*   header     what its stream carries of the request; "short" if
            \*              the stream has ended before the header has
            \*   task       handle_connection, request handle_request
            \*   size       requested bytes, written those in the send stream
            \*   fin        the send stream is finished
            \*   delivered  bytes that read_to_end has returned to the client
            \*   lost       the network has failed for the idle timeout, or the
            \*              server has ended

quinnVars == <<server, conn>>

Over == {"failed", "cancelled", "killed"}
Places ==
  {"idle", "invalid", "connecting", "connected", "writing", "reading", "ok", "failed", "dropped"}

Exchanges == [client : Places,
              header : {"none", "partial", "short", "whole"},
              task : {"none", "incoming", "accepting", "over"},
              request : {"none", "opened", "reading", "serving", "over"},
              size : Sizes, written : Nat, fin : BOOLEAN, delivered : Nat, lost : BOOLEAN]

\* A server may be listening already.  Script and test use one blob size for all runs.
QuinnInit ==
  /\ server \in {"off", "listening"}
  /\ \E size \in Sizes :
       conn = [c \in Clients |->
                 [client |-> "idle", header |-> "none", task |-> "none", request |-> "none",
                  size |-> size, written |-> 0, fin |-> FALSE, delivered |-> 0, lost |-> FALSE]]

ClientIn(c, places) == conn[c].client \in places
TaskIn(c, states) == conn[c].task \in states
RequestIn(c, states) == conn[c].request \in states

Running(c) == ClientIn(c, {"connecting", "connected", "writing", "reading"})
Ended(c) == ClientIn(c, {"invalid", "ok", "failed", "dropped"})

-----------------------------------------------------------------------------
(***************************************************************************)
(* The request header (utils/src/perf.rs).                                 *)
(***************************************************************************)
ToBytes(size) == <<size \div Base, size % Base>>

\* Variant: the least significant digit first.
FromBytesSwapped(bytes) == bytes[2] * Base + bytes[1]

FromBytes(bytes) == bytes[1] * Base + bytes[2]

BlobSize(c) == FromBytes(ToBytes(conn[c].size))

-----------------------------------------------------------------------------
(***************************************************************************)
(* The client.                                                             *)
(***************************************************************************)
\* The size or the certificate cannot be parsed, or connect is called.
StartClient(c) ==
  /\ ClientIn(c, {"idle"})
  /\ \E place \in {"invalid", "connecting"} : conn' = [conn EXCEPT ![c].client = place]
  /\ UNCHANGED server

Connected(c) ==
  /\ ClientIn(c, {"connecting"}) /\ TaskIn(c, {"incoming"}) /\ ~conn[c].lost
  /\ conn' = [conn EXCEPT ![c].client = "connected"]
  /\ UNCHANGED server

\* connect, open_bi, write_all or read_to_end fails: the connection is lost.
ClientFails(c) ==
  /\ Running(c)
  /\ conn[c].lost \/ server \in Over
  /\ conn' = [conn EXCEPT ![c].client = "failed"]
  /\ UNCHANGED server

\* run: open_bi.
OpenBi(c) ==
  /\ ClientIn(c, {"connected"})
  /\ conn' = [conn EXCEPT ![c].client = "writing"]
  /\ UNCHANGED server

\* The stream of exchange e carries this much of the request; its first frame opens
\* it at the server.
Carries(e, header) ==
  [e EXCEPT !.header = header, !.request = IF @ = "none" THEN "opened" ELSE @]

\* write_all: some of the header is accepted ...
WriteSome(c) ==
  /\ ClientIn(c, {"writing"}) /\ conn[c].header = "none"
  /\ conn' = [conn EXCEPT ![c] = Carries(conn[c], "partial")]
  /\ UNCHANGED server

\* ... all of it is, and finish.
SendRequest(c) ==
  /\ ClientIn(c, {"writing"})
  /\ conn' = [conn EXCEPT ![c] = [Carries(conn[c], "whole") EXCEPT !.client = "reading"]]
  /\ UNCHANGED server

\* Variant: the length is not compared.
RunResultUnchecked(c) == "ok"

\* The lengths of the response and of the request are compared.
RunResult(c) == IF conn[c].written = conn[c].size THEN "ok" ELSE "failed"

ReadToEnd(c) ==
  /\ ClientIn(c, {"reading"}) /\ conn[c].fin
  /\ conn' = [conn EXCEPT ![c].delivered = conn[c].written, ![c].client = RunResult(c)]
  /\ UNCHANGED server

\* The future of run_client is dropped, by a signal or a timeout.  If it was in
\* write_all, the SendStream that is dropped finishes its stream, and that may still
\* be sent before the connection is closed.
DropClient(c) ==
  /\ Running(c)
  /\ \/ conn' = [conn EXCEPT ![c].client = "dropped"]
     \/ /\ ClientIn(c, {"writing"})
        /\ conn' = [conn EXCEPT ![c] = [Carries(conn[c], "short") EXCEPT !.client = "dropped"]]
  /\ UNCHANGED server

-----------------------------------------------------------------------------
(***************************************************************************)
(* The server.                                                             *)
(***************************************************************************)
\* The socket is bound, or that or the configuration fails.
Listen ==
  /\ server = "starting"
  /\ server' \in {"listening", "failed"}
  /\ UNCHANGED conn

\* listen spawns handle_connection.
Accept(c) ==
  /\ server = "listening"
  /\ Running(c) /\ TaskIn(c, {"none"})
  /\ conn' = [conn EXCEPT ![c].task = "incoming"]
  /\ UNCHANGED server

Established(c) ==
  /\ TaskIn(c, {"incoming"}) /\ ~ClientIn(c, {"connecting"}) /\ ~conn[c].lost
  /\ conn' = [conn EXCEPT ![c].task = "accepting"]
  /\ UNCHANGED server

HandshakeFails(c) ==
  /\ TaskIn(c, {"incoming"})
  /\ Ended(c) \/ conn[c].lost
  /\ conn' = [conn EXCEPT ![c].task = "over"]
  /\ UNCHANGED server

\* accept_bi returns a stream, and handle_request is spawned.
AcceptBi(c) ==
  /\ TaskIn(c, {"accepting"}) /\ RequestIn(c, {"opened"})
  /\ conn' = [conn EXCEPT ![c].request = "reading"]
  /\ UNCHANGED server

\* Variant: the loop goes on after an application close.
AcceptErrorIgnored == "accepting"

\* handle_connection returns: a client that has ended closes the connection, or its
\* process exits before the close is sent and the idle timeout comes.
AcceptError == "over"

ConnectionEnds(c) ==
  /\ TaskIn(c, {"accepting"})
  /\ Ended(c) \/ conn[c].lost
  /\ conn' = [conn EXCEPT ![c].task = AcceptError]
  /\ UNCHANGED server

\* read_to_end of handle_request returns the whole request ...
ReadRequest(c) ==
  /\ RequestIn(c, {"reading"}) /\ conn[c].header = "whole"
  /\ conn' = [conn EXCEPT ![c].request = "serving"]
  /\ UNCHANGED server

\* ... or less than the header, on which Blob::try_from panics.  The task ends, and the
\* SendStream that it drops finishes the response.
ShortRequest(c) ==
  /\ RequestIn(c, {"reading"}) /\ conn[c].header = "short"
  /\ conn' = [conn EXCEPT ![c].fin = TRUE, ![c].request = "over"]
  /\ UNCHANGED server

\* write_chunk, as far as flow control lets it.
WriteChunk(c) ==
  /\ RequestIn(c, {"serving"})
  /\ \E n \in conn[c].written + 1 .. BlobSize(c) : conn' = [conn EXCEPT ![c].written = n]
  /\ UNCHANGED server

\* Variant: one write, which may take less than the whole blob.
FinishAnyway(c) ==
  /\ RequestIn(c, {"serving"})
  /\ conn' = [conn EXCEPT ![c].fin = TRUE, ![c].request = "over"]
  /\ UNCHANGED server

Finish(c) ==
  /\ RequestIn(c, {"serving"}) /\ conn[c].written = BlobSize(c)
  /\ conn' = [conn EXCEPT ![c].fin = TRUE, ![c].request = "over"]
  /\ UNCHANGED server

\* read_to_end, write_chunk or finish returns an error.
RequestFails(c) ==
  /\ RequestIn(c, {"reading", "serving"})
  /\ Ended(c) \/ conn[c].lost
  /\ conn' = [conn EXCEPT ![c].request = "over"]
  /\ UNCHANGED server

\* The process ends and drops its tasks.  A SendStream that is dropped finishes its
\* stream, and that still reaches the clients in flushed.
ServerEnds(how, flushed) ==
  /\ server \in {"starting", "listening"}
  /\ server' = how
  /\ conn' = [c \in Clients |->
       [conn[c] EXCEPT
          !.task = IF @ \in {"incoming", "accepting"} THEN "over" ELSE @,
          !.request = IF @ \in {"reading", "serving"} THEN "over" ELSE @,
          !.fin = @ \/ (c \in flushed /\ RequestIn(c, {"reading", "serving"})),
          !.lost = @ \/ Running(c)]]

\* A signal: select_with_term_signals drops the future of listen.
CancelServer == \E flushed \in SUBSET Clients : ServerEnds("cancelled", flushed)

LoseConnection(c) ==
  /\ Running(c) /\ ~conn[c].lost
  /\ conn' = [conn EXCEPT ![c].lost = TRUE]
  /\ UNCHANGED server

-----------------------------------------------------------------------------
ConnectionTask(c) == Established(c) \/ HandshakeFails(c) \/ AcceptBi(c) \/ ConnectionEnds(c)

RequestTask(c) ==
  ReadRequest(c) \/ ShortRequest(c) \/ WriteChunk(c) \/ Finish(c) \/ RequestFails(c)

RunClient(c) ==
  \/ Connected(c) \/ ClientFails(c)
  \/ OpenBi(c) \/ WriteSome(c) \/ SendRequest(c) \/ ReadToEnd(c)

QuinnTasks(c) == Accept(c) \/ ConnectionTask(c) \/ RequestTask(c) \/ RunClient(c)

QuinnNext == Listen \/ \E c \in Clients : QuinnTasks(c) \/ LoseConnection(c)

-----------------------------------------------------------------------------
\* Type invariant of the server and the exchanges; the server writes no more than the
\* client has asked for.
QuinnTypeOK ==
  /\ server \in {"off", "starting", "listening"} \cup Over
  /\ conn \in [Clients -> Exchanges]
  /\ \A c \in Clients : conn[c].written <= conn[c].size

\* A client that has opened its stream gets the whole blob, whatever other clients do
\* that come, hang or leave, unless it is dropped, the network fails or the server ends.
ExchangeSucceeds ==
  \A c \in Clients :
    ClientIn(c, {"writing"}) ~> ClientIn(c, {"ok", "dropped"}) \/ conn[c].lost

\* No task outlives its client: the accept loop and the request end, also when the
\* client leaves without a word in the middle of either, or of its request.
TasksEnd ==
  \A c \in Clients :
    Ended(c) ~> ~TaskIn(c, {"incoming", "accepting"}) /\ ~RequestIn(c, {"reading", "serving"})

RequestSent(c) == conn[c].header = "whole"

\* run succeeds only with exactly the requested bytes, also when the server is
\* cancelled and its dropped stream ends early.
Exchange == INSTANCE PerfExchange WITH
  Clients   <- Clients,
  phase     <- [c \in Clients |->
                  IF ~RequestSent(c) THEN "idle"
                  ELSE IF ClientIn(c, {"failed", "dropped"}) THEN "lost" ELSE "open"],
  requested <- [c \in Clients |-> IF RequestSent(c) THEN conn[c].size ELSE 0],
  delivered <- [c \in Clients |-> conn[c].delivered],
  finished  <- [c \in Clients |-> ClientIn(c, {"ok"})]

ImplementsExchange == Exchange!Spec
=============================================================================
