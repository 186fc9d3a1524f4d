------------------------------ MODULE MsQuicClient ------------------------------
(***************************************************************************)
(* The msquic client (iut/msquic/src/client.cpp).                          *)
(*                                                                         *)
(* run_client starts a connection and waits on a condition variable; all   *)
(* else happens in callbacks on a thread of the library, one at a time per *)
(* connection.  Both threads use ClientState, which lives on the stack of  *)
(* run_client.  A callback is one action, except finish(), whose steps     *)
(* interleave with the waiting thread.                                     *)
(*                                                                         *)
(* msquic and the server are external: a stream's SHUTDOWN_COMPLETE comes  *)
(* before its connection's, which is the last callback.                    *)
(***************************************************************************)
EXTENDS BlobSize

CONSTANTS
  Blobs,    \* the values of --blob
  Replies   \* the lengths that a response may have, whatever was asked for

ASSUME BlobsAssumption == Blobs \subseteq Strings
ASSUME RepliesAssumption == Replies \subseteq Nat

VARIABLES
  \* the thread of run_client
  blob,        \* its --blob
  main,        \* "start", "lock", "check", "sleep", "returned" or "killed"
  exit,        \* the result of run_client, 2 while it runs
  \* the callbacks' thread: "idle" or the next step of finish()
  worker,      \* "idle", "lock", "set", "notify" or "unlock"
  \* ClientState
  requested, received, ok, done,
  mutex,       \* "free", "main" or "worker"
  notified,    \* cv has been notified since the waiter went to sleep
  \* the handles
  connection,  \* "none", "open" or "closed"
  stream,      \* "none", "open", "complete" or "closed"
  \* the library
  conn,        \* "starting", "connected" or "down"
  shutdown,    \* ConnectionShutdown has been called
  aborted,     \* the stream is being aborted by one of the ends
  written,     \* the request is accepted by StreamSend
  finished,    \* PEER_SEND_SHUTDOWN is delivered
  \* the server
  reply, sent, sentFin

mainVars == <<blob, main, exit>>
stateVars == <<requested, received, ok, done>>
lockVars == <<mutex, notified>>
handleVars == <<connection, stream>>
libVars == <<conn, shutdown, aborted, written, finished>>
serverVars == <<reply, sent, sentFin>>
vars == <<mainVars, worker, stateVars, lockVars, handleVars, libVars, serverVars>>

Init ==
  /\ blob \in Blobs
  /\ main = "start" /\ exit = 2 /\ worker = "idle"
  /\ requested = 0 /\ received = 0 /\ ok = FALSE /\ done = FALSE
  /\ mutex = "free" /\ notified = FALSE
  /\ connection = "none" /\ stream = "none"
  /\ conn = "starting" /\ shutdown = FALSE /\ aborted = FALSE
  /\ written = FALSE /\ finished = FALSE
  /\ reply \in Replies /\ sent = 0 /\ sentFin = FALSE

-----------------------------------------------------------------------------
(***************************************************************************)
(* run_client.                                                             *)
(***************************************************************************)
Start ==
  /\ main = "start" /\ ~Malformed(blob)
  /\ requested' = blob_bytes_from_string(blob)
  /\ connection' = "open"
  /\ main' = "lock"
  /\ UNCHANGED <<blob, exit, worker, received, ok, done, lockVars, stream, libVars, serverVars>>

\* The size is malformed, the configuration or ConnectionOpen fails, or ConnectionStart
\* does and the connection is closed.
StartFails ==
  /\ main = "start"
  /\ connection' \in (IF Malformed(blob) THEN {"none"} ELSE {"none", "closed"})
  /\ main' = "returned" /\ exit' = 1
  /\ UNCHANGED <<blob, worker, stateVars, lockVars, stream, libVars, serverVars>>

\* The port in the URL is no number: std::stoi throws, and nothing catches it.
PortInvalid ==
  /\ main = "start" /\ ~Malformed(blob)
  /\ main' = "killed"
  /\ UNCHANGED <<blob, exit, worker, stateVars, lockVars, handleVars, libVars, serverVars>>

\* The lock is taken, the first time and when cv.wait wakes up.
MainLocks ==
  /\ main = "lock"
  /\ mutex = "free"
  /\ mutex' = "main"
  /\ main' = "check"
  /\ UNCHANGED <<blob, exit, worker, stateVars, notified, handleVars, libVars, serverVars>>

\* Variant: a notification is waited for.
MustSleepUntilNotified == ~notified

\* The predicate of cv.wait.
MustSleep == ~done

MainSleeps ==
  /\ main = "check" /\ MustSleep
  /\ mutex' = "free" /\ notified' = FALSE
  /\ main' = "sleep"
  /\ UNCHANGED <<blob, exit, worker, stateVars, handleVars, libVars, serverVars>>

MainWakes(spurious) ==
  /\ main = "sleep"
  /\ notified \/ spurious
  /\ main' = "lock"
  /\ UNCHANGED <<blob, exit, worker, stateVars, lockVars, handleVars, libVars, serverVars>>

\* ok is read, the lock released, and the state destroyed with the stack frame.
MainReturns ==
  /\ main = "check" /\ ~MustSleep
  /\ mutex' = "free"
  /\ exit' = IF ok THEN 0 ELSE 1
  /\ main' = "returned"
  /\ UNCHANGED <<blob, worker, stateVars, notified, handleVars, libVars, serverVars>>

-----------------------------------------------------------------------------
(***************************************************************************)
(* connection_callback and stream_callback.                                *)
(***************************************************************************)
Callback == worker = "idle" /\ connection = "open"

\* CONNECTED: the stream is opened, started and the request sent; each can fail.
Connected ==
  /\ Callback /\ conn = "starting"
  /\ conn' = "connected"
  /\ \/ stream' = "open" /\ written' = TRUE /\ UNCHANGED <<shutdown, aborted>>
     \/ stream' = "none" /\ shutdown' = TRUE /\ UNCHANGED <<written, aborted>>    \* StreamOpen
     \/ stream' = "closed" /\ shutdown' = TRUE /\ UNCHANGED <<written, aborted>>  \* StreamStart
     \/ /\ stream' = "open" /\ aborted' = TRUE /\ shutdown' = TRUE                \* StreamSend
        /\ UNCHANGED written
  /\ UNCHANGED <<mainVars, worker, stateVars, lockVars, connection, finished, serverVars>>

\* Variant: the offset of the data is added too.
AddedOffset(n) == received + (received + n)

\* received after n more bytes.
Added(n) == received + n

StreamEvents == Callback /\ stream = "open" /\ conn = "connected" /\ ~shutdown

Receive ==
  /\ StreamEvents
  /\ \E n \in 1 .. sent - received : received' = Added(n)
  /\ UNCHANGED <<mainVars, worker, requested, ok, done, lockVars, handleVars, libVars, serverVars>>

\* Variant: a response that is too long is accepted.
CompleteAtLeast == received >= requested

\* The length of the blob.
Complete == received = requested

PeerSendShutdown ==
  /\ StreamEvents /\ ~finished
  /\ sentFin /\ received = sent
  /\ finished' = TRUE
  /\ ok' = Complete
  /\ UNCHANGED <<mainVars, worker, requested, received, done, lockVars, handleVars,
                 conn, shutdown, aborted, written, serverVars>>

\* Variant: the stream is not closed.
StreamAfterwards_leaked == "complete"

\* StreamClose.
StreamAfterwards == "closed"

\* Both directions are over, or one end has aborted the stream, or the connection
\* goes down: ConnectionShutdown follows.
StreamShutdownComplete ==
  /\ Callback /\ stream = "open"
  /\ finished \/ aborted \/ shutdown \/ conn = "down"
  /\ stream' = StreamAfterwards
  /\ shutdown' = TRUE
  /\ UNCHANGED <<mainVars, worker, stateVars, lockVars, connection, conn, aborted, written,
                 finished, serverVars>>

\* SHUTDOWN_INITIATED_BY_TRANSPORT: the handshake fails, the peer closes or is
\* gone, the idle timeout is over.
TransportShutdown ==
  /\ Callback /\ conn # "down"
  /\ conn' = "down"
  /\ UNCHANGED <<mainVars, worker, stateVars, lockVars, handleVars, shutdown, aborted,
                 written, finished, serverVars>>

\* SHUTDOWN_COMPLETE: ConnectionClose, then finish().
ConnectionShutdownComplete ==
  /\ Callback /\ stream # "open"
  /\ shutdown \/ conn = "down"
  /\ connection' = "closed"
  /\ worker' = "lock"
  /\ UNCHANGED <<mainVars, stateVars, lockVars, stream, libVars, serverVars>>

\* Variant: finish() does not take the lock.
WorkerSkipsLock ==
  /\ worker = "lock"
  /\ worker' = "set"
  /\ UNCHANGED <<mainVars, stateVars, lockVars, handleVars, libVars, serverVars>>

WorkerLocks ==
  /\ worker = "lock"
  /\ mutex = "free" /\ mutex' = "worker"
  /\ worker' = "set"
  /\ UNCHANGED <<mainVars, stateVars, notified, handleVars, libVars, serverVars>>

WorkerSets ==
  /\ worker = "set"
  /\ done' = TRUE
  /\ worker' = "notify"
  /\ UNCHANGED <<mainVars, requested, received, ok, lockVars, handleVars, libVars, serverVars>>

WorkerNotifies ==
  /\ worker = "notify"
  /\ notified' = (main = "sleep")
  /\ worker' = "unlock"
  /\ UNCHANGED <<mainVars, stateVars, mutex, handleVars, libVars, serverVars>>

WorkerUnlocks ==
  /\ worker = "unlock"
  /\ mutex' = "free"
  /\ worker' = "idle"
  /\ UNCHANGED <<mainVars, stateVars, notified, handleVars, libVars, serverVars>>

-----------------------------------------------------------------------------
\* The server answers, or aborts the stream.
Respond(n, fin) ==
  /\ written /\ ~sentFin
  /\ n \in sent .. reply
  /\ fin => n = reply
  /\ sent' = n /\ sentFin' = fin
  /\ UNCHANGED <<mainVars, worker, stateVars, lockVars, handleVars, libVars, reply>>

PeerAborts ==
  /\ written /\ ~sentFin /\ ~aborted
  /\ aborted' = TRUE
  /\ UNCHANGED <<mainVars, worker, stateVars, lockVars, handleVars, conn, shutdown, written,
                 finished, serverVars>>

-----------------------------------------------------------------------------
MainThread == Start \/ MainLocks \/ MainSleeps \/ MainWakes(FALSE) \/ MainReturns

Finish == WorkerLocks \/ WorkerSets \/ WorkerNotifies \/ WorkerUnlocks

Callbacks ==
  \/ Connected \/ Receive \/ PeerSendShutdown \/ StreamShutdownComplete
  \/ ConnectionShutdownComplete

Next ==
  \/ MainThread \/ StartFails \/ PortInvalid \/ MainWakes(TRUE)
  \/ Callbacks \/ TransportShutdown \/ Finish
  \/ PeerAborts \/ \E n \in sent .. reply, fin \in BOOLEAN : Respond(n, fin)

Spec == Init /\ [][Next]_vars

(***************************************************************************)
(* Both threads run, a mutex that becomes free again and again is obtained,*)
(* and a connection that neither connects nor is answered is ended by the  *)
(* idle timeout.                                                           *)
(***************************************************************************)
Fairness ==
  /\ WF_vars(MainThread) /\ SF_vars(MainLocks)
  /\ WF_vars(Callbacks) /\ WF_vars(Finish) /\ SF_vars(WorkerLocks)
  /\ WF_vars(TransportShutdown)

FairSpec == Spec /\ Fairness

-----------------------------------------------------------------------------
\* Type invariant of the two threads, ClientState and the library.
TypeOK ==
  /\ main \in {"start", "lock", "check", "sleep", "returned", "killed"}
  /\ exit \in 0 .. 2
  /\ worker \in {"idle", "lock", "set", "notify", "unlock"}
  /\ blob \in Blobs
  /\ requested \in 0 .. Word \div 8
  /\ mutex \in {"free", "main", "worker"}
  /\ connection \in {"none", "open", "closed"}
  /\ stream \in {"none", "open", "complete", "closed"}
  /\ conn \in {"starting", "connected", "down"}
  /\ {ok, done, notified, shutdown, aborted, written, finished, sentFin} \subseteq BOOLEAN
  /\ reply \in Replies /\ sent \in 0 .. reply /\ received \in 0 .. reply

\* When run_client returns, no callback that uses ClientState is running or can
\* still come (client.cpp: "Notifying under the lock lets the waiter safely
\* destroy this object once it wakes").
StateOutlivesCallbacks == main = "returned" => worker = "idle" /\ connection # "open"

\* On every path, failed starts included, the handles are closed when run_client
\* returns: close_msquic would wait for them for ever.
NothingLeftOpen ==
  main = "returned" => connection # "open" /\ stream \in {"none", "closed"}

\* run_client returns, whenever finish() runs: before the waiter holds the lock,
\* before it sleeps, or after.
RunReturns == main = "lock" ~> main = "returned"

\* run_client returns 0 only to a client that has its whole blob, of the size that the
\* documents give its --blob: unless the number of bits is too large for 64 bits.
DocumentedRequest == IF DocumentedBits(blob) < Word THEN DocumentedSize(blob) ELSE requested

\* The response has been longer than the request: the exchange is broken.
Overrun == received > requested

Exchange == INSTANCE PerfExchange WITH
  Clients   <- {"client"},
  Sizes     <- 0 .. Word \div 8,
  phase     <- [c \in {"client"} |->
                  IF ~written THEN "idle"
                  ELSE IF exit = 1 \/ Overrun THEN "lost" ELSE "open"],
  requested <- [c \in {"client"} |-> IF written THEN DocumentedRequest ELSE 0],
  delivered <- [c \in {"client"} |-> IF Overrun THEN DocumentedRequest ELSE received],
  finished  <- [c \in {"client"} |-> exit = 0]

ImplementsExchange == Exchange!Spec
=============================================================================
