---------------------------- MODULE NeqoClient_proofs ----------------------------
(***************************************************************************)
(* What holds of the neqo client for any size and any length of the        *)
(* response, whatever the socket, the library and the server do.           *)
(***************************************************************************)
EXTENDS NeqoClient, TLAPS

-----------------------------------------------------------------------------
(***************************************************************************)
(* The inductive invariant.                                                *)
(***************************************************************************)

\* Bytes get from the server through socket and library to run, and none is added.
BytesInv ==
  /\ sent \in 0 .. reply
  /\ socket.data <= reply
  /\ buffered <= reply
  /\ received <= buffered

\* The request is in the stream from the start of run, with which a failed connect
\* is told from a failed run; nothing is counted before.
CallInv ==
  /\ call = "connect" => ~written
  /\ call \in {"run", "ok"} => written
  /\ ~written => received = 0

IInv == TypeOK /\ BytesInv /\ CallInv

-----------------------------------------------------------------------------
(***************************************************************************)
(* The steps.                                                              *)
(***************************************************************************)
LEMMA InitInv == Init => IInv
<1> SUFFICES ASSUME Init PROVE IInv
  OBVIOUS
<1>1. size \in Nat /\ reply \in Nat
  BY SizesAssumption, RepliesAssumption DEF Init
<1>2. TypeOK
  <2>1. {received, buffered} \subseteq 0 .. reply
    BY <1>1 DEF Init
  <2>2. socket \in [readable : BOOLEAN, flight : BOOLEAN, data : Nat, fin : BOOLEAN,
                    close : {"none", "error", "clean"}]
    BY DEF Init, EmptySocket
  <2>3. QED
    BY <2>1, <2>2 DEF Init, TypeOK
<1>3. BytesInv
  BY <1>1 DEF Init, BytesInv, EmptySocket
<1>4. CallInv
  BY DEF Init, CallInv
<1>5. QED
  BY <1>2, <1>3, <1>4 DEF IInv

LEMMA SizeNat == TypeOK => size \in Nat /\ reply \in Nat
BY SizesAssumption, RepliesAssumption DEF TypeOK

LEMMA ConnectDoneStep ==
  ASSUME IInv, ConnectDone
  PROVE  IInv'
<1>1. UNCHANGED <<size, received, buffered, reply, sent, socket>>
  BY DEF ConnectDone, serverVars
<1>2. TypeOK'
  BY <1>1 DEF IInv, TypeOK, ConnectDone, serverVars
<1>3. BytesInv'
  BY <1>1 DEF IInv, BytesInv
<1>4. CallInv'
  BY DEF IInv, CallInv, ConnectDone
<1>5. QED
  BY <1>2, <1>3, <1>4 DEF IInv

LEMMA RunDoneStep ==
  ASSUME IInv, RunDone
  PROVE  IInv'
<1>1. UNCHANGED <<size, written, buffered, reply, sent, socket, state>>
  BY DEF RunDone, serverVars
<1>2. received' \in {received, buffered}
  BY DEF RunDone, ReadToEnd
<1>3. response_done' \in BOOLEAN
  BY DEF IInv, TypeOK, RunDone
<1>4. call' \in {"run", "ok", "failed"}
  BY DEF RunDone, RunResult
<1>5. step' \in {"done", "output"} /\ events' = {}
  BY DEF RunDone
<1>6. TypeOK'
  <2>1. received' \in 0 .. reply
    BY <1>2 DEF IInv, TypeOK
  <2>2. QED
    BY <1>1, <1>3, <1>4, <1>5, <2>1 DEF IInv, TypeOK, RunDone
<1>7. BytesInv'
  BY <1>1, <1>2, SizeNat DEF IInv, TypeOK, BytesInv
<1>8. CallInv'
  BY <1>1, <1>4 DEF IInv, CallInv, RunDone
<1>9. QED
  BY <1>6, <1>7, <1>8 DEF IInv

LEMMA OutputStep ==
  ASSUME IInv, Output
  PROVE  IInv'
<1>1. UNCHANGED <<size, received, written, buffered, bufferedFin, reply, sent, socket,
                  response_done>>
  BY DEF Output, SendBatch, SendBlocked, Writable, OutputDone, taskVars, libVars,
         serverVars
<1>2. BytesInv'
  BY <1>1 DEF IInv, BytesInv
<1>3. CallInv'
  BY <1>1 DEF IInv, CallInv, Output, SendBatch, SendBlocked, Writable, OutputDone, taskVars
<1>4. CASE SendBatch \/ SendBlocked \/ Writable
  <2>1. TypeOK'
    <3>1. CASE SendBatch
      BY <1>1, <3>1 DEF IInv, TypeOK, SendBatch, taskVars
    <3>2. CASE SendBlocked
      BY <1>1, <3>2 DEF IInv, TypeOK, SendBlocked, libVars
    <3>3. CASE Writable
      BY <1>1, <3>3 DEF IInv, TypeOK, Writable, libVars
    <3>4. QED
      BY <1>4, <3>1, <3>2, <3>3
  <2>2. QED
    BY <1>2, <1>3, <2>1 DEF IInv
<1>5. CASE OutputDone
  <2>1. /\ state' \in {state, "closed", "connected"}
        /\ reason' \in {reason, "error"}
        /\ expired' = FALSE
        /\ UNCHANGED <<call, unsent>>
    BY <1>5 DEF OutputDone, LibraryWorks
  <2>2. timeout' \in BOOLEAN /\ step' \in {"done", "wait"}
    BY <1>5 DEF OutputDone, NextStep
  <2>3. events' \subseteq events \cup {"Closed", "Connected"}
    <3>1. events' \in {events, events \cup {"Closed"}, events \cup {"Connected"}}
      BY <1>5 DEF OutputDone, LibraryWorks
    <3>2. QED
      BY <3>1
  <2>4. TypeOK'
    <3>1. /\ state' \in {"init", "auth", "authenticated", "connected", "draining", "closed"}
          /\ reason' \in {"none", "error", "clean"}
          /\ step' \in {"done", "output", "blocked", "wait"}
      BY <2>1, <2>2 DEF IInv, TypeOK
    <3>2. events' \subseteq {"AuthenticationNeeded", "Connected", "RecvStreamReadable",
                             "Draining", "Closed"}
      BY <2>3 DEF IInv, TypeOK
    <3>3. {timeout', response_done', unsent', written', bufferedFin', expired'} \subseteq BOOLEAN
      BY <1>1, <2>1, <2>2 DEF IInv, TypeOK
    <3>4. QED
      BY <1>1, <2>1, <3>1, <3>2, <3>3 DEF IInv, TypeOK
  <2>5. QED
    BY <1>2, <1>3, <2>4 DEF IInv
<1>6. QED
  BY <1>4, <1>5 DEF Output

LEMMA SocketReadableStep ==
  ASSUME IInv, SocketReadable
  PROVE  IInv'
<1>1. UNCHANGED <<call, timeout, size, received, response_done, written, expired, reply, sent>>
  BY DEF SocketReadable, serverVars
<1>2. socket' = EmptySocket /\ step' = "done"
  BY DEF SocketReadable
<1>3. buffered' \in {buffered, socket.data} /\ buffered <= buffered'
  BY SizeNat DEF IInv, TypeOK, SocketReadable
<1>4. /\ state' \in {"draining", "auth", state} /\ reason' = socket.close
      /\ {bufferedFin', unsent'} \subseteq BOOLEAN
      /\ events' \subseteq
           events \cup {"AuthenticationNeeded", "RecvStreamReadable", "Draining"}
  BY DEF IInv, TypeOK, SocketReadable, InputEvents
<1>5. BytesInv'
  BY <1>1, <1>2, <1>3, SizeNat DEF IInv, TypeOK, BytesInv, EmptySocket
<1>6. TypeOK'
  <2>1. buffered' \in 0 .. reply
    BY <1>3, SizeNat DEF IInv, TypeOK, BytesInv
  <2>2. QED
    BY <1>1, <1>2, <1>4, <2>1 DEF IInv, TypeOK, EmptySocket
<1>7. CallInv'
  BY <1>1 DEF IInv, CallInv
<1>8. QED
  BY <1>5, <1>6, <1>7 DEF IInv

LEMMA TimerFiresStep ==
  ASSUME IInv, TimerFires
  PROVE  IInv'
<1>1. UNCHANGED <<call, timeout, size, received, response_done, state, reason, events,
                  written, buffered, bufferedFin, socket, reply, sent>>
      /\ step' = "done"
  BY DEF TimerFires, serverVars
<1>2. {expired', unsent'} \subseteq BOOLEAN
  BY DEF TimerFires
<1>3. TypeOK'
  BY <1>1, <1>2 DEF IInv, TypeOK
<1>4. BytesInv' /\ CallInv'
  BY <1>1 DEF IInv, BytesInv, CallInv
<1>5. QED
  BY <1>3, <1>4 DEF IInv

LEMMA SocketErrorStep ==
  ASSUME IInv, SocketError
  PROVE  IInv'
<1>1. call' = "failed"
      /\ UNCHANGED <<step, timeout, size, received, response_done, libVars, socket, serverVars>>
  BY DEF SocketError
<1>2. TypeOK'
  BY <1>1 DEF IInv, TypeOK, libVars, serverVars
<1>3. BytesInv' /\ CallInv'
  BY <1>1 DEF IInv, BytesInv, CallInv, libVars, serverVars
<1>4. QED
  BY <1>2, <1>3 DEF IInv

LEMMA ServerStep ==
  ASSUME IInv, Server
  PROVE  IInv'
<1>1. UNCHANGED <<taskVars, libVars, reply>>
  BY DEF Server, Flight, Respond, Response, ServerCloses, Arrive
<1> DEFINE Sockets == [readable : BOOLEAN, flight : BOOLEAN, data : Nat, fin : BOOLEAN,
                       close : {"none", "error", "clean"}]
           Within == socket' \in Sockets /\ sent' \in 0 .. reply /\ socket'.data <= reply
<1>2. Within
  <2>1. CASE Flight
    BY <2>1, SizeNat DEF IInv, TypeOK, BytesInv, Flight, Arrive
  <2>2. ASSUME NEW how \in {"error", "clean"}, ServerCloses(how)
        PROVE  Within
    BY <2>2, SizeNat DEF IInv, TypeOK, BytesInv, ServerCloses, Arrive
  <2>3. ASSUME NEW n \in sent .. reply, NEW fin \in BOOLEAN, Response(n, fin)
        PROVE  Within
    <3>1. n \in Nat /\ n <= reply
      BY SizeNat DEF IInv, BytesInv
    <3>2. socket' = [socket EXCEPT !.data = n, !.fin = @ \/ fin, !.readable = TRUE]
      BY <2>3 DEF IInv, TypeOK, Response, Arrive
    <3>3. sent' = n /\ n \in 0 .. reply
      BY <2>3, <3>1, SizeNat DEF Response, IInv, BytesInv
    <3>4. QED
      BY <3>1, <3>2, <3>3 DEF IInv, TypeOK
  <2>4. QED
    BY <2>1, <2>2, <2>3 DEF Server, Respond
<1>3. TypeOK'
  BY <1>1, <1>2 DEF IInv, TypeOK, taskVars, libVars
<1>4. BytesInv' /\ CallInv'
  BY <1>1, <1>2 DEF IInv, BytesInv, CallInv, taskVars, libVars
<1>5. QED
  BY <1>3, <1>4 DEF IInv

LEMMA StepInv == IInv /\ [Next]_vars => IInv'
<1> SUFFICES ASSUME IInv, [Next]_vars PROVE IInv'
  OBVIOUS
<1>1. CASE Next
  BY <1>1, ConnectDoneStep, RunDoneStep, OutputStep, SocketReadableStep, TimerFiresStep,
     SocketErrorStep, ServerStep DEF Next
<1>2. CASE UNCHANGED vars
  BY <1>2 DEF IInv, TypeOK, BytesInv, CallInv, vars, taskVars, libVars, serverVars
<1>3. QED
  BY <1>1, <1>2

LEMMA Invariance == Spec => []IInv
BY InitInv, StepInv, PTL DEF Spec

-----------------------------------------------------------------------------
(***************************************************************************)
(* The theorems.                                                           *)
(***************************************************************************)

\* The task, the library and the socket keep their types; run never counts more bytes
\* than the response has, in whatever pieces and however often the stream is read.
THEOREM TypeCorrect == Spec => []TypeOK
<1>1. IInv => TypeOK
  BY DEF IInv
<1>2. QED
  BY <1>1, Invariance, PTL

-----------------------------------------------------------------------------
(***************************************************************************)
(* The refinement of PerfExchange.                                         *)
(***************************************************************************)

\* connect and everything the library and the network do is not seen.
LEMMA UnseenSteps ==
  ASSUME IInv,
         \/ SendBatch \/ SendBlocked \/ Writable \/ OutputDone
         \/ SocketReadable \/ TimerFires \/ Server \/ UNCHANGED vars
  PROVE  UNCHANGED Exchange!vars
<1>1. UNCHANGED <<call, size, received, written>>
  BY DEF SendBatch, SendBlocked, Writable, OutputDone, SocketReadable, TimerFires, Server, Flight,
         Respond, Response, ServerCloses, Arrive, vars, taskVars, libVars
<1>2. QED
  BY <1>1 DEF Exchange!vars, Overrun

LEMMA ConnectDoneSeen ==
  ASSUME IInv, ConnectDone
  PROVE  Exchange!Request("client") \/ UNCHANGED Exchange!vars
<1>1. call = "connect" /\ ~written /\ received = 0 /\ UNCHANGED <<size, received>>
  BY DEF IInv, CallInv, ConnectDone
<1>2. ~Overrun /\ ~Overrun'
  BY <1>1, SizeNat DEF IInv, Overrun
<1>3. CASE written'
  <2>1. call' = "run"
    BY <1>1, <1>3 DEF ConnectDone
  <2>2. size \in Sizes
    BY DEF IInv, TypeOK
  <2>3. Exchange!Request("client")
    BY <1>1, <1>2, <1>3, <2>1, <2>2 DEF Exchange!Request
  <2>4. QED
    BY <2>3
<1>4. CASE ~written'
  <2>1. call' # "ok"
    BY DEF ConnectDone
  <2>2. QED
    BY <1>1, <1>2, <1>4, <2>1 DEF Exchange!vars
<1>5. QED
  BY <1>3, <1>4

\* What run has counted, as far as it is of the exchange.
Counted == IF Overrun THEN size ELSE received

\* run returns "ok" only with all that it asked for; with less or with more, the
\* exchange is lost.
LEMMA RunDoneSeen ==
  ASSUME IInv, IInv', RunDone
  PROVE  \/ Exchange!Deliver("client") \/ Exchange!Lose("client")
         \/ UNCHANGED Exchange!vars
<1>1. call = "run" /\ written /\ written' /\ size' = size
  BY DEF IInv, CallInv, RunDone
<1>2. /\ size \in Nat /\ received \in Nat /\ received' \in Nat /\ received <= received'
  BY SizeNat DEF IInv, TypeOK, BytesInv, RunDone, ReadToEnd
<1>3. call' = "ok" => received' = size
  BY <1>1 DEF RunDone, RunResult
<1>4. call' \in {"run", "ok", "failed"}
  BY DEF RunDone, RunResult
<1>5. CASE Overrun
  <2>1. Overrun' /\ call' # "ok"
    BY <1>1, <1>2, <1>3, <1>5 DEF Overrun
  <2>2. QED
    BY <1>1, <1>5, <2>1 DEF Exchange!vars
<1>6. CASE ~Overrun /\ (Overrun' \/ call' = "failed")
  <2>1. call' # "ok"
    BY <1>1, <1>2, <1>3, <1>6 DEF Overrun
  <2>2. \E n \in received .. size : n = Counted'
    BY <1>1, <1>2, <1>6 DEF Overrun, Counted
  <2>3. QED
    BY <1>1, <1>6, <2>1, <2>2 DEF Exchange!Lose, Counted
<1>7. CASE ~Overrun /\ ~Overrun' /\ call' # "failed"
  <2>1. received' \in received .. size
    BY <1>1, <1>2, <1>7 DEF Overrun
  <2>2. CASE call' = "ok"
    BY <1>1, <1>3, <1>7, <2>1, <2>2 DEF Exchange!Deliver
  <2>3. CASE call' = "run"
    BY <1>1, <1>7, <2>1, <2>3 DEF Exchange!Deliver
  <2>4. QED
    BY <1>4, <1>7, <2>2, <2>3
<1>8. QED
  BY <1>5, <1>6, <1>7

LEMMA SocketErrorSeen ==
  ASSUME IInv, SocketError
  PROVE  Exchange!Lose("client") \/ UNCHANGED Exchange!vars
<1>1. call' = "failed" /\ UNCHANGED <<written, size, received>>
  BY DEF SocketError, libVars
<1>2. Overrun' = Overrun
  BY <1>1 DEF Overrun
<1>3. CASE written /\ ~Overrun
  <2>1. call = "run"
    BY <1>3 DEF IInv, CallInv, SocketError, Active
  <2>2. received \in received .. size
    BY <1>3, SizeNat DEF IInv, TypeOK, Overrun
  <2>3. QED
    BY <1>1, <1>2, <1>3, <2>1, <2>2 DEF Exchange!Lose
<1>4. CASE ~written \/ Overrun
  <2>1. call # "ok"
    BY DEF SocketError, Active
  <2>2. QED
    BY <1>1, <1>2, <1>4, <2>1 DEF Exchange!vars
<1>5. QED
  BY <1>3, <1>4

\* Every step of the client is one that the protocol allows, or none that its caller
\* can tell: run succeeds only with exactly the bytes it asked for, however long the
\* response is.
THEOREM Refinement == Spec => ImplementsExchange
<1>1. Init => Exchange!Init
  <2>1. Init => ~Overrun
    BY SizesAssumption DEF Init, Overrun
  <2>2. QED
    BY <2>1 DEF Init, Exchange!Init
<1>2. IInv /\ IInv' /\ [Next]_vars => [Exchange!Next]_Exchange!vars
  <2> SUFFICES ASSUME IInv, IInv', [Next]_vars PROVE [Exchange!Next]_Exchange!vars
    OBVIOUS
  <2>1. Exchange!Request("client") \/ Exchange!Deliver("client") \/ Exchange!Lose("client")
          => Exchange!Next
    BY DEF Exchange!Next
  <2>2. CASE \/ SendBatch \/ SendBlocked \/ Writable \/ OutputDone
             \/ SocketReadable \/ TimerFires \/ Server \/ UNCHANGED vars
    BY <2>2, UnseenSteps
  <2>3. CASE ConnectDone \/ RunDone \/ SocketError
    BY <2>1, <2>3, ConnectDoneSeen, RunDoneSeen, SocketErrorSeen
  <2>4. QED
    BY <2>2, <2>3 DEF Next, Output
<1>3. QED
  BY <1>1, <1>2, Invariance, PTL DEF Spec, Exchange!Spec, ImplementsExchange
=============================================================================
