------------------------- MODULE QuicheBenchmark_proofs -------------------------
(***************************************************************************)
(* What holds of a client and a server of the quiche implementation for    *)
(* any sizes and any flow-control window. However the request arrives, the *)
(* limit is kept to, the client's worker survives and nobody waits in      *)
(* vain; if it arrives in one piece, as its 8 bytes do in practice, the    *)
(* exchange is the one that was asked for.                                 *)
(***************************************************************************)
EXTENDS QuicheBenchmark, TLAPS

-----------------------------------------------------------------------------
(***************************************************************************)
(* The header.                                                             *)
(***************************************************************************)
LEMMA SizeNat == TypeOK => size \in Nat
<1>1. 0 .. (Base * Base - 1) \subseteq Nat
  OBVIOUS
<1>2. QED
  BY <1>1, SizesAssumption DEF TypeOK

LEMMA Digits ==
  ASSUME NEW n \in Nat
  PROVE  /\ ToBytes(n)[1] \in Nat /\ ToBytes(n)[2] \in Nat
         /\ Base * ToBytes(n)[1] + ToBytes(n)[2] = n
<1>1. Base \in Nat \ {0}
  BY BaseAssumption
<1>2. n \div Base \in Nat /\ n % Base \in Nat /\ n = Base * (n \div Base) + (n % Base)
  BY <1>1, Z3
<1>3. ToBytes(n)[1] = n \div Base /\ ToBytes(n)[2] = n % Base
  BY DEF ToBytes, HeaderLen
<1>4. QED
  BY <1>2, <1>3

\* Whatever was read is parsed as some number.
LEMMA ParsedType ==
  ASSUME TypeOK
  PROVE  FromBytes(ReadBuffer) \in Nat
<1>1. size \in Nat /\ Base \in Nat
  BY SizeNat, BaseAssumption
<1>2. ToBytes(size)[1] \in Nat /\ ToBytes(size)[2] \in Nat
  BY <1>1, Digits
<1>3. arrived \in 0 .. 2 /\ read \in 0 .. arrived
  BY DEF TypeOK, HeaderLen
<1>4. \A i \in 1 .. 2 : read + i <= arrived => read + i = 1 \/ read + i = 2
  BY <1>3
<1>5. ASSUME NEW i \in 1 .. 2 PROVE ReadBuffer[i] \in Nat
  <2>1. ReadBuffer[i] = IF read + i <= arrived THEN ToBytes(size)[read + i] ELSE 0
    BY DEF ReadBuffer, HeaderLen
  <2>2. CASE read + i <= arrived
    BY <1>2, <1>4, <2>1, <2>2
  <2>3. CASE ~(read + i <= arrived)
    BY <2>1, <2>3
  <2>4. QED
    BY <2>2, <2>3
<1>6. ReadBuffer[1] \in Nat /\ ReadBuffer[2] \in Nat
  BY <1>5
<1>7. \A a, b, c \in Nat : a * b + c \in Nat
  OBVIOUS
<1>8. QED
  BY <1>1, <1>6, <1>7 DEF FromBytes

\* A whole request is parsed as the size that the client put into it.
LEMMA ParsedWhole ==
  ASSUME TypeOK, arrived = HeaderLen, read = 0
  PROVE  FromBytes(ReadBuffer) = size
<1>1. ReadBuffer[1] = ToBytes(size)[1] /\ ReadBuffer[2] = ToBytes(size)[2]
  BY DEF ReadBuffer, HeaderLen
<1>2. QED
  BY <1>1, SizeNat, Digits DEF FromBytes

-----------------------------------------------------------------------------
(***************************************************************************)
(* Types and flow control, for any delivery.                               *)
(***************************************************************************)

\* The server keeps to the limit, and the client reads what was sent.
FlowInv == sent <= limit /\ got <= sent

LEMMA InitFlow == Init => TypeOK /\ FlowInv
<1> SUFFICES ASSUME Init PROVE TypeOK /\ FlowInv
  OBVIOUS
<1>1. limit \in Nat /\ sent = 0 /\ got = 0
  BY WindowAssumption DEF Init
<1>2. {queued, pending_req, clientWoken, gotFin, serverWoken, written, finSent, handshake}
        \subseteq BOOLEAN
  BY DEF Init
<1>3. arrived \in 0 .. HeaderLen /\ read \in 0 .. arrived
  BY DEF Init, HeaderLen
<1>4. QED
  BY <1>1, <1>2, <1>3 DEF Init, TypeOK, FlowInv

\* The steps that move no data.
LEMMA ControlFlow ==
  ASSUME TypeOK, FlowInv,
         \/ SendRequest \/ RequestDropped \/ Cancel \/ ClientWrites \/ ClientWakes \/ ServerWakes
         \/ HandshakePacket \/ ResponsePacket \/ (\E how \in {"closed", "lost"} : Close(how))
         \/ UNCHANGED vars
  PROVE  TypeOK' /\ FlowInv'
<1>1. UNCHANGED <<size, got, gotFin, serverWoken, pending_res, arrived, reqFin, read, sent, finSent, limit>>
  BY DEF SendRequest, RequestDropped, Cancel, ClientWrites, ClientWakes, ServerWakes,
         HandshakePacket, ResponsePacket, Close, vars, clientVars, serverVars, requestVars,
         responseVars
<1>2. /\ run' \in {"connected", "awaiting", "ok", "failed", "cancelled"}
      /\ client' \in {"reads", "writes", "wait"} \cup Ended
      /\ server' \in {"reads", "writes", "wait", "closed", "lost"}
  BY DEF SendRequest, RequestDropped, Cancel, ClientWrites, ClientWakes, ServerWakes,
         HandshakePacket, ResponsePacket, Close, vars, clientVars, serverVars, Ended, TypeOK
<1>3. {queued', pending_req', clientWoken', written', handshake'} \subseteq BOOLEAN
  BY DEF SendRequest, RequestDropped, Cancel, ClientWrites, ClientWakes, ServerWakes,
         HandshakePacket, ResponsePacket, Close, vars, clientVars, requestVars, TypeOK
<1>4. QED
  BY <1>1, <1>2, <1>3 DEF TypeOK, FlowInv

LEMMA ClientReadsFlow ==
  ASSUME TypeOK, FlowInv, ClientReads
  PROVE  TypeOK' /\ FlowInv'
<1>1. UNCHANGED <<size, queued, serverVars, requestVars, responseVars, handshake>>
      /\ clientWoken' = FALSE
  BY DEF ClientReads
<1>2. got' \in Nat /\ got' <= sent
  BY DEF ClientReads, TypeOK, FlowInv
<1>3. {gotFin', pending_req'} \subseteq BOOLEAN
  BY DEF ClientReads, AnswerRequest, TypeOK
<1>4. /\ run' \in {"connected", "awaiting", "ok", "failed", "cancelled"}
      /\ client' \in {"reads", "writes", "wait"} \cup Ended
  BY DEF ClientReads, AnswerRequest, Ended, TypeOK
<1>5. QED
  BY <1>1, <1>2, <1>3, <1>4 DEF TypeOK, FlowInv, serverVars, requestVars, responseVars

LEMMA ServerReadsFlow ==
  ASSUME TypeOK, FlowInv, ServerReads
  PROVE  TypeOK' /\ FlowInv'
<1>1. UNCHANGED <<clientVars, written, arrived, responseVars, handshake>>
      /\ serverWoken' = FALSE /\ server' = "writes"
  BY DEF ServerReads
<1>2. pending_res' \in Nat \cup {None}
  BY ParsedType DEF ServerReads, TypeOK
<1>3. read' \in 0 .. arrived' /\ reqFin' \in {"absent", "arrived", "read"}
  BY DEF ServerReads, TypeOK
<1>4. QED
  BY <1>1, <1>2, <1>3 DEF TypeOK, FlowInv, clientVars, responseVars

\* What one call of stream_send accepts.
LEMMA Accepted ==
  ASSUME TypeOK, FlowInv, ServerWrites, pending_res # None, finSent = FALSE
  PROVE  \E n \in Nat : /\ n <= pending_res /\ sent' = sent + n /\ sent' <= limit
                        /\ finSent' = (n = pending_res)
                        /\ pending_res' = ResponseLeft(pending_res, n)
                        /\ n = pending_res \/ sent' = limit
<1>1. pending_res \in Nat /\ sent \in Nat /\ limit \in Nat /\ sent <= limit
  BY DEF TypeOK, FlowInv
<1> DEFINE n == Lesser(pending_res, limit - sent)
<1>2. n \in Nat /\ n <= pending_res /\ sent + n <= limit
      /\ (n = pending_res \/ sent + n = limit)
  BY <1>1 DEF Lesser
<1>3. sent' = sent + n /\ finSent' = (n = pending_res) /\ pending_res' = ResponseLeft(pending_res, n)
  BY DEF ServerWrites
<1> HIDE DEF n
<1>4. QED
  BY <1>2, <1>3

LEMMA ServerWritesFlow ==
  ASSUME TypeOK, FlowInv, ServerWrites
  PROVE  TypeOK' /\ FlowInv'
<1>1. UNCHANGED <<clientVars, serverWoken, requestVars, limit, handshake>>
      /\ server' \in {"reads", "wait"}
  BY DEF ServerWrites
<1>2. sent' \in Nat /\ sent <= sent' /\ sent' <= limit /\ pending_res' \in Nat \cup {None}
      /\ finSent' \in BOOLEAN
  <2>1. CASE pending_res # None /\ finSent = FALSE
    <3>1. PICK n \in Nat : /\ n <= pending_res /\ sent' = sent + n /\ sent' <= limit
                           /\ finSent' = (n = pending_res)
                           /\ pending_res' = ResponseLeft(pending_res, n)
      BY <2>1, Accepted
    <3>2. pending_res \in Nat /\ sent \in Nat
      BY <2>1 DEF TypeOK
    <3>3. pending_res' \in Nat \cup {None}
      BY <3>1, <3>2 DEF ResponseLeft
    <3>4. QED
      BY <3>1, <3>2, <3>3
  <2>2. CASE ~(pending_res # None /\ finSent = FALSE)
    <3>1. finSent \in BOOLEAN
      BY DEF TypeOK
    <3>2. UNCHANGED <<pending_res, sent, finSent>>
      BY <2>2, <3>1 DEF ServerWrites
    <3>3. QED
      BY <3>2 DEF TypeOK, FlowInv
  <2>3. QED
    BY <2>1, <2>2
<1>3. got \in Nat /\ sent \in Nat /\ got <= sent
  BY DEF TypeOK, FlowInv
<1>4. FlowInv'
  BY <1>1, <1>2, <1>3 DEF FlowInv, clientVars
<1>5. TypeOK'
  BY <1>1, <1>2 DEF TypeOK, clientVars, requestVars
<1>6. QED
  BY <1>4, <1>5

LEMMA PacketFlow ==
  ASSUME TypeOK, FlowInv, DeliverRequest \/ CreditPacket
  PROVE  TypeOK' /\ FlowInv'
<1>1. UNCHANGED <<clientVars, server, pending_res, written, read, sent, finSent, handshake>>
      /\ serverWoken' = TRUE
  BY DEF DeliverRequest, RequestPacket, CreditPacket, requestVars, responseVars
<1>2. arrived' \in 0 .. HeaderLen /\ read' \in 0 .. arrived' /\ reqFin' \in {"absent", "arrived", "read"}
  <2>1. CASE DeliverRequest
    <3>1. PICK k \in arrived .. HeaderLen, fin \in BOOLEAN : RequestPacket(k, fin)
      BY <2>1 DEF DeliverRequest
    <3>2. arrived' = k /\ reqFin' \in {"arrived", reqFin}
      BY <3>1 DEF RequestPacket
    <3>3. QED
      BY <1>1, <3>2 DEF TypeOK, HeaderLen
  <2>2. CASE CreditPacket
    BY <1>1, <2>2 DEF CreditPacket, requestVars, TypeOK
  <2>3. QED
    BY <2>1, <2>2
<1>3. limit' \in Nat /\ limit <= limit'
  <2>1. CASE DeliverRequest
    BY <2>1 DEF DeliverRequest, RequestPacket, responseVars, TypeOK
  <2>2. CASE CreditPacket
    BY <2>2, WindowAssumption DEF CreditPacket, TypeOK
  <2>3. QED
    BY <2>1, <2>2
<1>4. FlowInv'
  BY <1>1, <1>3 DEF TypeOK, FlowInv, clientVars
<1>5. TypeOK'
  BY <1>1, <1>2, <1>3 DEF TypeOK, clientVars
<1>6. QED
  BY <1>4, <1>5

LEMMA StepFlow == TypeOK /\ FlowInv /\ [Next]_vars => TypeOK' /\ FlowInv'
<1> SUFFICES ASSUME TypeOK, FlowInv, [Next]_vars PROVE TypeOK' /\ FlowInv'
  OBVIOUS
<1>1. CASE Client \/ Cancel \/ UNCHANGED vars
  BY <1>1, ControlFlow DEF Client
<1>2. CASE ClientWorker
  BY <1>2, ControlFlow, ClientReadsFlow DEF ClientWorker
<1>3. CASE ServerWorker
  BY <1>3, ControlFlow, ServerReadsFlow, ServerWritesFlow DEF ServerWorker
<1>4. CASE Network
  BY <1>4, ControlFlow, PacketFlow DEF Network
<1>5. CASE IdleTimeout \/ ConnectionLost
  <2>1. \E how \in {"closed", "lost"} : Close(how)
    BY <1>5 DEF IdleTimeout, ConnectionLost
  <2>2. QED
    BY <2>1, ControlFlow
<1>6. QED
  BY <1>1, <1>2, <1>3, <1>4, <1>5 DEF Next

LEMMA FlowInvariance == Spec => [](TypeOK /\ FlowInv)
BY InitFlow, StepFlow, PTL DEF Spec

\* Both ends keep their types, however the request arrives: the response never counts
\* below zero, whatever size was parsed and however the credit comes.
THEOREM TypeCorrect == Spec => []TypeOK
BY FlowInvariance, PTL

-----------------------------------------------------------------------------
(***************************************************************************)
(* The exchange, for any delivery: the inductive invariant.                *)
(***************************************************************************)

\* What has arrived of the request is read, or the server's worker has been woken.
RequestInv ==
  /\ written = FALSE => reqFin = "absent" /\ arrived = 0
  /\ reqFin # "absent" => arrived = HeaderLen
  /\ reqFin = "read" => read = HeaderLen
  /\ read < arrived \/ reqFin = "arrived" => serverWoken = TRUE

\* A response has begun when something is read, is in the map until it is complete, and
\* only the lack of credit makes the server's worker wait with some of it left.
ResponseInv ==
  /\ read = 0 => pending_res = None /\ sent = 0 /\ finSent = FALSE
  /\ read # 0 /\ pending_res = None => finSent = TRUE
  /\ server = "wait" /\ pending_res # None /\ finSent = FALSE => sent = limit \/ serverWoken = TRUE

\* The oneshot sender is in the map from the writing of the request, or its failure, to
\* the end of the response, of which run hears once.
ClientInv ==
  /\ queued = TRUE => written = FALSE
  /\ gotFin = TRUE => finSent = TRUE /\ got = sent
  /\ client # "failed" => (pending_req = TRUE <=> written = TRUE /\ gotFin = FALSE)
  /\ client = "failed" => pending_req = TRUE /\ queued = FALSE /\ written = FALSE
  /\ run = "connected" => queued = FALSE /\ written = FALSE /\ pending_req = FALSE
  /\ run = "awaiting" => queued = TRUE \/ written = TRUE \/ pending_req = TRUE
  /\ run = "ok" => gotFin = TRUE
  /\ run = "failed" => client \in Ended
  /\ WorkerSurvives

DeliveryInv == RequestInv /\ ResponseInv /\ ClientInv

LEMMA InitDelivery == Init => DeliveryInv
<1> SUFFICES ASSUME Init PROVE DeliveryInv
  OBVIOUS
<1>1. RequestInv /\ ResponseInv
  BY NoneAssumption DEF Init, RequestInv, ResponseInv
<1>2. ClientInv
  BY DEF Init, ClientInv, WorkerSurvives, Ended
<1>3. QED
  BY <1>1, <1>2 DEF DeliveryInv

-----------------------------------------------------------------------------
(***************************************************************************)
(* The steps.                                                              *)
(***************************************************************************)
LEMMA Booleans ==
  ASSUME TypeOK
  PROVE  /\ queued \in BOOLEAN /\ pending_req \in BOOLEAN /\ clientWoken \in BOOLEAN
         /\ gotFin \in BOOLEAN /\ serverWoken \in BOOLEAN /\ written \in BOOLEAN
         /\ finSent \in BOOLEAN /\ handshake \in BOOLEAN
BY DEF TypeOK

LEMMA RunStep ==
  ASSUME TypeOK, DeliveryInv, SendRequest \/ RequestDropped \/ Cancel
  PROVE  DeliveryInv'
<1>1. UNCHANGED <<size, pending_req, client, clientWoken, got, gotFin,
                  serverVars, requestVars, responseVars, handshake>>
  BY DEF SendRequest, RequestDropped, Cancel
<1>2. RequestInv' /\ ResponseInv'
  BY <1>1 DEF DeliveryInv, RequestInv, ResponseInv, serverVars, requestVars, responseVars
<1>3. ClientInv'
  <2>1. CASE SendRequest
    BY <1>1, <2>1, Booleans DEF SendRequest, DeliveryInv, ClientInv, WorkerSurvives, Ended,
                                requestVars, responseVars
  <2>2. CASE RequestDropped
    BY <1>1, <2>2 DEF RequestDropped, DeliveryInv, ClientInv, WorkerSurvives, Ended, requestVars,
                      responseVars
  <2>3. CASE Cancel
    BY <1>1, <2>3 DEF Cancel, DeliveryInv, ClientInv, WorkerSurvives, Ended, requestVars, responseVars
  <2>4. QED
    BY <2>1, <2>2, <2>3
<1>4. QED
  BY <1>2, <1>3 DEF DeliveryInv

\* The worker of the client when it finds the end of the response: run waits for it.
LEMMA EndAnswered ==
  ASSUME TypeOK, DeliveryInv, ClientReads, gotFin' # gotFin
  PROVE  /\ gotFin = FALSE /\ gotFin' = TRUE /\ finSent = TRUE /\ got' = sent /\ written = TRUE
         /\ pending_req' = FALSE
         /\ \/ run = "cancelled" /\ client' = "panicked" /\ run' = run
            \/ run = "awaiting" /\ client' = "writes" /\ run' = "ok"
<1>1. client = "reads" /\ clientWoken = TRUE /\ gotFin' \in {gotFin, finSent /\ got' = sent}
      /\ AnswerRequest
  BY Booleans DEF ClientReads, EndRead
<1>2. gotFin = FALSE /\ gotFin' = TRUE /\ finSent = TRUE /\ got' = sent
  <2>1. CASE gotFin = TRUE
    <3>1. finSent = TRUE /\ got = sent
      BY <2>1 DEF DeliveryInv, ClientInv
    <3>2. got' = sent
      BY <3>1, <1>1 DEF ClientReads, TypeOK
    <3>3. QED
      BY <1>1, <2>1, <3>1, <3>2
  <2>2. CASE gotFin = FALSE
    BY <1>1, <2>2, Booleans
  <2>3. QED
    BY <2>1, <2>2, Booleans
<1>3. written = TRUE
  <2>1. read # 0
    BY <1>2 DEF DeliveryInv, ResponseInv
  <2>2. arrived # 0
    BY <2>1 DEF TypeOK, HeaderLen
  <2>3. QED
    BY <2>2, Booleans DEF DeliveryInv, RequestInv
<1>4. pending_req = TRUE
  BY <1>1, <1>2, <1>3 DEF DeliveryInv, ClientInv
<1>5. run \in {"awaiting", "cancelled"}
  <2>1. client \notin Ended
    BY <1>1 DEF Ended
  <2>2. QED
    BY <1>2, <1>3, <2>1 DEF TypeOK, DeliveryInv, ClientInv
<1>6. QED
  BY <1>1, <1>2, <1>3, <1>4, <1>5 DEF AnswerRequest

LEMMA ClientReadsStep ==
  ASSUME TypeOK, DeliveryInv, ClientReads
  PROVE  DeliveryInv'
<1>1. UNCHANGED <<size, queued, serverVars, requestVars, responseVars, handshake>>
  BY DEF ClientReads
<1>2. RequestInv' /\ ResponseInv'
  BY <1>1 DEF DeliveryInv, RequestInv, ResponseInv, serverVars, requestVars, responseVars
<1>3. ClientInv'
  <2>1. CASE gotFin' # gotFin
    BY <1>1, <2>1, EndAnswered DEF DeliveryInv, ClientInv, WorkerSurvives, Ended, requestVars, responseVars
  <2>2. CASE gotFin' = gotFin
    <3>1. client = "reads" /\ client' = "writes" /\ UNCHANGED <<run, pending_req>>
      BY <2>2 DEF ClientReads, EndRead
    <3>2. gotFin = TRUE => got' = sent
      <4>1. gotFin = TRUE => got = sent
        BY DEF DeliveryInv, ClientInv
      <4>2. got' = got \/ got' \in got .. sent
        BY DEF ClientReads
      <4>3. got \in Nat /\ sent \in Nat
        BY DEF TypeOK
      <4>4. QED
        BY <4>1, <4>2, <4>3
    <3>3. client \notin Ended
      BY <3>1 DEF Ended
    <3>4. QED
      BY <1>1, <2>2, <3>1, <3>2, <3>3
      DEF DeliveryInv, ClientInv, WorkerSurvives, Ended, requestVars, responseVars
  <2>3. QED
    BY <2>1, <2>2
<1>4. QED
  BY <1>2, <1>3 DEF DeliveryInv

LEMMA ClientWritesStep ==
  ASSUME TypeOK, DeliveryInv, ClientWrites
  PROVE  DeliveryInv'
<1>1. UNCHANGED <<run, size, clientWoken, got, gotFin, serverVars, arrived, reqFin, read,
                  responseVars, handshake>>
      /\ client = "writes" /\ queued' = FALSE
  BY DEF ClientWrites
<1>2. CASE queued = FALSE
  <2>1. pending_req' = pending_req /\ written' = written /\ client' \in {"reads", "wait"}
    BY <1>2, Booleans DEF ClientWrites
  <2>2. QED
    BY <1>1, <1>2, <2>1 DEF DeliveryInv, RequestInv, ResponseInv, ClientInv, WorkerSurvives, Ended,
                            serverVars, responseVars
<1>3. CASE queued = TRUE
  <2>1. /\ pending_req' = TRUE
        /\ \/ client' \in {"reads", "wait"} /\ written' = TRUE
           \/ client' = "failed" /\ written' = written
    BY <1>3 DEF ClientWrites
  <2>2. written = FALSE
    BY <1>3 DEF DeliveryInv, ClientInv
  <2>3. gotFin = FALSE
    <3>1. arrived = 0 /\ read = 0
      BY <2>2 DEF DeliveryInv, RequestInv, TypeOK
    <3>2. gotFin # TRUE
      BY <3>1 DEF DeliveryInv, ResponseInv, ClientInv
    <3>3. QED
      BY <3>2, Booleans
  <2>4. run # "connected" /\ (run = "failed" => client \in Ended)
    BY <1>3 DEF DeliveryInv, ClientInv
  <2>5. RequestInv' /\ ResponseInv'
    <3>1. written' = TRUE \/ written' = written
      BY <2>1
    <3>2. QED
      BY <1>1, <3>1 DEF DeliveryInv, RequestInv, ResponseInv, serverVars, responseVars
  <2>6. CASE client' \in {"reads", "wait"} /\ written' = TRUE
    <3>1. ClientInv'
      BY <1>1, <2>1, <2>3, <2>4, <2>6
      DEF DeliveryInv, ClientInv, WorkerSurvives, Ended, responseVars
    <3>2. QED
      BY <2>5, <3>1 DEF DeliveryInv
  <2>7. CASE client' = "failed" /\ written' = written
    <3>1. ClientInv'
      BY <1>1, <2>1, <2>2, <2>3, <2>4, <2>7
      DEF DeliveryInv, ClientInv, WorkerSurvives, Ended, responseVars
    <3>2. QED
      BY <2>5, <3>1 DEF DeliveryInv
  <2>8. QED
    BY <2>1, <2>6, <2>7
<1>4. QED
  BY <1>2, <1>3, Booleans

\* Whatever has arrived is read, and a response begins or begins again.
LEMMA ServerReadsStep ==
  ASSUME TypeOK, DeliveryInv, ServerReads
  PROVE  DeliveryInv'
<1>1. UNCHANGED <<clientVars, written, arrived, responseVars, handshake>> /\ server' = "writes"
  BY DEF ServerReads
<1>2. ClientInv'
  BY <1>1 DEF DeliveryInv, ClientInv, WorkerSurvives, clientVars, responseVars
<1>3. arrived \in 0 .. 2 /\ read \in 0 .. arrived
  BY DEF TypeOK, HeaderLen
<1>4. CASE serverWoken = TRUE /\ Readable
  <2>1. /\ read' = arrived
        /\ reqFin' = IF reqFin = "arrived" THEN "read" ELSE reqFin
        /\ pending_res' = FromBytes(ReadBuffer)
    BY <1>4 DEF ServerReads
  <2>2. arrived # 0
    BY <1>3, <1>4 DEF Readable, DeliveryInv, RequestInv, HeaderLen
  <2>3. pending_res' # None
    BY <2>1, ParsedType, NoneAssumption
  <2>4. RequestInv'
    BY <1>1, <1>3, <2>1 DEF DeliveryInv, RequestInv
  <2>5. ResponseInv'
    BY <1>1, <2>1, <2>2, <2>3 DEF ResponseInv
  <2>6. QED
    BY <1>2, <2>4, <2>5 DEF DeliveryInv
<1>5. CASE ~(serverWoken = TRUE /\ Readable)
  <2>1. UNCHANGED <<pending_res, read, reqFin>>
    BY <1>5, Booleans DEF ServerReads
  <2>2. ~Readable
    BY <1>5 DEF Readable, DeliveryInv, RequestInv
  <2>3. RequestInv'
    BY <1>1, <2>1, <2>2 DEF DeliveryInv, RequestInv, Readable
  <2>4. ResponseInv'
    BY <1>1, <2>1 DEF DeliveryInv, ResponseInv, responseVars
  <2>5. QED
    BY <1>2, <2>3, <2>4 DEF DeliveryInv
<1>6. QED
  BY <1>4, <1>5

LEMMA ServerWritesStep ==
  ASSUME TypeOK, FlowInv, DeliveryInv, ServerWrites
  PROVE  DeliveryInv'
<1>1. UNCHANGED <<clientVars, serverWoken, requestVars, limit, handshake>>
  BY DEF ServerWrites
<1>2. RequestInv'
  BY <1>1 DEF DeliveryInv, RequestInv, requestVars
<1>3. CASE pending_res # None /\ finSent = FALSE
  <2>1. PICK n \in Nat : /\ n <= pending_res /\ sent' = sent + n /\ sent' <= limit
                         /\ finSent' = (n = pending_res)
                         /\ pending_res' = ResponseLeft(pending_res, n)
                         /\ n = pending_res \/ sent' = limit
    BY <1>3, Accepted
  <2>2. read # 0
    BY <1>3 DEF DeliveryInv, ResponseInv
  <2>3. ResponseInv'
    <3>1. CASE n = pending_res
      <4>1. finSent' = TRUE
        BY <2>1, <3>1
      <4>2. QED
        BY <1>1, <2>2, <4>1 DEF ResponseInv, requestVars
    <3>2. CASE n # pending_res
      <4>1. pending_res' = pending_res - n /\ sent' = limit
        BY <2>1, <3>2 DEF ResponseLeft
      <4>2. pending_res' # None
        BY <1>3, <2>1, <4>1, NoneAssumption DEF TypeOK
      <4>3. QED
        BY <1>1, <2>2, <4>1, <4>2 DEF ResponseInv, requestVars
    <3>3. QED
      BY <3>1, <3>2
  <2>4. ClientInv'
    <3>1. gotFin = FALSE
      <4>1. gotFin # TRUE
        BY <1>3 DEF DeliveryInv, ClientInv
      <4>2. QED
        BY <4>1, Booleans
    <3>2. QED
      BY <1>1, <3>1 DEF DeliveryInv, ClientInv, WorkerSurvives, clientVars, requestVars
  <2>5. QED
    BY <1>2, <2>3, <2>4 DEF DeliveryInv
<1>4. CASE ~(pending_res # None /\ finSent = FALSE)
  <2>1. UNCHANGED <<pending_res, sent, finSent>>
    BY <1>4, Booleans DEF ServerWrites
  <2>2. ResponseInv'
    BY <1>1, <1>4, <2>1 DEF DeliveryInv, ResponseInv, requestVars
  <2>3. ClientInv'
    BY <1>1, <2>1 DEF DeliveryInv, ClientInv, WorkerSurvives, clientVars, requestVars
  <2>4. QED
    BY <1>2, <2>2, <2>3 DEF DeliveryInv
<1>5. QED
  BY <1>3, <1>4

LEMMA DeliverRequestStep ==
  ASSUME TypeOK, DeliveryInv, DeliverRequest
  PROVE  DeliveryInv'
<1>1. PICK k \in arrived .. HeaderLen, fin \in BOOLEAN : RequestPacket(k, fin)
  BY DEF DeliverRequest
<1>2. UNCHANGED <<clientVars, server, pending_res, written, read, responseVars, handshake>>
      /\ serverWoken' = TRUE /\ written = TRUE
  BY <1>1, Booleans DEF RequestPacket
<1>3. /\ arrived' = k /\ reqFin' = IF fin THEN "arrived" ELSE reqFin
      /\ fin => k = HeaderLen /\ reqFin = "absent"
  BY <1>1 DEF RequestPacket
<1>4. RequestInv'
  <2>1. reqFin' # "absent" => k = HeaderLen
    BY <1>3 DEF DeliveryInv, RequestInv, TypeOK, HeaderLen
  <2>2. reqFin' = "read" => read = HeaderLen
    BY <1>3 DEF DeliveryInv, RequestInv
  <2>3. QED
    BY <1>2, <1>3, <2>1, <2>2 DEF RequestInv
<1>5. ResponseInv'
  BY <1>2 DEF DeliveryInv, ResponseInv, responseVars
<1>6. ClientInv'
  BY <1>2 DEF DeliveryInv, ClientInv, WorkerSurvives, clientVars, responseVars
<1>7. QED
  BY <1>4, <1>5, <1>6 DEF DeliveryInv

\* Wake-ups, packets without data, and the end of the connection.
LEMMA OtherSteps ==
  ASSUME TypeOK, DeliveryInv,
         \/ ClientWakes \/ ServerWakes \/ HandshakePacket \/ ResponsePacket \/ CreditPacket
         \/ (\E how \in {"closed", "lost"} : Close(how)) \/ UNCHANGED vars
  PROVE  DeliveryInv'
<1>1. UNCHANGED <<run, size, queued, pending_req, got, gotFin, pending_res, requestVars,
                  sent, finSent>>
  BY DEF ClientWakes, ServerWakes, HandshakePacket, ResponsePacket, CreditPacket, Close, vars,
         clientVars, serverVars, responseVars
<1>2. serverWoken' = serverWoken \/ serverWoken' = TRUE
  BY DEF ClientWakes, ServerWakes, HandshakePacket, ResponsePacket, CreditPacket, Close, vars,
         clientVars, serverVars, responseVars
<1>3. limit' = limit \/ serverWoken' = TRUE
  BY DEF ClientWakes, ServerWakes, HandshakePacket, ResponsePacket, CreditPacket, Close, vars,
         clientVars, serverVars, responseVars
<1>4. server' = "wait" => server = "wait"
  BY DEF ClientWakes, ServerWakes, HandshakePacket, ResponsePacket, CreditPacket, Close, vars,
         clientVars, serverVars, responseVars
<1>5. \/ client' = client
      \/ client \notin Ended /\ client' \in {"reads", "closed", "lost"}
  BY DEF ClientWakes, ServerWakes, HandshakePacket, ResponsePacket, CreditPacket, Close, Open, vars,
         clientVars, serverVars, responseVars, Ended
<1>6. RequestInv'
  BY <1>1, <1>2 DEF DeliveryInv, RequestInv, requestVars
<1>7. ResponseInv'
  BY <1>1, <1>2, <1>3, <1>4 DEF DeliveryInv, ResponseInv, requestVars
<1>8. ClientInv'
  BY <1>1, <1>5 DEF DeliveryInv, ClientInv, WorkerSurvives, Ended, requestVars
<1>9. QED
  BY <1>6, <1>7, <1>8 DEF DeliveryInv

IInv == TypeOK /\ FlowInv /\ DeliveryInv

LEMMA StepInv == IInv /\ [Next]_vars => IInv'
<1> SUFFICES ASSUME IInv, [Next]_vars PROVE IInv'
  OBVIOUS
<1>1. TypeOK /\ FlowInv /\ DeliveryInv
  BY DEF IInv
<1>2. TypeOK' /\ FlowInv'
  BY <1>1, StepFlow
<1>3. DeliveryInv'
  <2>1. CASE Client \/ Cancel
    BY <1>1, <2>1, RunStep DEF Client
  <2>2. CASE ClientWorker
    BY <1>1, <2>2, ClientReadsStep, ClientWritesStep, OtherSteps DEF ClientWorker
  <2>3. CASE ServerWorker
    BY <1>1, <2>3, ServerReadsStep, ServerWritesStep, OtherSteps DEF ServerWorker
  <2>4. CASE Network \/ UNCHANGED vars
    BY <1>1, <2>4, DeliverRequestStep, OtherSteps DEF Network
  <2>5. CASE IdleTimeout \/ ConnectionLost
    <3>1. \E how \in {"closed", "lost"} : Close(how)
      BY <2>5 DEF IdleTimeout, ConnectionLost
    <3>2. QED
      BY <1>1, <3>1, OtherSteps
  <2>6. QED
    BY <2>1, <2>2, <2>3, <2>4, <2>5 DEF Next
<1>4. QED
  BY <1>2, <1>3 DEF IInv

LEMMA Invariance == Spec => []IInv
<1>1. Init => IInv
  BY InitFlow, InitDelivery DEF IInv
<1>2. QED
  BY <1>1, StepInv, PTL DEF Spec

-----------------------------------------------------------------------------
(***************************************************************************)
(* The size of the response, when the request arrives in one piece.        *)
(***************************************************************************)

\* The request is read whole and parsed once; what is sent and what is left make up
\* the size that was asked for.
WholeInv ==
  /\ reqFin = "absent" => arrived = 0
  /\ reqFin = "arrived" => read = 0
  /\ pending_res # None => finSent = FALSE /\ pending_res + sent = size
  /\ finSent = TRUE => sent = size

LEMMA InitWhole == Init => WholeInv
BY DEF Init, WholeInv

LEMMA StepWhole ==
  ASSUME Split = FALSE, IInv, WholeInv, [Next]_vars
  PROVE  WholeInv'
<1>1. TypeOK /\ FlowInv /\ RequestInv /\ ResponseInv
  BY DEF IInv, DeliveryInv
<1>2. CASE ServerReads /\ serverWoken = TRUE /\ Readable
  <2>1. UNCHANGED <<arrived, responseVars, size>>
    BY <1>2 DEF ServerReads, clientVars
  <2>2. reqFin = "arrived"
    BY <1>1, <1>2 DEF WholeInv, RequestInv, Readable, TypeOK, HeaderLen
  <2>3. read = 0 /\ arrived = HeaderLen
    BY <1>1, <2>2 DEF WholeInv, RequestInv
  <2>4. pending_res' = size /\ reqFin' = "read"
    BY <1>1, <1>2, <2>2, <2>3, ParsedWhole DEF ServerReads
  <2>5. sent = 0 /\ finSent = FALSE /\ size \in Nat
    BY <1>1, <2>3, SizeNat DEF ResponseInv
  <2>6. QED
    BY <2>1, <2>4, <2>5 DEF WholeInv, responseVars
<1>3. CASE ServerReads /\ ~(serverWoken = TRUE /\ Readable)
  <2>1. UNCHANGED <<arrived, responseVars, size, pending_res, read, reqFin>>
    BY <1>1, <1>3, Booleans DEF ServerReads, clientVars
  <2>2. QED
    BY <2>1 DEF WholeInv, responseVars
<1>4. CASE ServerWrites /\ pending_res # None
  <2>1. UNCHANGED <<size, requestVars>>
    BY <1>4 DEF ServerWrites, clientVars
  <2>2. finSent = FALSE /\ pending_res + sent = size
    BY <1>4 DEF WholeInv
  <2>3. PICK n \in Nat : /\ n <= pending_res /\ sent' = sent + n
                         /\ finSent' = (n = pending_res)
                         /\ pending_res' = ResponseLeft(pending_res, n)
    BY <1>1, <1>4, <2>2, Accepted
  <2>4. pending_res \in Nat /\ sent \in Nat
    BY <1>1, <1>4 DEF TypeOK
  <2>5. CASE n = pending_res
    <3>1. pending_res' = None /\ sent' = size
      BY <2>2, <2>3, <2>4, <2>5 DEF ResponseLeft
    <3>2. QED
      BY <2>1, <3>1 DEF WholeInv, requestVars
  <2>6. CASE n # pending_res
    <3>1. finSent' = FALSE /\ pending_res' = pending_res - n
      BY <2>3, <2>6 DEF ResponseLeft
    <3>2. pending_res' + sent' = size
      BY <2>2, <2>3, <2>4, <3>1
    <3>3. QED
      BY <2>1, <3>1, <3>2 DEF WholeInv, requestVars
  <2>7. QED
    BY <2>5, <2>6
<1>5. CASE ServerWrites /\ pending_res = None
  <2>1. UNCHANGED <<size, requestVars, pending_res, sent, finSent>>
    BY <1>5 DEF ServerWrites, clientVars
  <2>2. QED
    BY <2>1 DEF WholeInv, requestVars
<1>6. CASE DeliverRequest
  <2>1. PICK k \in arrived .. HeaderLen, fin \in BOOLEAN : RequestPacket(k, fin)
    BY <1>6 DEF DeliverRequest
  <2>2. /\ UNCHANGED <<size, read, pending_res, responseVars>>
        /\ reqFin = "absent" /\ reqFin' = "arrived"
    BY <2>1 DEF RequestPacket, clientVars
  <2>3. read = 0
    BY <1>1, <2>2 DEF WholeInv, TypeOK
  <2>4. QED
    BY <2>2, <2>3 DEF WholeInv, responseVars
<1>7. CASE ~ServerReads /\ ~ServerWrites /\ ~DeliverRequest
  <2>1. UNCHANGED <<size, arrived, read, reqFin, pending_res, sent, finSent>>
    BY <1>7
    DEF Next, Client, SendRequest, RequestDropped, Cancel, ClientWorker, ClientReads, ClientWrites,
        ClientWakes, ServerWorker, ServerWakes, Network, HandshakePacket, ResponsePacket,
        CreditPacket, IdleTimeout, ConnectionLost, Close, vars, clientVars, serverVars,
        requestVars, responseVars
  <2>2. QED
    BY <2>1 DEF WholeInv
<1>8. QED
  BY <1>2, <1>3, <1>4, <1>5, <1>6, <1>7

LEMMA WholeInvariance ==
  ASSUME Split = FALSE
  PROVE  Spec => [](IInv /\ WholeInv)
<1>1. Init => IInv /\ WholeInv
  BY InitFlow, InitDelivery, InitWhole DEF IInv
<1>2. IInv /\ WholeInv /\ [Next]_vars => (IInv /\ WholeInv)'
  BY StepInv, StepWhole
<1>3. QED
  BY <1>1, <1>2, PTL DEF Spec

-----------------------------------------------------------------------------
(***************************************************************************)
(* The theorems.                                                           *)
(***************************************************************************)

\* A run that succeeds has the whole blob, though nothing in run compares its length:
\* the end of the response is sent with the last of size bytes.
THEOREM GetsBlob ==
  ASSUME Split = FALSE
  PROVE  Spec => []ClientGetsBlob
<1>1. IInv /\ WholeInv => ClientGetsBlob
  BY DEF IInv, DeliveryInv, ClientInv, WholeInv, ClientGetsBlob
<1>2. QED
  BY <1>1, WholeInvariance, PTL

\* The entry of the map is never replaced while a response is in progress.
THEOREM Continues ==
  ASSUME Split = FALSE
  PROVE  Spec => []ResponseContinues
<1>1. IInv /\ WholeInv => ResponseContinues
  BY DEF WholeInv, ResponseContinues
<1>2. QED
  BY <1>1, WholeInvariance, PTL

\* The worker of the client finds the oneshot sender when the response ends, and its
\* receiver unless run was cancelled, also when a request in pieces is answered twice.
THEOREM Survives == Spec => []WorkerSurvives
<1>1. IInv => WorkerSurvives
  BY DEF IInv, DeliveryInv, ClientInv
<1>2. QED
  BY <1>1, Invariance, PTL

\* While a written request is unanswered, a packet is on its way or a worker has been
\* woken: for any window, flow control stops the server only until credit arrives, and
\* a piece of the request that the server has not read has woken it.
THEOREM NeverQuiet == Spec => []NeverQuietUnanswered
<1>1. ASSUME IInv PROVE NeverQuietUnanswered
  <2> SUFFICES ASSUME pending_req, Quiet PROVE FALSE
    BY DEF NeverQuietUnanswered
  <2>1. written = TRUE /\ gotFin = FALSE
    <3>1. client # "failed" /\ pending_req = TRUE
      BY <1>1, Booleans DEF IInv, Quiet
    <3>2. QED
      BY <1>1, <3>1 DEF IInv, DeliveryInv, ClientInv
  <2>2. /\ server = "wait" /\ serverWoken = FALSE /\ finSent = FALSE /\ reqFin # "absent"
        /\ limit = got + Window /\ got = sent
    BY <1>1, <2>1, Booleans DEF IInv, Quiet
  <2>3. arrived = HeaderLen /\ ~(read < arrived)
    BY <1>1, <2>2 DEF IInv, DeliveryInv, RequestInv
  <2>4. pending_res # None
    <3>1. read # 0
      BY <1>1, <2>3 DEF IInv, TypeOK, HeaderLen
    <3>2. QED
      BY <1>1, <2>2, <3>1 DEF IInv, DeliveryInv, ResponseInv
  <2>5. sent = limit
    BY <1>1, <2>2, <2>4 DEF IInv, DeliveryInv, ResponseInv
  <2>6. sent \in Nat
    BY <1>1 DEF IInv, TypeOK
  <2>7. QED
    BY <2>2, <2>5, <2>6, WindowAssumption
<1>2. QED
  BY <1>1, Invariance, PTL

-----------------------------------------------------------------------------
(***************************************************************************)
(* The refinement of PerfExchange.                                         *)
(***************************************************************************)
LEMMA WithinSize ==
  ASSUME IInv, WholeInv
  PROVE  got \in Nat /\ sent \in Nat /\ size \in Nat /\ got <= sent /\ sent <= size
<1>1. got \in Nat /\ sent \in Nat /\ size \in Nat /\ got <= sent
  BY SizeNat DEF IInv, TypeOK, FlowInv
<1>2. sent <= size
  <2>1. CASE pending_res # None
    <3>1. pending_res \in Nat /\ pending_res + sent = size
      BY <2>1 DEF IInv, TypeOK, WholeInv
    <3>2. QED
      BY <1>1, <3>1
  <2>2. CASE pending_res = None
    <3>1. sent = 0 \/ sent = size
      BY <2>2 DEF IInv, DeliveryInv, ResponseInv, WholeInv
    <3>2. QED
      BY <1>1, <3>1
  <2>3. QED
    BY <2>1, <2>2
<1>3. QED
  BY <1>1, <1>2

\* All that the server, the network and the workers do but for reading the response.
LEMMA UnseenSteps ==
  ASSUME IInv,
         \/ Cancel \/ ClientWrites \/ ClientWakes \/ ServerWorker \/ Network
         \/ (\E how \in {"closed", "lost"} : Close(how)) \/ UNCHANGED vars
  PROVE  UNCHANGED Exchange!vars
<1>1. UNCHANGED <<size, got>> /\ Asked' = Asked
  <2>1. CASE ClientWrites
    <3>1. (queued' \/ written' \/ pending_req') = (queued \/ written \/ pending_req)
      <4>1. queued' = FALSE /\ (written' = written \/ written' = (written \/ queued))
            /\ pending_req' = (pending_req \/ queued)
        BY <2>1 DEF ClientWrites
      <4>2. QED
        BY <4>1, Booleans DEF IInv
    <3>2. QED
      BY <2>1, <3>1 DEF ClientWrites, Asked
  <2>2. CASE ~ClientWrites
    BY <2>2 DEF Cancel, ClientWakes, ServerWorker, ServerReads, ServerWrites, ServerWakes, Network,
                HandshakePacket, DeliverRequest, RequestPacket, ResponsePacket, CreditPacket, Close,
                vars, clientVars, serverVars, requestVars, responseVars, Asked
  <2>3. QED
    BY <2>1, <2>2
<1>2. run' = run \/ (run = "awaiting" /\ run' = "cancelled")
  BY DEF Cancel, ClientWrites, ClientWakes, ServerWorker, ServerReads, ServerWrites, ServerWakes, Network,
         HandshakePacket, DeliverRequest, RequestPacket, ResponsePacket, CreditPacket, Close,
         vars, clientVars
<1>3. (run' = "failed") = (run = "failed") /\ (run' = "ok") = (run = "ok")
  BY <1>2
<1>4. QED
  BY <1>1, <1>3, Zenon DEF Exchange!vars, Asked

\* run asks, or finds that the connection has ended.
LEMMA SendRequestSeen ==
  ASSUME IInv, SendRequest
  PROVE  Exchange!Request("client") \/ UNCHANGED Exchange!vars
<1>1. /\ UNCHANGED <<size, got, written, pending_req>> /\ run = "connected"
      /\ queued = FALSE /\ written = FALSE /\ pending_req = FALSE
  BY DEF SendRequest, requestVars, IInv, DeliveryInv, ClientInv
<1>2. CASE client \in Ended
  <2>1. queued' = FALSE /\ run' = "failed"
    BY <1>1, <1>2 DEF SendRequest
  <2>2. QED
    BY <1>1, <2>1 DEF Exchange!vars, Asked
<1>3. CASE client \notin Ended
  <2>1. queued' = TRUE /\ run' = "awaiting"
    BY <1>3 DEF SendRequest
  <2>2. size \in Sizes
    BY DEF IInv, TypeOK
  <2>3. Exchange!Request("client")
    BY <1>1, <2>1, <2>2 DEF Exchange!Request, Asked
  <2>4. QED
    BY <2>3
<1>4. QED
  BY <1>2, <1>3

LEMMA RequestDroppedSeen ==
  ASSUME IInv, WholeInv, RequestDropped
  PROVE  Exchange!Lose("client")
<1>1. UNCHANGED <<size, got>> /\ (UNCHANGED Asked) /\ run = "awaiting" /\ run' = "failed"
  BY DEF RequestDropped, requestVars, Asked
<1>2. Asked
  BY <1>1 DEF IInv, DeliveryInv, ClientInv, Asked
<1>3. got \in got .. size
  BY WithinSize
<1>4. QED
  BY <1>1, <1>2, <1>3 DEF Exchange!Lose

LEMMA SeenDeliver ==
  ASSUME size' = size, Asked, Asked', run \notin {"ok", "failed"},
         run' = run \/ (run' = "ok" /\ got' = size), got' \in got .. size
  PROVE  Exchange!Deliver("client")
<1> DEFINE p == [c \in {"client"} |->
                   IF ~Asked THEN "idle"
                   ELSE IF run = "failed" THEN "lost" ELSE "open"]
           q == [c \in {"client"} |-> IF Asked THEN size ELSE 0]
           d == [c \in {"client"} |-> got]
           f == [c \in {"client"} |-> run = "ok"]
<1>1. p["client"] = "open" /\ p' = p
  OBVIOUS
<1>2. q["client"] = size /\ q' = q
  OBVIOUS
<1>3. d["client"] = got /\ d' = [d EXCEPT !["client"] = got']
  OBVIOUS
<1>4. ~f["client"]
  <2>1. run # "ok"
    OBVIOUS
  <2>2. QED
    BY <2>1, Zenon
<1>5. f' = f \/ (got' = size /\ f' = [f EXCEPT !["client"] = TRUE])
  <2>1. CASE run' = run
    BY <2>1
  <2>2. CASE run' = "ok" /\ got' = size
    <3>1. f' = [c \in {"client"} |-> TRUE]
      BY <2>2
    <3>2. QED
      BY <2>2, <3>1
  <2>3. QED
    BY <2>1, <2>2
<1>6. /\ p["client"] = "open" /\ ~f["client"]
      /\ \E n \in d["client"] .. q["client"] :
           /\ d' = [d EXCEPT !["client"] = n]
           /\ \/ UNCHANGED f
              \/ n = q["client"] /\ f' = [f EXCEPT !["client"] = TRUE]
      /\ UNCHANGED <<p, q>>
  <2> HIDE DEF p, q, d, f
  <2>1. QED
    BY <1>1, <1>2, <1>3, <1>4, <1>5
<1>7. QED
  BY <1>6, Zenon DEF Exchange!Deliver

\* The client's worker hands bytes on, and the end with the last of them.
LEMMA ClientReadsSeen ==
  ASSUME IInv, WholeInv, ClientReads
  PROVE  Exchange!Deliver("client") \/ UNCHANGED Exchange!vars
<1>1. UNCHANGED <<size, queued, written>> /\ client = "reads"
  BY DEF ClientReads, requestVars
<1>2. got' \in got .. sent
  BY WithinSize DEF ClientReads
<1>3. CASE gotFin' = gotFin /\ got' = got
  <2>1. run' = run
    BY <1>3 DEF ClientReads, EndRead
  <2>2. pending_req' = pending_req
    BY <1>3 DEF ClientReads, EndRead
  <2>3. QED
    BY <1>1, <1>3, <2>1, <2>2 DEF Exchange!vars, Asked
<1>4. CASE ~(gotFin' = gotFin /\ got' = got)
  <2>1. gotFin = FALSE
    <3>1. CASE gotFin' # gotFin
      BY <3>1, EndAnswered DEF IInv
    <3>2. CASE got' # got
      <4>1. gotFin # TRUE
        <5>1. got # sent
          BY <1>2, <3>2, WithinSize
        <5>2. QED
          BY <5>1 DEF IInv, DeliveryInv, ClientInv
      <4>2. QED
        BY <4>1, Booleans DEF IInv
    <3>3. QED
      BY <1>4, <3>1, <3>2
  <2>2. read # 0
    <3>1. CASE gotFin' # gotFin
      <4>1. finSent = TRUE
        BY <3>1, EndAnswered DEF IInv
      <4>2. QED
        BY <4>1 DEF IInv, DeliveryInv, ResponseInv
    <3>2. CASE got' # got
      <4>1. sent # 0
        BY <1>2, <3>2, WithinSize
      <4>2. QED
        BY <4>1 DEF IInv, DeliveryInv, ResponseInv
    <3>3. QED
      BY <1>4, <3>1, <3>2
  <2>3. written = TRUE
    <3>1. arrived # 0
      BY <2>2 DEF IInv, TypeOK, HeaderLen
    <3>2. QED
      BY <3>1, Booleans DEF IInv, DeliveryInv, RequestInv
  <2>4. run \notin {"ok", "failed"}
    BY <1>1, <2>1 DEF IInv, DeliveryInv, ClientInv, Ended
  <2>5. \/ run' = run
        \/ run' = "ok" /\ got' = size
    <3>1. CASE gotFin' # gotFin
      <4>1. finSent = TRUE /\ got' = sent /\ (run' = run \/ run' = "ok")
        BY <3>1, EndAnswered DEF IInv
      <4>2. sent = size
        BY <4>1 DEF WholeInv
      <4>3. QED
        BY <4>1, <4>2
    <3>2. CASE gotFin' = gotFin
      BY <3>2 DEF ClientReads, EndRead
    <3>3. QED
      BY <3>1, <3>2
  <2>6. got' \in got .. size
    BY <1>2, WithinSize
  <2>7. Exchange!Deliver("client")
    <3>1. Asked /\ Asked'
      BY <1>1, <2>3 DEF Asked
    <3>2. QED
      BY <1>1, <2>4, <2>5, <2>6, <3>1, SeenDeliver
  <2>8. QED
    BY <2>7
<1>5. QED
  BY <1>3, <1>4

\* The two ends together keep to the protocol: what run is told to have been delivered
\* is what it asked for, if the request arrives in one piece.
THEOREM Refinement ==
  ASSUME Split = FALSE
  PROVE  Spec => ImplementsExchange
<1>1. ASSUME Init PROVE Exchange!Init
  <2>1. ~Asked /\ run = "connected" /\ got = 0
    BY <1>1 DEF Init, Asked
  <2>2. [c \in {"client"} |-> run = "ok"] = [c \in {"client"} |-> FALSE]
    <3>1. (run = "ok") = FALSE
      BY <2>1
    <3>2. QED
      BY <3>1, Zenon
  <2>3. QED
    BY <2>1, <2>2 DEF Exchange!Init
<1>2. IInv /\ WholeInv /\ [Next]_vars => [Exchange!Next]_Exchange!vars
  <2> SUFFICES ASSUME IInv, WholeInv, [Next]_vars PROVE [Exchange!Next]_Exchange!vars
    OBVIOUS
  <2>1. Exchange!Request("client") \/ Exchange!Deliver("client") \/ Exchange!Lose("client")
          => Exchange!Next
    BY DEF Exchange!Next
  <2>2. CASE SendRequest \/ RequestDropped \/ ClientReads
    BY <2>1, <2>2, SendRequestSeen, RequestDroppedSeen, ClientReadsSeen
  <2>3. CASE Cancel \/ ClientWrites \/ ClientWakes \/ ServerWorker \/ Network \/ UNCHANGED vars
    BY <2>3, UnseenSteps
  <2>4. CASE IdleTimeout \/ ConnectionLost
    <3>1. \E how \in {"closed", "lost"} : Close(how)
      BY <2>4 DEF IdleTimeout, ConnectionLost
    <3>2. QED
      BY <3>1, UnseenSteps
  <2>5. QED
    BY <2>2, <2>3, <2>4 DEF Next, Client, ClientWorker
<1>3. QED
  BY <1>1, <1>2, WholeInvariance, PTL DEF Spec, Exchange!Spec, ImplementsExchange
=============================================================================
