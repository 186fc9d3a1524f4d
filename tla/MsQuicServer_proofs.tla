--------------------------- MODULE MsQuicServer_proofs ---------------------------
(***************************************************************************)
(* What holds of the msquic server for any number of connections, any      *)
(* sizes, any limit of a buffer and any memory.                            *)
(***************************************************************************)
EXTENDS MsQuicServer, SequenceTheorems, TLAPS

-----------------------------------------------------------------------------
(***************************************************************************)
(* The inductive invariant.                                                *)
(***************************************************************************)
Digit == 0 .. Base - 1

\* The digits of the request that have been read.
Digits(n) == IF n > Header THEN Header ELSE n

\* The handles that are open at each place of run_server and main.
ProcessInv ==
  /\ process = "start" => config = "none" /\ listener = "none"
  /\ process = "masked" => listener = "none"
  /\ process = "unlistened" => listener = "closed"
  /\ process \in {"closing", "exited"} => "open" \notin {config, listener}
  /\ process = "exited" => \A c \in Conns : conn[c] \in {"none", "closed"}

\* A stream lives as long as its StreamState, and within its connection.
StreamInv(c) ==
  /\ stream[c] = "open" <=> state[c] = "live"
  /\ stream[c] = "open" => conn[c] \in {"open", "down"}
  /\ conn[c] = "none" => stream[c] = "none"
  /\ stream[c] = "none" => read[c] = 0 /\ request[c] = <<>> /\ ~ended[c]

\* StreamState::request is the beginning of what the client sends.
RequestInv(c) ==
  stream[c] = "open" =>
    /\ Len(request[c]) = Digits(read[c])
    /\ \A i \in 1 .. Len(request[c]) : request[c][i] = Sent(c)[i]

\* The response belongs to the request, and to the library while it is sending.
ResponseInv(c) ==
  /\ aborted[c] # "no" => ended[c]
  /\ aborted[c] = "short" => read[c] < Header
  /\ ~ended[c] => ~sending[c] /\ ~finished[c] /\ delivered[c] = 0 /\ length[c] = 0
  /\ sending[c] => /\ stream[c] = "open"
                   /\ aborted[c] = "no"
                   /\ length[c] = BufferLength(size[c])
                   /\ response[c] = size[c]
  /\ length[c] <= size[c]
  /\ delivered[c] <= length[c]

ConnInv(c) == StreamInv(c) /\ RequestInv(c) /\ ResponseInv(c)

IInv ==
  /\ TypeOK
  /\ ProcessInv
  /\ \A c \in Conns : ConnInv(c)
-----------------------------------------------------------------------------
(***************************************************************************)
(* The header and the request buffer.                                      *)
(***************************************************************************)

\* What a client sends are digits, and request_from_bytes gives its size back.
LEMMA SentRequest ==
  ASSUME NEW c \in Conns, size[c] \in Sizes
  PROVE  /\ Sent(c) \in Seq(Digit)
         /\ Len(Sent(c)) = 3
         /\ \A i \in 1 .. 3 : Sent(c)[i] \in Digit
         /\ Sent(c)[1] * Base + Sent(c)[2] = size[c]
<1> DEFINE n == size[c]
<1>0. n \in 0 .. Base * Base - 1
  BY SizesAssumption
<1>1. Base \in Nat /\ Base > 0 /\ n \in 0 .. Base * Base - 1
  BY <1>0, BaseAssumption
<1> HIDE DEF n
<1>2. n = Base * (n \div Base) + (n % Base)
  BY <1>1, Z3
<1>3. n % Base \in Digit /\ n \div Base \in Nat
  BY <1>1 DEF Digit
<1>4. n \div Base < Base
  <2>1. SUFFICES ASSUME n \div Base >= Base PROVE FALSE
    BY <1>1, <1>3
  <2>2. Base * (n \div Base) >= Base * Base
    BY <1>1, <1>3, <2>1
  <2>3. n >= Base * Base
    BY <1>1, <1>2, <1>3, <2>2 DEF Digit
  <2>4. QED
    BY <1>1, <2>3
<1>5. n \div Base \in Digit /\ 0 \in Digit
  BY <1>1, <1>3, <1>4 DEF Digit
<1>6. (n \div Base) * Base + (n % Base) = n
  BY <1>1, <1>2, <1>3
<1>7. Sent(c) = <<n \div Base, n % Base, 0>>
  BY DEF Sent, n
<1>8. QED
  BY <1>3, <1>5, <1>6, <1>7 DEF n

\* Taken fills up the request and drops the rest.
LEMMA TakenAppends ==
  ASSUME NEW S, NEW old \in Seq(S), NEW data \in Seq(S)
  PROVE  LET t == Taken(old, data) IN
         /\ t \in Seq(S)
         /\ Len(t) = Digits(Len(old) + Len(data))
         /\ \A i \in 1 .. Len(t) : t[i] = IF i <= Len(old) THEN old[i] ELSE data[i - Len(old)]
<1> DEFINE all == old \o data
           m == Digits(Len(all))
<1>1. /\ all \in Seq(S)
      /\ Len(all) = Len(old) + Len(data)
      /\ \A i \in 1 .. Len(all) : all[i] = IF i <= Len(old) THEN old[i] ELSE data[i - Len(old)]
  BY ConcatProperties
<1>2. Len(all) \in Nat
  BY <1>1, LenProperties
<1> HIDE DEF all
<1>3. m \in 0 .. Len(all)
  BY <1>2 DEF Digits, Header
<1>4. \A i \in 1 .. m : all[i] \in S
  BY <1>1, <1>3, ElementOfSeq
<1> HIDE DEF m
<1>5. /\ SubSeq(all, 1, m) \in Seq(S)
      /\ Len(SubSeq(all, 1, m)) = m
      /\ \A i \in 1 .. m : SubSeq(all, 1, m)[i] = all[i]
  BY <1>2, <1>3, <1>4, SubSeqProperties
<1>6. Taken(old, data) = SubSeq(all, 1, m)
  BY DEF Taken, Digits, all, m
<1>7. QED
  BY <1>1, <1>3, <1>5, <1>6 DEF m

\* After any piece the request is still the beginning of what the client sends.
LEMMA ReceivedPrefix ==
  ASSUME NEW c \in Conns, size[c] \in Sizes,
         request[c] \in Seq(Digit), NEW r \in 0 .. Header + 1,
         Len(request[c]) = Digits(r),
         \A i \in 1 .. Len(request[c]) : request[c][i] = Sent(c)[i],
         NEW n \in r + 1 .. Header + 1
  PROVE  LET t == Taken(request[c], SubSeq(Sent(c), r + 1, n)) IN
         /\ t \in Seq(Digit)
         /\ Len(t) = Digits(n)
         /\ \A i \in 1 .. Len(t) : t[i] = Sent(c)[i]
<1> DEFINE data == SubSeq(Sent(c), r + 1, n)
           t == Taken(request[c], data)
<1>1. /\ Len(Sent(c)) = 3 /\ \A i \in 1 .. 3 : Sent(c)[i] \in Digit
  BY SentRequest
<1>2. /\ r \in 0 .. 3 /\ n \in r + 1 .. 3 /\ \A i \in r + 1 .. n : Sent(c)[i] \in Digit
  BY <1>1 DEF Header
<1>3. /\ data \in Seq(Digit)
      /\ Len(data) = n - r
      /\ \A i \in 1 .. n - r : data[i] = Sent(c)[r + i]
  <2>1. r + 1 \in Int /\ n \in Int /\ r + 1 <= n
    BY <1>2
  <2>2. /\ data \in Seq(Digit)
        /\ Len(data) = n - (r + 1) + 1
        /\ \A i \in 1 .. n - (r + 1) + 1 : data[i] = Sent(c)[r + 1 + i - 1]
    BY <1>2, <2>1, SubSeqProperties
  <2> HIDE DEF data
  <2>3. QED
    BY <1>2, <2>2
<1> HIDE DEF data
<1>4. /\ t \in Seq(Digit)
      /\ Len(t) = Digits(Digits(r) + (n - r))
      /\ \A i \in 1 .. Len(t) :
           t[i] = IF i <= Digits(r) THEN request[c][i] ELSE data[i - Digits(r)]
  <2> HIDE DEF t
  <2>1. LET u == Taken(request[c], data) IN
        /\ u \in Seq(Digit)
        /\ Len(u) = Digits(Len(request[c]) + Len(data))
        /\ \A i \in 1 .. Len(u) :
             u[i] = IF i <= Len(request[c]) THEN request[c][i] ELSE data[i - Len(request[c])]
    BY <1>3, TakenAppends
  <2>2. t = Taken(request[c], data)
    BY DEF t
  <2>3. QED
    BY <1>3, <2>1, <2>2
<1> HIDE DEF t
<1>5. Len(t) = Digits(n)
  BY <1>2, <1>4 DEF Digits, Header
<1>6. ASSUME NEW i \in 1 .. Len(t) PROVE t[i] = Sent(c)[i]
  <2>1. CASE i <= Digits(r)
    BY <1>4, <2>1
  <2>2. CASE ~(i <= Digits(r))
    <3>1. Digits(r) = r /\ i - r \in 1 .. n - r /\ r + (i - r) = i
      BY <1>2, <1>5, <2>2 DEF Digits, Header
    <3>2. QED
      BY <1>3, <1>4, <2>2, <3>1
  <2>3. QED
    BY <2>1, <2>2
<1>7. QED
  BY <1>4, <1>5, <1>6 DEF t, data

-----------------------------------------------------------------------------
(***************************************************************************)
(* The steps.                                                              *)
(***************************************************************************)

\* Nothing that belongs to connection d changes.
Untouched(d) ==
  /\ conn'[d] = conn[d] /\ stream'[d] = stream[d] /\ state'[d] = state[d]
  /\ request'[d] = request[d] /\ response'[d] = response[d] /\ length'[d] = length[d]
  /\ aborted'[d] = aborted[d] /\ sending'[d] = sending[d] /\ ended'[d] = ended[d]
  /\ read'[d] = read[d] /\ size'[d] = size[d] /\ delivered'[d] = delivered[d]
  /\ finished'[d] = finished[d]

LEMMA UntouchedInv ==
  ASSUME NEW d \in Conns, ConnInv(d), Untouched(d)
  PROVE  ConnInv(d)'
<1>1. StreamInv(d)'
  BY DEF ConnInv, StreamInv, Untouched
<1>2. RequestInv(d)'
  BY DEF ConnInv, RequestInv, Untouched, Sent
<1>3. ResponseInv(d)'
  BY DEF ConnInv, ResponseInv, Untouched, BufferLength
<1>4. QED
  BY <1>1, <1>2, <1>3 DEF ConnInv

\* The threads of the process leave the connections alone.
LEMMA ProcessStep ==
  ASSUME IInv,
         \/ Main \/ ConfigureFails \/ ListenPortInvalid \/ ListenFails \/ Signal
  PROVE  IInv'
<1>1. TypeOK' /\ ProcessInv'
  <2>1. CASE Configure
    BY <2>1 DEF IInv, TypeOK, ProcessInv, Configure, Places, streamVars, libVars, clientVars
  <2>2. CASE ConfigureFails
    BY <2>2 DEF IInv, TypeOK, ProcessInv, ConfigureFails, Places, streamVars, libVars, clientVars
  <2>3. CASE Listen
    BY <2>3 DEF IInv, TypeOK, ProcessInv, Listen, Places, streamVars, libVars, clientVars
  <2>4. CASE ListenFails
    BY <2>4 DEF IInv, TypeOK, ProcessInv, ListenFails, Places, streamVars, libVars, clientVars
  <2>5. CASE Signal
    BY <2>5 DEF IInv, TypeOK, ProcessInv, Signal, Alive, Places, streamVars, libVars, clientVars
  <2>6. CASE SigWait
    BY <2>6 DEF IInv, TypeOK, ProcessInv, SigWait, Places, streamVars, libVars, clientVars
  <2>7. CASE CloseListener
    BY <2>7 DEF IInv, TypeOK, ProcessInv, CloseListener, Places, streamVars, libVars, clientVars
  <2>8. CASE CloseConfiguration
    BY <2>8 DEF IInv, TypeOK, ProcessInv, CloseConfiguration, Places, streamVars, libVars,
                clientVars
  <2>9. CASE CloseRegistration
    BY <2>9 DEF IInv, TypeOK, ProcessInv, CloseRegistration, Places, streamVars, libVars,
                clientVars
  <2>10. CASE ListenPortInvalid
    BY <2>10 DEF IInv, TypeOK, ProcessInv, ListenPortInvalid, Places, streamVars, libVars,
                 clientVars
  <2>11. QED
    BY <2>1, <2>2, <2>3, <2>4, <2>5, <2>6, <2>7, <2>8, <2>9, <2>10 DEF Main
<1>2. ASSUME NEW d \in Conns PROVE ConnInv(d)'
  <2>1. Untouched(d)
    BY DEF Main, ConfigureFails, ListenPortInvalid, ListenFails, Signal, Configure, Listen,
           SigWait, CloseListener, CloseConfiguration, CloseRegistration,
           streamVars, libVars, clientVars, Untouched
  <2>2. QED
    BY <2>1, UntouchedInv DEF IInv
<1>3. QED
  BY <1>1, <1>2 DEF IInv

\* A step of connection c that preserves the invariant of c preserves all, if it
\* neither reopens connections nor leads the process anywhere but to its end.
LEMMA OneConnection ==
  ASSUME IInv, NEW c \in Conns, TypeOK', ConnInv(c)',
         \A d \in Conns \ {c} : Untouched(d),
         \/ UNCHANGED processVars /\ Alive
         \/ process' = "killed"
  PROVE  IInv'
<1>1. ProcessInv'
  BY DEF IInv, ProcessInv, processVars, Alive
<1>2. ASSUME NEW d \in Conns PROVE ConnInv(d)'
  BY UntouchedInv DEF IInv
<1>3. QED
  BY <1>1, <1>2 DEF IInv

LEMMA NewConnectionStep ==
  ASSUME IInv, NEW c \in Conns, NewConnection(c)
  PROVE  IInv'
<1>1. TypeOK'
  BY DEF IInv, TypeOK, NewConnection, processVars, streamVars, libVars, clientVars
<1>2. ConnInv(c)'
  BY DEF IInv, TypeOK, NewConnection, streamVars, libVars, clientVars, ConnInv, StreamInv,
         RequestInv, ResponseInv, Sent, BufferLength
<1>3. \A d \in Conns \ {c} : Untouched(d)
  BY DEF IInv, TypeOK, NewConnection, streamVars, libVars, clientVars, Untouched
<1>4. QED
  BY <1>1, <1>2, <1>3, OneConnection DEF NewConnection

LEMMA PeerStreamStartedStep ==
  ASSUME IInv, NEW c \in Conns, PeerStreamStarted(c)
  PROVE  IInv'
<1>1. TypeOK'
  BY DEF IInv, TypeOK, PeerStreamStarted, processVars, libVars, clientVars
<1>2. ConnInv(c)'
  <2>1. StreamInv(c)'
    BY DEF IInv, TypeOK, PeerStreamStarted, libVars, clientVars, ConnInv, StreamInv
  <2>2. RequestInv(c)'
    BY DEF IInv, TypeOK, PeerStreamStarted, libVars, clientVars, ConnInv, StreamInv, RequestInv,
           Digits, Header
  <2>3. ResponseInv(c)'
    BY DEF IInv, TypeOK, PeerStreamStarted, libVars, clientVars, ConnInv, StreamInv, ResponseInv,
           BufferLength
  <2>4. QED
    BY <2>1, <2>2, <2>3 DEF ConnInv
<1>3. \A d \in Conns \ {c} : Untouched(d)
  BY DEF IInv, TypeOK, PeerStreamStarted, libVars, clientVars, Untouched
<1>4. QED
  BY <1>1, <1>2, <1>3, OneConnection DEF PeerStreamStarted

LEMMA ConnectionShutdownCompleteStep ==
  ASSUME IInv, NEW c \in Conns, ConnectionShutdownComplete(c)
  PROVE  IInv'
<1>1. TypeOK'
  BY DEF IInv, TypeOK, ConnectionShutdownComplete, ConnectionAfterwards, processVars, streamVars,
         libVars, clientVars
<1>2. ConnInv(c)'
  BY DEF IInv, TypeOK, ConnectionShutdownComplete, ConnectionAfterwards, streamVars, libVars,
         clientVars, ConnInv, StreamInv, RequestInv, ResponseInv, Sent, BufferLength
<1>3. \A d \in Conns \ {c} : Untouched(d)
  BY DEF IInv, TypeOK, ConnectionShutdownComplete, streamVars, libVars, clientVars, Untouched
<1>4. QED
  BY <1>1, <1>2, <1>3, OneConnection DEF ConnectionShutdownComplete

LEMMA ReceiveStep ==
  ASSUME IInv, NEW c \in Conns, Receive(c)
  PROVE  IInv'
<1>1. PICK n \in read[c] + 1 .. Header + 1 :
        /\ request' = [request EXCEPT
                         ![c] = Taken(request[c], SubSeq(Sent(c), read[c] + 1, n))]
        /\ read' = [read EXCEPT ![c] = n]
  BY DEF Receive
<1> DEFINE t == Taken(request[c], SubSeq(Sent(c), read[c] + 1, n))
<1>2. /\ t \in Seq(Digit)
      /\ Len(t) = Digits(n)
      /\ \A i \in 1 .. Len(t) : t[i] = Sent(c)[i]
  <2>1. /\ size[c] \in Sizes /\ request[c] \in Seq(Digit) /\ read[c] \in 0 .. Header + 1
        /\ Len(request[c]) = Digits(read[c])
        /\ \A i \in 1 .. Len(request[c]) : request[c][i] = Sent(c)[i]
    BY DEF IInv, TypeOK, Digit, ConnInv, RequestInv, Receive
  <2> HIDE DEF t
  <2>2. LET u == Taken(request[c], SubSeq(Sent(c), read[c] + 1, n)) IN
         /\ u \in Seq(Digit)
         /\ Len(u) = Digits(n)
         /\ \A i \in 1 .. Len(u) : u[i] = Sent(c)[i]
    BY <2>1, ReceivedPrefix
  <2>3. QED
    BY <2>2 DEF t
<1>3. request' = [request EXCEPT ![c] = t]
  BY <1>1
<1> HIDE DEF t
<1>4. n \in Nat /\ n \in 1 .. Header + 1
  <2>1. read[c] \in 0 .. 3
    BY DEF IInv, TypeOK, Header
  <2>2. QED
    BY <2>1 DEF Header
<1>5. TypeOK'
  <2>1. request' \in [Conns -> Seq(Digit)] /\ read' \in [Conns -> 0 .. Header + 1]
    BY <1>1, <1>2, <1>3, <1>4 DEF IInv, TypeOK, Digit
  <2>2. ASSUME NEW d \in Conns PROVE Len(request'[d]) <= Header
    <3>1. CASE d = c
      <4>1. request'[d] = t
        BY <1>3, <3>1 DEF IInv, TypeOK
      <4>2. Len(t) <= 2
        BY <1>2, <1>4 DEF Digits, Header
      <4>3. QED
        BY <4>1, <4>2 DEF Header
    <3>2. CASE d # c
      BY <1>3, <3>2 DEF IInv, TypeOK
    <3>3. QED
      BY <3>1, <3>2
  <2>3. QED
    BY <2>1, <2>2 DEF IInv, TypeOK, Digit, Receive, processVars, clientVars
<1>6. ConnInv(c)'
  <2>1. /\ request'[c] = t /\ read'[c] = n /\ stream[c] = "open" /\ ~ended[c]
        /\ aborted[c] = "no"
    BY <1>1, <1>3 DEF IInv, TypeOK, Receive
  <2>2. StreamInv(c)'
    BY <2>1 DEF IInv, Receive, ConnInv, StreamInv
  <2>3. RequestInv(c)'
    BY <1>2, <2>1 DEF RequestInv, Receive, clientVars, Sent
  <2>4. ResponseInv(c)'
    BY <2>1 DEF IInv, Receive, ConnInv, ResponseInv, clientVars, BufferLength
  <2>5. QED
    BY <2>2, <2>3, <2>4 DEF ConnInv
<1>7. \A d \in Conns \ {c} : Untouched(d)
  BY <1>1 DEF IInv, TypeOK, Receive, clientVars, Untouched
<1>8. QED
  BY <1>5, <1>6, <1>7, OneConnection DEF Receive

\* What a complete request asks for is what the client wants.
LEMMA CompleteRequest ==
  ASSUME IInv, NEW c \in Conns, PeerSendShutdown(c), Len(request[c]) >= Header
  PROVE  request_from_bytes(request[c]) = size[c]
<1>1. /\ Len(request[c]) = 2
      /\ \A i \in 1 .. Len(request[c]) : request[c][i] = Sent(c)[i]
  <2>1. /\ Len(request[c]) = Digits(read[c])
        /\ \A i \in 1 .. Len(request[c]) : request[c][i] = Sent(c)[i]
    BY DEF IInv, ConnInv, RequestInv, PeerSendShutdown
  <2>2. read[c] \in 0 .. 3
    BY DEF IInv, TypeOK, Header
  <2>3. QED
    BY <2>1, <2>2 DEF Header, Digits
<1>2. request[c][1] = Sent(c)[1] /\ request[c][2] = Sent(c)[2]
  BY <1>1
<1>3. Sent(c)[1] * Base + Sent(c)[2] = size[c]
  BY SentRequest DEF IInv, TypeOK
<1>4. QED
  BY <1>2, <1>3 DEF request_from_bytes

\* 32 bits of a size are no more than the size.
LEMMA BufferLengthBound ==
  ASSUME NEW n \in Nat
  PROVE  /\ BufferLength(n) \in Nat
         /\ BufferLength(n) <= n
         /\ n < Limit => BufferLength(n) = n
         /\ n >= Limit => BufferLength(n) < n
<1>1. Limit \in Nat /\ Limit > 0
  BY BoundsAssumption
<1>2. n % Limit \in 0 .. Limit - 1
  BY <1>1
<1>3. n = Limit * (n \div Limit) + (n % Limit) /\ n \div Limit \in Nat
  BY <1>1, Z3
<1> DEFINE q == n \div Limit
           m == n % Limit
<1> HIDE DEF q, m
<1>4. n = Limit * q + m /\ q \in Nat /\ m \in 0 .. Limit - 1
  BY <1>2, <1>3 DEF q, m
<1>5. CASE q = 0
  <2>1. n = m
    BY <1>1, <1>4, <1>5
  <2>2. QED
    BY <1>1, <1>4, <2>1 DEF BufferLength, m
<1>6. CASE q # 0
  <2>1. Limit * q \in Nat /\ Limit * q >= Limit
    <3>1. q >= 1
      BY <1>4, <1>6
    <3>2. QED
      BY <1>1, <1>4, <3>1
  <2>2. n >= Limit /\ m < n /\ m \in Nat
    BY <1>1, <1>4, <2>1
  <2>3. QED
    BY <1>1, <2>2 DEF BufferLength, m
<1>7. QED
  BY <1>5, <1>6

\* What the callbacks on the end of a request have in common.
LEMMA ShutdownKeeps ==
  ASSUME IInv, NEW c \in Conns, PeerSendShutdown(c)
  PROVE  /\ StreamInv(c)' /\ RequestInv(c)'
         /\ stream[c] = "open" /\ ~ended[c] /\ ended'[c] /\ ~sending[c] /\ aborted[c] = "no"
         /\ ~finished[c] /\ delivered[c] = 0 /\ length[c] = 0
         /\ size[c] \in Nat /\ read[c] \in Nat
<1>1. /\ stream[c] = "open" /\ ~ended[c] /\ ended'[c] /\ ~sending[c] /\ aborted[c] = "no"
      /\ ~finished[c] /\ delivered[c] = 0 /\ length[c] = 0
      /\ read[c] \in Nat
  <2>1. stream[c] = "open" /\ ~ended[c] /\ aborted[c] = "no"
    BY DEF PeerSendShutdown
  <2>2. ended'[c]
    BY DEF IInv, TypeOK, PeerSendShutdown
  <2>3. ~sending[c] /\ ~finished[c] /\ delivered[c] = 0 /\ length[c] = 0
    BY <2>1 DEF IInv, ConnInv, ResponseInv
  <2>4. read[c] \in Nat
    <3>1. read[c] \in 0 .. 3
      BY DEF IInv, TypeOK, Header
    <3>2. QED
      BY <3>1
  <2>5. QED
    BY <2>1, <2>2, <2>3, <2>4
<1>2. size[c] \in Nat
  <2>1. size[c] \in 0 .. Base * Base - 1
    BY SizesAssumption DEF IInv, TypeOK
  <2>2. QED
    BY <2>1
<1>3. StreamInv(c)' /\ RequestInv(c)'
  BY <1>1 DEF IInv, ConnInv, StreamInv, RequestInv, Sent, PeerSendShutdown, clientVars
<1>4. QED
  BY <1>1, <1>2, <1>3

LEMMA ShortRequestStep ==
  ASSUME IInv, NEW c \in Conns, ShortRequest(c)
  PROVE  IInv'
<1>1. PeerSendShutdown(c)
  BY DEF ShortRequest
<1>2. TypeOK'
  BY DEF IInv, TypeOK, ShortRequest, PeerSendShutdown, clientVars
<1>3. read[c] < Header
  BY <1>1, ShutdownKeeps DEF IInv, ConnInv, RequestInv, Digits, Header, ShortRequest
<1>4. ConnInv(c)'
  <2>1. ResponseInv(c)'
    BY <1>1, <1>3, ShutdownKeeps
    DEF IInv, TypeOK, ConnInv, ResponseInv, ShortRequest, PeerSendShutdown, clientVars
  <2>2. QED
    BY <1>1, <2>1, ShutdownKeeps DEF ConnInv
<1>5. \A d \in Conns \ {c} : Untouched(d)
  BY DEF IInv, TypeOK, ShortRequest, PeerSendShutdown, clientVars, Untouched
<1>6. QED
  BY <1>2, <1>4, <1>5, OneConnection DEF ShortRequest, PeerSendShutdown, processVars

LEMMA AnswerStep ==
  ASSUME IInv, NEW c \in Conns, Answer(c)
  PROVE  IInv'
<1>1. PeerSendShutdown(c) /\ request_from_bytes(request[c]) = size[c]
  BY CompleteRequest DEF Answer
<1>2. /\ response' = [response EXCEPT ![c] = size[c]]
      /\ length' = [length EXCEPT ![c] = BufferLength(size[c])]
  BY <1>1 DEF Answer, OwnedResponse
<1>3. /\ size[c] \in Nat /\ BufferLength(size[c]) \in Nat /\ BufferLength(size[c]) <= size[c]
  BY <1>1, ShutdownKeeps, BufferLengthBound
<1>4. TypeOK'
  <2>1. response' \in [Conns -> Nat] /\ length' \in [Conns -> Nat]
    BY <1>2, <1>3 DEF IInv, TypeOK
  <2>2. aborted' \in [Conns -> {"no", "short", "failed"}] /\ sending' \in [Conns -> BOOLEAN]
    BY DEF IInv, TypeOK, Answer
  <2>3. QED
    BY <2>1, <2>2 DEF IInv, TypeOK, Answer, PeerSendShutdown, clientVars
<1>5. ConnInv(c)'
  <2>1. /\ response'[c] = size'[c] /\ length'[c] = BufferLength(size'[c])
        /\ size'[c] = size[c] /\ delivered'[c] = 0 /\ stream'[c] = "open"
        /\ aborted'[c] \in {"no", "failed"} /\ (sending'[c] => aborted'[c] = "no")
    <3>1. /\ stream[c] = "open" /\ ~sending[c] /\ aborted[c] = "no" /\ delivered[c] = 0
      BY <1>1, ShutdownKeeps
    <3>2. /\ size' = size /\ delivered' = delivered /\ stream' = stream
      BY <1>1 DEF PeerSendShutdown, clientVars
    <3>3. response'[c] = size[c] /\ length'[c] = BufferLength(size[c])
      BY <1>2 DEF IInv, TypeOK
    <3>4. aborted'[c] \in {"no", "failed"} /\ (sending'[c] => aborted'[c] = "no")
      BY <3>1 DEF IInv, TypeOK, Answer
    <3>5. QED
      BY <3>1, <3>2, <3>3, <3>4
  <2>2. ResponseInv(c)'
    BY <1>1, <1>3, <2>1, ShutdownKeeps DEF ResponseInv, BufferLength
  <2>3. QED
    BY <1>1, <2>2, ShutdownKeeps DEF ConnInv
<1>6. \A d \in Conns \ {c} : Untouched(d)
  BY <1>2 DEF IInv, TypeOK, Answer, PeerSendShutdown, clientVars, Untouched
<1>7. QED
  BY <1>4, <1>5, <1>6, OneConnection DEF Answer, PeerSendShutdown, processVars

LEMMA OutOfMemoryStep ==
  ASSUME IInv, NEW c \in Conns, OutOfMemory(c)
  PROVE  IInv'
<1>1. PeerSendShutdown(c)
  BY DEF OutOfMemory
<1>2. TypeOK'
  BY DEF IInv, TypeOK, OutOfMemory, PeerSendShutdown, clientVars, Places
<1>3. ConnInv(c)'
  <2>1. ResponseInv(c)'
    BY <1>1, ShutdownKeeps
    DEF IInv, ConnInv, ResponseInv, OutOfMemory, PeerSendShutdown, clientVars
  <2>2. QED
    BY <1>1, <2>1, ShutdownKeeps DEF ConnInv
<1>4. \A d \in Conns \ {c} : Untouched(d)
  BY DEF IInv, TypeOK, OutOfMemory, PeerSendShutdown, clientVars, Untouched
<1>5. QED
  BY <1>2, <1>3, <1>4, OneConnection DEF OutOfMemory

LEMMA StreamShutdownCompleteStep ==
  ASSUME IInv, NEW c \in Conns, StreamShutdownComplete(c)
  PROVE  IInv'
<1>1. TypeOK'
  <2>1. response' \in [Conns -> Nat] /\ state' \in [Conns -> {"none", "live", "freed"}]
    BY DEF IInv, TypeOK, StreamShutdownComplete, StateAfterwards
  <2>2. request' \in [Conns -> Seq(0 .. Base - 1)] /\ \A d \in Conns : Len(request'[d]) <= Header
    BY DEF IInv, TypeOK, StreamShutdownComplete, Header
  <2>3. QED
    BY <2>1, <2>2 DEF IInv, TypeOK, StreamShutdownComplete, processVars, libVars, clientVars
<1>2. ConnInv(c)'
  <2>1. /\ stream[c] = "open" /\ stream'[c] = "closed" /\ state'[c] = "freed" /\ ~sending[c]
    BY DEF IInv, TypeOK, StreamShutdownComplete, StateAfterwards
  <2>2. StreamInv(c)'
    BY <2>1 DEF IInv, ConnInv, StreamInv, StreamShutdownComplete
  <2>3. RequestInv(c)'
    BY <2>1 DEF RequestInv
  <2>4. ResponseInv(c)'
    BY <2>1 DEF IInv, ConnInv, ResponseInv, StreamShutdownComplete, libVars, clientVars
  <2>5. QED
    BY <2>2, <2>3, <2>4 DEF ConnInv
<1>3. \A d \in Conns \ {c} : Untouched(d)
  BY DEF IInv, TypeOK, StreamShutdownComplete, libVars, clientVars, Untouched
<1>4. QED
  BY <1>1, <1>2, <1>3, OneConnection DEF StreamShutdownComplete

LEMMA DeliverStep ==
  ASSUME IInv, NEW c \in Conns, Deliver(c)
  PROVE  IInv'
<1>1. PICK n \in delivered[c] .. length[c] :
        /\ delivered' = [delivered EXCEPT ![c] = n]
        /\ finished' = [finished EXCEPT ![c] = (n = length[c])]
  BY DEF Deliver
<1>2. n \in Nat /\ n <= length[c] /\ length[c] \in Nat
  BY DEF IInv, TypeOK
<1>3. TypeOK'
  <2>1. delivered' \in [Conns -> Nat] /\ finished' \in [Conns -> BOOLEAN]
    BY <1>1, <1>2 DEF IInv, TypeOK
  <2>2. QED
    BY <2>1 DEF IInv, TypeOK, Deliver, processVars, streamVars, libVars
<1>4. ConnInv(c)'
  <2>1. delivered'[c] = n
    BY <1>1 DEF IInv, TypeOK
  <2>2. StreamInv(c)' /\ RequestInv(c)'
    BY DEF IInv, ConnInv, StreamInv, RequestInv, Sent, Deliver, streamVars, libVars
  <2>3. ResponseInv(c)'
    BY <1>2, <2>1 DEF IInv, ConnInv, ResponseInv, BufferLength, Deliver, streamVars, libVars
  <2>4. QED
    BY <2>2, <2>3 DEF ConnInv
<1>5. \A d \in Conns \ {c} : Untouched(d)
  BY <1>1 DEF IInv, TypeOK, Deliver, streamVars, libVars, Untouched
<1>6. QED
  BY <1>3, <1>4, <1>5, OneConnection DEF Deliver

LEMMA SendCompleteStep ==
  ASSUME IInv, NEW c \in Conns, SendComplete(c)
  PROVE  IInv'
<1>1. TypeOK'
  BY DEF IInv, TypeOK, SendComplete, processVars, streamVars, clientVars
<1>2. ConnInv(c)'
  <2>1. StreamInv(c)' /\ RequestInv(c)'
    BY DEF IInv, ConnInv, StreamInv, RequestInv, Sent, SendComplete, streamVars, clientVars
  <2>2. ResponseInv(c)'
    BY DEF IInv, TypeOK, ConnInv, ResponseInv, BufferLength, SendComplete, streamVars, clientVars
  <2>3. QED
    BY <2>1, <2>2 DEF ConnInv
<1>3. \A d \in Conns \ {c} : Untouched(d)
  BY DEF IInv, TypeOK, SendComplete, streamVars, clientVars, Untouched
<1>4. QED
  BY <1>1, <1>2, <1>3, OneConnection DEF SendComplete

LEMMA ClientGoesStep ==
  ASSUME IInv, NEW c \in Conns, ClientGoes(c)
  PROVE  IInv'
<1>1. TypeOK'
  BY DEF IInv, TypeOK, ClientGoes, processVars, streamVars, libVars
<1>2. \A d \in Conns : Untouched(d)
  BY DEF ClientGoes, streamVars, libVars, Untouched
<1>3. ConnInv(c)'
  BY <1>2, UntouchedInv DEF IInv
<1>4. QED
  BY <1>1, <1>2, <1>3, OneConnection DEF ClientGoes

LEMMA ConnectionEndsStep ==
  ASSUME IInv, NEW c \in Conns, ConnectionEnds(c)
  PROVE  IInv'
<1>1. TypeOK'
  BY DEF IInv, TypeOK, ConnectionEnds, processVars, streamVars, libVars, clientVars
<1>2. ConnInv(c)'
  BY DEF IInv, TypeOK, ConnectionEnds, streamVars, libVars, clientVars, ConnInv, StreamInv,
         RequestInv, ResponseInv, Sent, BufferLength
<1>3. \A d \in Conns \ {c} : Untouched(d)
  BY DEF IInv, TypeOK, ConnectionEnds, streamVars, libVars, clientVars, Untouched
<1>4. QED
  BY <1>1, <1>2, <1>3, OneConnection DEF ConnectionEnds

LEMMA InitInv == Init => IInv
<1> SUFFICES ASSUME Init PROVE IInv
  OBVIOUS
<1>1. TypeOK
  BY DEF Init, TypeOK, Places, Header
<1>2. ProcessInv
  BY DEF Init, ProcessInv
<1>3. ASSUME NEW c \in Conns PROVE ConnInv(c)
  <2>1. size[c] \in Nat
    <3>1. size[c] \in 0 .. Base * Base - 1
      BY SizesAssumption DEF Init
    <3>2. QED
      BY <3>1
  <2>2. QED
    BY <2>1 DEF Init, ConnInv, StreamInv, RequestInv, ResponseInv
<1>4. QED
  BY <1>1, <1>2, <1>3 DEF IInv

LEMMA StepInv == IInv /\ [Next]_vars => IInv'
<1> SUFFICES ASSUME IInv, [Next]_vars PROVE IInv'
  OBVIOUS
<1>1. CASE Main \/ ConfigureFails \/ ListenPortInvalid \/ ListenFails \/ Signal
  BY <1>1, ProcessStep
<1>2. ASSUME NEW c \in Conns,
             \/ NewConnection(c) \/ ConnectionCallback(c) \/ StreamCallback(c)
             \/ Deliver(c) \/ SendComplete(c) \/ ClientGoes(c) \/ ConnectionEnds(c)
      PROVE  IInv'
  BY <1>2, NewConnectionStep, PeerStreamStartedStep, ConnectionShutdownCompleteStep, ReceiveStep,
     ShortRequestStep, AnswerStep, OutOfMemoryStep, StreamShutdownCompleteStep, DeliverStep,
     SendCompleteStep, ClientGoesStep, ConnectionEndsStep
  DEF ConnectionCallback, StreamCallback
<1>3. CASE UNCHANGED vars
  <2>1. TypeOK' /\ ProcessInv'
    BY <1>3 DEF IInv, TypeOK, ProcessInv, vars, processVars, streamVars, libVars, clientVars
  <2>2. ASSUME NEW d \in Conns PROVE ConnInv(d)'
    <3>1. Untouched(d)
      BY <1>3 DEF vars, processVars, streamVars, libVars, clientVars, Untouched
    <3>2. QED
      BY <3>1, UntouchedInv DEF IInv
  <2>3. QED
    BY <2>1, <2>2 DEF IInv
<1>4. QED
  BY <1>1, <1>2, <1>3 DEF Next

LEMMA Invariance == Spec => []IInv
BY InitInv, StepInv, PTL DEF Spec

-----------------------------------------------------------------------------
(***************************************************************************)
(* The theorems.                                                           *)
(***************************************************************************)

\* Every variable keeps its type; the eight bytes of StreamState::request are never
\* exceeded, whatever pieces a request comes in.
THEOREM TypeCorrect == Spec => []TypeOK
<1>1. IInv => TypeOK
  BY DEF IInv
<1>2. QED
  BY <1>1, Invariance, PTL

\* The library never sends from a StreamState that stream_callback has deleted, nor
\* past the end of its response.
THEOREM BufferLives == Spec => []BufferOutlivesSend
<1>1. IInv => BufferOutlivesSend
  BY DEF IInv, ConnInv, StreamInv, ResponseInv, BufferOutlivesSend
<1>2. QED
  BY <1>1, Invariance, PTL

\* No path through the callbacks, or through run_server, leaves a StreamState or a
\* handle behind.
THEOREM AllReleased == Spec => []NothingLeaked
<1>1. ASSUME IInv PROVE NothingLeaked
  <2>1. ASSUME NEW c \in Conns, conn[c] \in {"none", "closed"}
        PROVE  stream[c] # "open" /\ state[c] # "live"
    BY <1>1, <2>1 DEF IInv, TypeOK, ConnInv, StreamInv
  <2>2. QED
    BY <1>1, <2>1 DEF IInv, ProcessInv, NothingLeaked
<1>2. QED
  BY <1>1, Invariance, PTL

\* stream_callback never aborts a request of eight bytes or more as too short.
THEOREM NotTooShort == Spec => []WholeRequestServed
<1>1. IInv => WholeRequestServed
  BY DEF IInv, ConnInv, ResponseInv, WholeRequestServed
<1>2. QED
  BY <1>1, Invariance, PTL

-----------------------------------------------------------------------------
(***************************************************************************)
(* The refinement of PerfExchange: what connection c shows of an exchange. *)
(***************************************************************************)
Phase(c) ==
  IF stream[c] = "none" THEN "idle"
  ELSE IF ~finished[c] /\ (aborted[c] # "no" \/ conn[c] # "open") THEN "lost"
  ELSE "open"

Requested(c) == IF stream[c] = "none" THEN 0 ELSE size[c]

\* Connection d shows the same before and after a step.
Unseen(d) == Phase(d)' = Phase(d) /\ Requested(d)' = Requested(d)

\* A connection that has not been touched shows nothing.
LEMMA UntouchedUnseen ==
  ASSUME NEW d \in Conns, Untouched(d)
  PROVE  Unseen(d)
BY DEF Untouched, Unseen, Phase, Requested

\* The functions that PerfExchange sees.
LEMMA Seen ==
  ASSUME IInv, IInv', \A d \in Conns : Unseen(d),
         delivered' = delivered, finished' = finished
  PROVE  UNCHANGED Exchange!vars
BY DEF Unseen, Phase, Requested, Exchange!vars

LEMMA SeenRequest ==
  ASSUME NEW c \in Conns, \A d \in Conns \ {c} : Unseen(d),
         delivered' = delivered, finished' = finished,
         Phase(c) = "idle", Phase(c)' = "open", Requested(c)' \in Sizes
  PROVE  Exchange!Request(c)
<1> DEFINE p == [d \in Conns |-> Phase(d)]
           q == [d \in Conns |-> Requested(d)]
<1>1. p[c] = "idle" /\ p' = [p EXCEPT ![c] = "open"]
  BY DEF Unseen
<1>2. q' = [q EXCEPT ![c] = Requested(c)']
  BY DEF Unseen
<1>3. QED
  BY <1>1, <1>2 DEF Phase, Requested, Exchange!Request

LEMMA SeenDeliver ==
  ASSUME NEW c \in Conns, \A d \in Conns \ {c} : Unseen(d),
         Phase(c) = "open", Phase(c)' = "open", ~finished[c], Requested(c)' = Requested(c),
         NEW n \in delivered[c] .. Requested(c),
         delivered' = [delivered EXCEPT ![c] = n],
         \/ finished' = finished
         \/ n = Requested(c) /\ finished' = [finished EXCEPT ![c] = TRUE]
  PROVE  Exchange!Deliver(c)
<1> DEFINE p == [d \in Conns |-> Phase(d)]
           q == [d \in Conns |-> Requested(d)]
<1>1. p[c] = "open" /\ p' = p
  BY DEF Unseen
<1>2. q[c] = Requested(c) /\ q' = q
  BY DEF Unseen
<1>3. QED
  BY <1>1, <1>2 DEF Phase, Requested, Exchange!Deliver

LEMMA SeenLose ==
  ASSUME NEW c \in Conns, \A d \in Conns \ {c} : Unseen(d),
         Phase(c) = "open", Phase(c)' = "lost", finished' = finished,
         Requested(c)' = Requested(c),
         NEW n \in delivered[c] .. Requested(c),
         delivered' = [delivered EXCEPT ![c] = n]
  PROVE  Exchange!Lose(c)
<1> DEFINE p == [d \in Conns |-> Phase(d)]
           q == [d \in Conns |-> Requested(d)]
<1>1. p[c] = "open" /\ p' = [p EXCEPT ![c] = "lost"]
  BY DEF Unseen
<1>2. q[c] = Requested(c) /\ q' = q
  BY DEF Unseen
<1>3. QED
  BY <1>1, <1>2 DEF Phase, Requested, Exchange!Lose

\* A size and what is delivered of it.
LEMMA WithinSize ==
  ASSUME IInv, NEW c \in Conns
  PROVE  /\ size[c] \in Nat /\ length[c] \in Nat /\ delivered[c] \in Nat
         /\ delivered[c] <= length[c] /\ length[c] <= size[c]
<1>1. size[c] \in 0 .. Base * Base - 1
  BY SizesAssumption DEF IInv, TypeOK
<1>2. QED
  BY <1>1 DEF IInv, TypeOK, ConnInv, ResponseInv

\* No step of the process, and none that only opens or closes a connection or hands a
\* request or a buffer over, is seen.
LEMMA UnseenSteps ==
  ASSUME IInv, IInv',
         \/ Main \/ ConfigureFails \/ ListenPortInvalid \/ ListenFails \/ Signal
         \/ \E c \in Conns :
              \/ NewConnection(c) \/ ConnectionShutdownComplete(c) \/ Receive(c)
              \/ OutOfMemory(c) \/ StreamShutdownComplete(c) \/ SendComplete(c)
              \/ ClientGoes(c)
         \/ UNCHANGED vars
  PROVE  UNCHANGED Exchange!vars
<1>1. CASE Main \/ ConfigureFails \/ ListenPortInvalid \/ ListenFails \/ Signal \/ UNCHANGED vars
  <2>1. delivered' = delivered /\ finished' = finished /\ \A d \in Conns : Untouched(d)
    BY <1>1
    DEF Main, ConfigureFails, ListenPortInvalid, ListenFails, Signal, Configure, Listen,
        SigWait, CloseListener, CloseConfiguration, CloseRegistration, vars, processVars,
        streamVars, libVars, clientVars,
        Untouched
  <2>2. QED
    BY <2>1, UntouchedUnseen, Seen
<1>2. ASSUME NEW c \in Conns, NewConnection(c) PROVE UNCHANGED Exchange!vars
  <2>1. conn[c] = "none" /\ stream[c] = "none"
    BY <1>2 DEF NewConnection, IInv, ConnInv, StreamInv
  <2>2. ASSUME NEW d \in Conns PROVE Unseen(d)
    BY <1>2, <2>1
    DEF NewConnection, IInv, TypeOK, streamVars, clientVars, Unseen, Phase, Requested
  <2>3. QED
    BY <1>2, <2>2, Seen DEF NewConnection, clientVars
<1>3. ASSUME NEW c \in Conns, ConnectionShutdownComplete(c) PROVE UNCHANGED Exchange!vars
  <2>1. conn[c] = "down" /\ conn' = [conn EXCEPT ![c] = "closed"]
    BY <1>3 DEF ConnectionShutdownComplete, ConnectionAfterwards
  <2>2. ASSUME NEW d \in Conns PROVE Unseen(d)
    BY <1>3, <2>1
    DEF ConnectionShutdownComplete, IInv, TypeOK, streamVars, clientVars, Unseen, Phase,
        Requested
  <2>3. QED
    BY <1>3, <2>2, Seen DEF ConnectionShutdownComplete, clientVars
<1>4. ASSUME NEW c \in Conns, Receive(c) \/ OutOfMemory(c) \/ SendComplete(c) \/ ClientGoes(c)
      PROVE  UNCHANGED Exchange!vars
  <2>1. /\ UNCHANGED <<conn, stream, aborted, size, delivered, finished>>
    BY <1>4 DEF Receive, OutOfMemory, PeerSendShutdown, SendComplete, ClientGoes, streamVars,
                clientVars
  <2>2. ASSUME NEW d \in Conns PROVE Unseen(d)
    BY <2>1 DEF Unseen, Phase, Requested
  <2>3. QED
    BY <2>1, <2>2, Seen
<1>5. ASSUME NEW c \in Conns, StreamShutdownComplete(c) PROVE UNCHANGED Exchange!vars
  <2>1. stream[c] = "open" /\ stream' = [stream EXCEPT ![c] = "closed"]
    BY <1>5 DEF StreamShutdownComplete
  <2>2. ASSUME NEW d \in Conns PROVE Unseen(d)
    BY <1>5, <2>1
    DEF StreamShutdownComplete, IInv, TypeOK, clientVars, Unseen, Phase, Requested
  <2>3. QED
    BY <1>5, <2>2, Seen DEF StreamShutdownComplete, clientVars
<1>6. QED
  BY <1>1, <1>2, <1>3, <1>4, <1>5

LEMMA RequestSeen ==
  ASSUME IInv, IInv', NEW c \in Conns, PeerStreamStarted(c)
  PROVE  Exchange!Request(c)
<1>1. /\ stream[c] = "none" /\ stream'[c] = "open" /\ conn[c] = "open"
      /\ ~finished[c] /\ aborted[c] = "no" /\ size[c] \in Sizes
  BY DEF PeerStreamStarted, IInv, TypeOK, ConnInv, StreamInv, ResponseInv
<1>2. Phase(c) = "idle" /\ Phase(c)' = "open" /\ Requested(c)' \in Sizes
  BY <1>1 DEF PeerStreamStarted, libVars, clientVars, Phase, Requested
<1>3. \A d \in Conns \ {c} : Unseen(d)
  <2>1. \A d \in Conns \ {c} : Untouched(d)
    BY DEF IInv, TypeOK, PeerStreamStarted, libVars, clientVars, Untouched
  <2>2. QED
    BY <2>1, UntouchedUnseen
<1>4. QED
  BY <1>2, <1>3, SeenRequest DEF PeerStreamStarted, clientVars

\* A request that is too short and a response that cannot be sent are lost exchanges.
LEMMA ShutdownSeen ==
  ASSUME IInv, IInv', NEW c \in Conns, ShortRequest(c) \/ Answer(c)
  PROVE  Exchange!Lose(c) \/ UNCHANGED Exchange!vars
<1>1. PeerSendShutdown(c)
  BY DEF ShortRequest, Answer
<1>2. /\ stream[c] = "open" /\ conn[c] = "open" /\ aborted[c] = "no"
      /\ ~finished[c] /\ delivered[c] = 0 /\ size[c] \in Nat
  BY <1>1, ShutdownKeeps DEF PeerSendShutdown
<1>3. UNCHANGED <<conn, stream, size, delivered, finished>>
  BY <1>1 DEF PeerSendShutdown, clientVars
<1>4. /\ Phase(c) = "open"
      /\ Requested(c) = size[c] /\ Requested(c)' = size[c]
  BY <1>2, <1>3 DEF Phase, Requested
<1>5. \A d \in Conns \ {c} : Unseen(d)
  <2>1. \/ aborted' = aborted
        \/ \E how \in {"short", "failed"} : aborted' = [aborted EXCEPT ![c] = how]
    BY DEF ShortRequest, Answer
  <2>2. aborted \in [Conns -> {"no", "short", "failed"}]
    BY DEF IInv, TypeOK
  <2>3. \A d \in Conns \ {c} : aborted'[d] = aborted[d]
    BY <2>1, <2>2
  <2>4. QED
    BY <1>3, <2>3 DEF Unseen, Phase, Requested
<1>6. CASE aborted'[c] = "no"
  <2>1. Phase(c)' = "open"
    BY <1>2, <1>3, <1>6 DEF Phase
  <2>2. \A d \in Conns : Unseen(d)
    BY <1>4, <1>5, <2>1 DEF Unseen
  <2>3. QED
    BY <1>3, <2>2, Seen
<1>7. CASE aborted'[c] # "no"
  <2>1. Phase(c)' = "lost"
    BY <1>2, <1>3, <1>7 DEF Phase
  <2>2. 0 \in delivered[c] .. Requested(c) /\ delivered' = [delivered EXCEPT ![c] = 0]
    BY <1>2, <1>3, <1>4 DEF IInv, TypeOK
  <2>3. QED
    BY <1>3, <1>4, <1>5, <2>1, <2>2, SeenLose
<1>8. QED
  BY <1>6, <1>7

\* Below Limit the end of a response is the end of what was asked for.
LEMMA DeliverSeen ==
  ASSUME IInv, IInv', NEW c \in Conns, size[c] < Limit, Deliver(c)
  PROVE  Exchange!Deliver(c)
<1>1. PICK n \in delivered[c] .. length[c] :
        /\ delivered' = [delivered EXCEPT ![c] = n]
        /\ finished' = [finished EXCEPT ![c] = (n = length[c])]
  BY DEF Deliver
<1>2. /\ size[c] \in Nat /\ length[c] \in Nat /\ delivered[c] \in Nat
      /\ delivered[c] <= length[c] /\ length[c] <= size[c]
  BY WithinSize
<1>3. /\ sending[c] /\ conn[c] = "open" /\ ~finished[c] /\ stream[c] = "open"
      /\ aborted[c] = "no" /\ length[c] = BufferLength(size[c])
  BY DEF Deliver, IInv, ConnInv, ResponseInv
<1>4. length[c] = size[c]
  BY <1>2, <1>3, BufferLengthBound
<1>5. UNCHANGED <<conn, stream, aborted, size>>
  BY DEF Deliver, streamVars
<1>6. /\ Phase(c) = "open" /\ Phase(c)' = "open"
      /\ Requested(c) = size[c] /\ Requested(c)' = size[c]
      /\ n \in delivered[c] .. Requested(c)
  BY <1>2, <1>3, <1>4, <1>5 DEF Phase, Requested
<1>7. \A d \in Conns \ {c} : Unseen(d)
  BY <1>1, <1>5 DEF IInv, TypeOK, Unseen, Phase, Requested
<1>8. \/ finished' = finished
      \/ n = Requested(c) /\ finished' = [finished EXCEPT ![c] = TRUE]
  <2>1. CASE n = length[c]
    BY <1>1, <1>4, <1>6, <2>1
  <2>2. CASE n # length[c]
    <3>1. finished' = [finished EXCEPT ![c] = FALSE]
      BY <1>1, <2>2
    <3>2. finished[c] = FALSE /\ finished \in [Conns -> BOOLEAN]
      BY <1>3 DEF IInv, TypeOK
    <3>3. QED
      BY <3>1, <3>2
  <2>3. QED
    BY <2>1, <2>2
<1>9. QED
  BY <1>1, <1>3, <1>6, <1>7, <1>8, SeenDeliver

\* The end of a connection loses an exchange that is in progress, and no other.
LEMMA ConnectionEndsSeen ==
  ASSUME IInv, IInv', NEW c \in Conns, ConnectionEnds(c)
  PROVE  Exchange!Lose(c) \/ UNCHANGED Exchange!vars
<1>1. /\ conn[c] = "open" /\ conn'[c] = "down"
      /\ UNCHANGED <<stream, aborted, size, delivered, finished>>
  BY DEF ConnectionEnds, streamVars, clientVars, IInv, TypeOK
<1>2. Requested(c)' = Requested(c)
  BY <1>1 DEF Requested
<1>3. \A d \in Conns \ {c} : Unseen(d)
  BY <1>1 DEF ConnectionEnds, IInv, TypeOK, Unseen, Phase, Requested
<1>4. CASE stream[c] # "none" /\ ~finished[c] /\ aborted[c] = "no"
  <2>1. Phase(c) = "open" /\ Phase(c)' = "lost" /\ Requested(c) = size[c]
    BY <1>1, <1>4 DEF Phase, Requested
  <2>2. delivered[c] \in delivered[c] .. Requested(c)
    BY <1>1, <2>1, WithinSize
  <2>3. delivered' = [delivered EXCEPT ![c] = delivered[c]]
    <3>1. delivered' = delivered /\ delivered \in [Conns -> Nat]
      BY <1>1 DEF IInv, TypeOK
    <3>2. QED
      BY <3>1
  <2>4. QED
    BY <1>1, <1>2, <1>3, <2>1, <2>2, <2>3, SeenLose
<1>5. CASE stream[c] = "none" \/ finished[c] \/ aborted[c] # "no"
  <2>1. Phase(c)' = Phase(c)
    BY <1>1, <1>5 DEF Phase
  <2>2. \A d \in Conns : Unseen(d)
    BY <1>2, <1>3, <2>1 DEF Unseen
  <2>3. QED
    BY <1>1, <2>2, Seen
<1>6. QED
  BY <1>4, <1>5

\* When every size fits the length of a buffer, every step of the server and its
\* clients is one that the protocol allows, or none that a client can tell: a client
\* that sees the end of its response has exactly what it asked for.
THEOREM Refinement ==
  ASSUME \A n \in Sizes : n < Limit
  PROVE  Spec => ImplementsExchange
<1>1. ASSUME Init PROVE Exchange!Init
  <2>1. \A c \in Conns : stream[c] = "none" /\ finished[c] = FALSE
    BY <1>1 DEF Init
  <2>2. delivered = [c \in Conns |-> 0] /\ finished = [c \in Conns |-> FALSE]
    BY <1>1 DEF Init
  <2>3. QED
    BY <2>1, <2>2 DEF Exchange!Init
<1>2. IInv /\ IInv' /\ [Next]_vars => [Exchange!Next]_Exchange!vars
  <2> SUFFICES ASSUME IInv, IInv', [Next]_vars PROVE [Exchange!Next]_Exchange!vars
    OBVIOUS
  <2>1. ASSUME NEW c \in Conns,
               Exchange!Request(c) \/ Exchange!Deliver(c) \/ Exchange!Lose(c)
        PROVE  Exchange!Next
    BY <2>1 DEF Exchange!Next
  <2>2. CASE \/ Main \/ ConfigureFails \/ ListenPortInvalid \/ ListenFails \/ Signal
             \/ \E c \in Conns :
                  \/ NewConnection(c) \/ ConnectionShutdownComplete(c) \/ Receive(c)
                  \/ OutOfMemory(c) \/ StreamShutdownComplete(c) \/ SendComplete(c)
                  \/ ClientGoes(c)
             \/ UNCHANGED vars
    BY <2>2, UnseenSteps
  <2>3. CASE \E c \in Conns :
               PeerStreamStarted(c) \/ ShortRequest(c) \/ Answer(c) \/ Deliver(c)
               \/ ConnectionEnds(c)
    <3>1. \A c \in Conns : size[c] < Limit
      BY DEF IInv, TypeOK
    <3>2. QED
      BY <2>1, <2>3, <3>1, RequestSeen, ShutdownSeen, DeliverSeen, ConnectionEndsSeen
  <2>4. QED
    BY <2>2, <2>3 DEF Next, StreamCallback, ConnectionCallback
<1>3. QED
  BY <1>1, <1>2, Invariance, PTL DEF Spec, Exchange!Spec, ImplementsExchange
=============================================================================
