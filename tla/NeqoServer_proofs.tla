---------------------------- MODULE NeqoServer_proofs ----------------------------
(***************************************************************************)
(* What holds of the neqo server for any number of clients, any sizes and  *)
(* any window: its types in any case; all else when the exchanges do not   *)
(* overlap; and when they do, exact responses and the exchange that the    *)
(* protocol promises if headers arrive whole and blobs fit the window.     *)
(***************************************************************************)
EXTENDS NeqoServer, SequenceTheorems, TLAPS

-----------------------------------------------------------------------------
(***************************************************************************)
(* The inductive invariant.                                                *)
(***************************************************************************)

\* Exchange c has begun and is not over.
Live(c) == conn[c] = "open" /\ ~Over(c)

StreamEvent == {"NewStream", "RecvStreamReadable", "SendStreamWritable"}

Entry == stream_states[FirstStream]

\* Each connection by itself.
ConnInv(c) ==
  /\ read[c] <= arrived[c]
  /\ ~opened[c] => arrived[c] = 0 /\ reqFin[c] = "absent"
  /\ reqFin[c] # "absent" => arrived[c] = HeaderLen
  /\ reqFin[c] = "read" => read[c] = HeaderLen
  /\ reqFin[c] # "arrived" \/ "RecvStreamReadable" \in events[c] \/ conn[c] = "closed"
  /\ sent[c] <= limit[c]
  /\ Window <= limit[c] /\ limit[c] <= got[c] + Window
  /\ sent[c] <= size[c]
  /\ sent[c] > 0 => read[c] = HeaderLen
  /\ finSent[c] => sent[c] = size[c] /\ read[c] = HeaderLen
  /\ conn[c] = "idle" => ~opened[c] /\ read[c] = 0 /\ sent[c] = 0
  /\ "NewStream" \in events[c] => opened[c] /\ read[c] = 0

\* At most one exchange is in progress, and events of a stream are pending
\* only while no other is.
OneExchange ==
  /\ \A c, d \in Conns : Live(c) /\ Live(d) => c = d
  /\ \A c, d \in Conns : events[c] \cap StreamEvent # {} /\ Live(d) => c = d

EventsInv ==
  /\ pc # "events" => \A c \in Conns : events[c] = {}
  /\ \A c \in Conns : ~opened[c] => events[c] \cap StreamEvent = {}

\* The stream state s of connection c, of whose request r digits are read.
Reading(c, s, r) ==
  /\ s.read_buf \in Seq(Nat)
  /\ Len(s.read_buf) = r
  /\ \A i \in 1 .. r : s.read_buf[i] = ToBytes(size[c])[i]
  /\ s.write_remaining = None
  /\ s.sent = 0
  /\ s.fin = FALSE

Writing(c, s) ==
  /\ s.read_buf \in Seq(Nat)
  /\ Len(s.read_buf) = HeaderLen
  /\ \A i \in 1 .. HeaderLen : s.read_buf[i] = ToBytes(size[c])[i]
  /\ s.sent \in Nat
  /\ s.sent <= limit[c]
  /\ s.fin \in BOOLEAN
  /\ s.fin => s.write_remaining = None /\ s.sent = size[c]
  /\ ~s.fin => s.write_remaining \in Nat /\ s.write_remaining + s.sent = size[c]

\* The shared entry is that of the exchange in progress.
EntryInv ==
  \A c \in Conns :
    Live(c) /\ opened[c] /\ "NewStream" \notin events[c] =>
      /\ Entry # None
      /\ IF read[c] < HeaderLen THEN Reading(c, StreamOf(c), read[c])
                                ELSE Writing(c, StreamOf(c))

IInv ==
  /\ TypeOK
  /\ \A c \in Conns : ConnInv(c)
  /\ OneExchange
  /\ EventsInv
  /\ EntryInv

-----------------------------------------------------------------------------
(***************************************************************************)
(* The header and the operators on a stream.                               *)
(***************************************************************************)

\* A blob size survives Request::to_bytes and Blob::try_from.
LEMMA HeaderRoundTrip ==
  ASSUME NEW n \in 0 .. Base * Base - 1
  PROVE  /\ ToBytes(n) \in Seq(Digit)
         /\ Len(ToBytes(n)) = HeaderLen
         /\ ToBytes(n)[1] \in Digit
         /\ ToBytes(n)[2] \in Digit
         /\ Base * ToBytes(n)[1] + ToBytes(n)[2] = n
<1>1. Base \in Nat /\ Base > 0
  BY BaseAssumption
<1>2. n = Base * (n \div Base) + (n % Base)
  BY <1>1, Z3
<1>3. n % Base \in Digit
  BY <1>1 DEF Digit
<1>4. n \div Base \in Nat
  BY <1>1
<1>5. n \div Base < Base
  <2>1. SUFFICES ASSUME n \div Base >= Base PROVE FALSE
    BY <1>1, <1>4
  <2>2. Base * (n \div Base) >= Base * Base
    BY <1>1, <1>4, <2>1
  <2>3. n >= Base * Base
    BY <1>1, <1>2, <1>3, <1>4, <2>2 DEF Digit
  <2>4. QED
    BY <1>1, <2>3
<1>6. n \div Base \in Digit
  BY <1>1, <1>4, <1>5 DEF Digit
<1>7. QED
  BY <1>2, <1>3, <1>6 DEF ToBytes, HeaderLen

\* What StreamOf yields.
Stream == [ read_buf : Seq(Digit), write_remaining : Nat \cup {None},
            sent : Nat, fin : BOOLEAN ]

\* try_send_response stays within the flow-control limit, and changes nothing
\* but write_remaining on a stream that can no longer be written to.
LEMMA TrySendType ==
  ASSUME TypeOK, NEW c \in Conns, NEW s \in Stream, s.sent <= limit[c]
  PROVE  LET t == try_send_response(c, s) IN
         /\ t \in Stream
         /\ t.sent <= limit[c]
         /\ t.read_buf = s.read_buf
         /\ SendFails(c, s) => t.sent = s.sent /\ t.fin = s.fin
         /\ s.write_remaining = None => t = s
         /\ SendFails(c, s) => t.write_remaining = None
<1>1. limit[c] \in Nat /\ s.sent \in Nat
  BY DEF TypeOK, Stream
<1>2. CASE s.write_remaining = None
  BY <1>2 DEF try_send_response
<1>3. CASE s.write_remaining # None /\ SendFails(c, s)
  BY <1>3 DEF try_send_response, Stream
<1>4. CASE s.write_remaining # None /\ ~SendFails(c, s)
  <2> DEFINE n == Accepted(c, s)
             done == n = s.write_remaining
  <2>1. s.write_remaining \in Nat
    BY <1>4 DEF Stream
  <2>2. n \in Nat /\ n <= s.write_remaining /\ n <= limit[c] - s.sent
    BY <1>1, <2>1 DEF Accepted, Lesser
  <2>3. try_send_response(c, s) =
          [s EXCEPT !.write_remaining = IF done THEN None ELSE @ - n,
                    !.sent = @ + n, !.fin = done]
    BY <1>4 DEF try_send_response
  <2>4. ~done => s.write_remaining - n \in Nat
    BY <2>1, <2>2
  <2> DEFINE t == [s EXCEPT !.write_remaining = IF done THEN None ELSE @ - n,
                            !.sent = @ + n, !.fin = done]
  <2>5. /\ t.read_buf = s.read_buf
        /\ t.sent = s.sent + n
        /\ s.sent + n <= limit[c]
    BY <1>1, <2>2 DEF Stream
  <2>6. t \in Stream
    <3>1. s.sent + n \in Nat
      BY <1>1, <2>2
    <3>2. (IF done THEN None ELSE s.write_remaining - n) \in Nat \cup {None}
      BY <2>4
    <3> HIDE DEF n
    <3>3. QED
      BY <3>1, <3>2 DEF Stream
  <2>7. try_send_response(c, s) = t
    BY <2>3
  <2> HIDE DEF t, n
  <2>8. QED
    BY <1>4, <2>5, <2>6, <2>7
<1>5. QED
  BY <1>2, <1>3, <1>4

\* On an open connection it keeps the response and what remains of it in step,
\* and ends the response with the last byte.
LEMMA TrySendWriting ==
  ASSUME TypeOK, NEW c \in Conns, conn[c] = "open",
         NEW s \in Stream, Writing(c, s)
  PROVE  Writing(c, try_send_response(c, s))
<1>1. limit[c] \in Nat /\ s.sent \in Nat /\ size[c] \in Nat
  BY BaseAssumption DEF TypeOK, Stream
<1>2. CASE s.fin
  BY <1>2 DEF Writing, try_send_response
<1>3. CASE ~s.fin
  <2> DEFINE n == Accepted(c, s)
             done == n = s.write_remaining
             t == [s EXCEPT !.write_remaining = IF done THEN None ELSE @ - n,
                            !.sent = @ + n, !.fin = done]
  <2>1. s.write_remaining \in Nat /\ s.write_remaining + s.sent = size[c]
    BY <1>3 DEF Writing
  <2>2. n \in Nat /\ n <= s.write_remaining /\ n <= limit[c] - s.sent
    BY <1>1, <2>1 DEF Accepted, Lesser, Writing
  <2>3. try_send_response(c, s) = t
    BY <1>3, <2>1, NoneAssumption DEF try_send_response, SendFails
  <2>4. ~done => s.write_remaining - n \in Nat
    BY <2>1, <2>2
  <2> HIDE DEF n
  <2>5. /\ t.read_buf = s.read_buf
        /\ t.sent = s.sent + n
        /\ t.fin = done
        /\ t.write_remaining = IF done THEN None ELSE s.write_remaining - n
    BY DEF Stream
  <2> HIDE DEF t
  <2>6. Writing(c, t)
    <3>1. t.sent \in Nat /\ t.sent <= limit[c]
      BY <1>1, <2>2, <2>5
    <3>2. CASE n = s.write_remaining
      <4>1. t.fin = TRUE /\ t.write_remaining = None
        BY <2>5, <3>2
      <4>2. t.sent = size[c]
        BY <1>1, <2>1, <2>5, <3>2
      <4>3. QED
        BY <2>5, <3>1, <4>1, <4>2 DEF Writing
    <3>3. CASE n # s.write_remaining
      <4>1. t.fin = FALSE /\ t.write_remaining = s.write_remaining - n
        BY <2>5, <3>3
      <4>2. t.write_remaining \in Nat /\ t.write_remaining + t.sent = size[c]
        BY <1>1, <2>1, <2>2, <2>4, <2>5, <3>3, <4>1
      <4>3. QED
        BY <2>5, <3>1, <4>1, <4>2 DEF Writing
    <3>4. QED
      BY <3>2, <3>3
  <2>7. QED
    BY <2>3, <2>6
<1>4. QED
  BY <1>2, <1>3 DEF Stream

\* Before the header is complete, a pass of read_request changes nothing.
LEMMA ReadPassShort ==
  ASSUME NEW c \in Conns, NEW s, NEW r \in 0 .. HeaderLen - 1, Reading(c, s, r)
  PROVE  ReadPass(c, s) = s
BY DEF Reading, ReadPass, ParseRequest, try_send_response, HeaderLen

\* Once it is complete, the blob size is parsed and the response begun, and a
\* pass over a response already complete leaves it so.
LEMMA ReadPassWhole ==
  ASSUME TypeOK, NEW c \in Conns, conn[c] = "open", NEW s \in Stream,
         Reading(c, s, HeaderLen) \/ Writing(c, s)
  PROVE  ReadPass(c, s) \in Stream /\ Writing(c, ReadPass(c, s))
<1> DEFINE p == ParseRequest(s)
<1>1. size[c] \in 0 .. Base * Base - 1 /\ size[c] \in Nat /\ limit[c] \in Nat
  BY BaseAssumption DEF TypeOK
<1>2. s.read_buf \in Seq(Digit) /\ Len(s.read_buf) = 2
  BY DEF Stream, Reading, Writing, HeaderLen
<1>3. FromBytes(s.read_buf) = size[c]
  BY <1>1, <1>2, HeaderRoundTrip DEF FromBytes, Reading, Writing, HeaderLen
<1>4. s.sent \in Nat /\ s.sent <= limit[c]
  BY <1>1 DEF Reading, Writing, Stream
<1>5. CASE s.write_remaining = None /\ s.fin
  <2>1. p = [s EXCEPT !.write_remaining = size[c]]
    BY <1>2, <1>3, <1>5 DEF ParseRequest, HeaderLen
  <2>2. ReadPass(c, s) = [p EXCEPT !.write_remaining = None]
    BY <1>1, <1>5, <2>1, NoneAssumption
    DEF ReadPass, try_send_response, SendFails, Stream
  <2>3. ReadPass(c, s) = s
    BY <1>5, <2>1, <2>2 DEF Stream
  <2>4. Writing(c, s)
    BY <1>5 DEF Reading
  <2>5. QED
    BY <2>3, <2>4
<1>6. CASE ~(s.write_remaining = None /\ s.fin)
  <2>1. p \in Stream /\ p.read_buf = s.read_buf /\ p.sent = s.sent /\ p.fin = s.fin
    BY <1>1, <1>2, <1>3 DEF ParseRequest, Stream
  <2>2. ~s.fin
    BY <1>6 DEF Reading, Writing
  <2>3. p.write_remaining \in Nat /\ p.write_remaining + p.sent = size[c]
    <3>1. CASE s.write_remaining = None
      <4>1. Reading(c, s, HeaderLen)
        BY <2>2, <3>1, NoneAssumption DEF Writing
      <4>2. p = [s EXCEPT !.write_remaining = size[c]]
        BY <1>2, <1>3, <3>1 DEF ParseRequest, HeaderLen
      <4>3. QED
        BY <1>1, <4>1, <4>2 DEF Reading, Stream
    <3>2. CASE s.write_remaining # None
      BY <2>2, <3>2 DEF ParseRequest, Reading, Writing
    <3>3. QED
      BY <3>1, <3>2
  <2>4. Writing(c, p)
    BY <1>4, <2>1, <2>2, <2>3 DEF Reading, Writing, Stream
  <2>5. p.sent <= limit[c]
    BY <1>4, <2>1
  <2> HIDE DEF p
  <2>6. try_send_response(c, p) \in Stream /\ Writing(c, try_send_response(c, p))
    BY <2>1, <2>4, <2>5, TrySendType, TrySendWriting
  <2>7. QED
    BY <2>6 DEF ReadPass, p
<1>7. QED
  BY <1>5, <1>6

\* The digits that stream_recv returns continue those already in read_buf.
LEMMA AppendUnread ==
  ASSUME TypeOK, NEW c \in Conns, read[c] <= arrived[c],
         NEW b \in Seq(Digit), Len(b) = read[c],
         \A i \in 1 .. read[c] : b[i] = ToBytes(size[c])[i]
  PROVE  /\ b \o Unread(c) \in Seq(Digit)
         /\ Len(b \o Unread(c)) = arrived[c]
         /\ \A i \in 1 .. arrived[c] : (b \o Unread(c))[i] = ToBytes(size[c])[i]
<1> DEFINE w == ToBytes(size[c])
           u == Unread(c)
<1>1. w \in Seq(Digit) /\ Len(w) = 2
  BY HeaderRoundTrip DEF TypeOK, HeaderLen
<1>2. read[c] \in 0 .. 2 /\ arrived[c] \in 0 .. 2
  BY DEF TypeOK, HeaderLen
<1>3. u = SubSeq(w, read[c] + 1, arrived[c])
  BY DEF Unread
<1> HIDE DEF w, u
<1>4. /\ u \in Seq(Digit)
      /\ Len(u) = arrived[c] - read[c]
      /\ \A i \in 1 .. Len(u) : u[i] = w[read[c] + i]
  <2>1. \A i \in read[c] + 1 .. arrived[c] : w[i] \in Digit
    <3>1. \A i \in 1 .. 2 : w[i] \in Digit
      BY <1>1, ElementOfSeq
    <3>2. QED
      BY <1>2, <3>1
  <2>2. /\ u \in Seq(Digit)
        /\ Len(u) = IF read[c] + 1 <= arrived[c] THEN arrived[c] - (read[c] + 1) + 1 ELSE 0
        /\ \A i \in 1 .. arrived[c] - (read[c] + 1) + 1 : u[i] = w[read[c] + 1 + i - 1]
    <3>1. read[c] + 1 \in Int /\ arrived[c] \in Int
      BY <1>2
    <3>2. QED
      BY <1>3, <2>1, <3>1, SubSeqProperties
  <2>3. Len(u) = arrived[c] - read[c]
    BY <1>2, <2>2
  <2>4. QED
    BY <1>2, <2>2, <2>3
<1>5. /\ b \o u \in Seq(Digit)
      /\ Len(b \o u) = Len(b) + Len(u)
      /\ \A i \in 1 .. Len(b) + Len(u) :
           (b \o u)[i] = IF i <= Len(b) THEN b[i] ELSE u[i - Len(b)]
  BY <1>4, ConcatProperties
<1>6. ASSUME NEW i \in 1 .. arrived[c]
      PROVE  (b \o u)[i] = w[i]
  <2>1. CASE i <= read[c]
    BY <1>2, <1>4, <1>5, <2>1 DEF w
  <2>2. CASE ~(i <= read[c])
    <3>1. i - read[c] \in 1 .. Len(u) /\ read[c] + (i - read[c]) = i
      BY <1>2, <1>4, <2>2
    <3>2. QED
      BY <1>2, <1>4, <1>5, <2>2, <3>1
  <2>3. QED
    BY <2>1, <2>2
<1>7. Len(b \o u) = arrived[c]
  BY <1>2, <1>4, <1>5
<1>8. QED
  BY <1>5, <1>6, <1>7 DEF u, w

\* What the server knows of an exchange in progress before and after a
\* RecvStreamReadable event: all digits that have arrived are in read_buf, and
\* with the last of them the response has begun.
InProgress(c, s, r) ==
  IF r < HeaderLen THEN Reading(c, s, r) ELSE Writing(c, s)

\* stream_recv puts all digits that have arrived into read_buf.
LEMMA AfterReceive ==
  ASSUME TypeOK, NEW c \in Conns, ConnInv(c),
         NEW s \in Stream, InProgress(c, s, read[c])
  PROVE  LET a == [s EXCEPT !.read_buf = @ \o Unread(c)] IN
         /\ a \in Stream
         /\ arrived[c] < HeaderLen => Reading(c, a, arrived[c])
         /\ arrived[c] = HeaderLen => Reading(c, a, HeaderLen) \/ Writing(c, a)
<1> DEFINE a == [s EXCEPT !.read_buf = @ \o Unread(c)]
<1>1. read[c] \in 0 .. 2 /\ arrived[c] \in 0 .. 2 /\ read[c] <= arrived[c]
  BY DEF TypeOK, HeaderLen, ConnInv
<1>2. /\ s.read_buf \in Seq(Digit)
      /\ Len(s.read_buf) = read[c]
      /\ \A i \in 1 .. read[c] : s.read_buf[i] = ToBytes(size[c])[i]
  <2>1. CASE read[c] < 2
    BY <2>1 DEF InProgress, Reading, Stream, HeaderLen
  <2>2. CASE read[c] = 2
    BY <2>2 DEF InProgress, Writing, Stream, HeaderLen
  <2>3. QED
    BY <1>1, <2>1, <2>2
<1>3. /\ s.read_buf \o Unread(c) \in Seq(Digit)
      /\ Len(s.read_buf \o Unread(c)) = arrived[c]
      /\ \A i \in 1 .. arrived[c] :
           (s.read_buf \o Unread(c))[i] = ToBytes(size[c])[i]
  BY <1>1, <1>2, AppendUnread
<1>4. /\ a \in Stream
      /\ a.read_buf = s.read_buf \o Unread(c)
      /\ a.write_remaining = s.write_remaining
      /\ a.sent = s.sent
      /\ a.fin = s.fin
  BY <1>3 DEF Stream
<1>5. a.read_buf \in Seq(Nat)
  <2>1. Digit \subseteq Nat
    BY BaseAssumption DEF Digit
  <2>2. QED
    BY <1>3, <1>4, <2>1, SeqMonotonic
<1> HIDE DEF a
<1>6. arrived[c] < 2 => Reading(c, a, arrived[c])
  BY <1>1, <1>2, <1>3, <1>4, <1>5 DEF InProgress, Reading, HeaderLen
<1>7. ASSUME arrived[c] = 2 PROVE Reading(c, a, HeaderLen) \/ Writing(c, a)
  <2>1. CASE read[c] < 2
    BY <1>2, <1>3, <1>4, <1>5, <1>7, <2>1 DEF InProgress, Reading, HeaderLen
  <2>2. CASE read[c] = 2
    BY <1>2, <1>3, <1>4, <1>5, <1>7, <2>2 DEF InProgress, Writing, HeaderLen
  <2>3. QED
    BY <1>1, <2>1, <2>2
<1>8. QED
  BY <1>4, <1>6, <1>7 DEF HeaderLen, a

LEMMA ReadRequestProgress ==
  ASSUME TypeOK, NEW c \in Conns, conn[c] = "open", ConnInv(c),
         NEW s \in Stream, InProgress(c, s, read[c])
  PROVE  /\ read_request(c, s) \in Stream
         /\ InProgress(c, read_request(c, s), arrived[c])
<1> DEFINE a == [s EXCEPT !.read_buf = @ \o Unread(c)]
           once == ReadPass(c, a)
<1>1. /\ a \in Stream
      /\ arrived[c] < HeaderLen => Reading(c, a, arrived[c])
      /\ arrived[c] = HeaderLen => Reading(c, a, HeaderLen) \/ Writing(c, a)
  BY AfterReceive
<1>2. read_request(c, s) =
        IF reqFin[c] = "arrived" \/ read[c] = arrived[c] THEN once
        ELSE ReadPass(c, once)
  BY DEF read_request
<1>3. arrived[c] \in 0 .. HeaderLen
  BY DEF TypeOK
<1> HIDE DEF a
<1>4. CASE arrived[c] < HeaderLen
  <2>1. once = a
    BY <1>1, <1>3, <1>4, ReadPassShort DEF HeaderLen
  <2>2. read_request(c, s) = a
    BY <1>2, <2>1
  <2>3. QED
    BY <1>1, <1>4, <2>2 DEF InProgress
<1>5. CASE arrived[c] = HeaderLen
  <2>1. once \in Stream /\ Writing(c, once)
    BY <1>1, <1>5, ReadPassWhole
  <2> HIDE DEF once
  <2>2. ReadPass(c, once) \in Stream /\ Writing(c, ReadPass(c, once))
    BY <2>1, ReadPassWhole
  <2>3. QED
    BY <1>2, <1>5, <2>1, <2>2 DEF InProgress, HeaderLen
<1>6. QED
  BY <1>3, <1>4, <1>5 DEF HeaderLen

-----------------------------------------------------------------------------
(***************************************************************************)
(* Every step preserves the invariant.                                     *)
(***************************************************************************)

LEMMA InitInv == Init => IInv
<1> SUFFICES ASSUME Init PROVE IInv
  OBVIOUS
<1>1. TypeOK
  BY BaseAssumption, WindowAssumption
  DEF Init, TypeOK, HeaderLen, StreamIds
<1>2. ASSUME NEW c \in Conns PROVE ConnInv(c)
  <2>1. /\ ~opened[c] /\ arrived[c] = 0 /\ read[c] = 0 /\ reqFin[c] = "absent"
        /\ sent[c] = 0 /\ finSent[c] = FALSE /\ size[c] = 0 /\ events[c] = {}
        /\ limit[c] = Window /\ got[c] = 0
    BY DEF Init
  <2>2. Window \in Nat
    BY WindowAssumption
  <2>3. QED
    BY <2>1, <2>2 DEF ConnInv
<1>3. OneExchange /\ EventsInv /\ EntryInv
  BY DEF Init, OneExchange, EventsInv, EntryInv, Live
<1>4. QED
  BY <1>1, <1>2, <1>3 DEF IInv

\* The actions that change neither an exchange nor what the server knows of it.
LEMMA QuietSteps ==
  ASSUME IInv,
         \/ EventsDrained \/ OutputDone \/ Timer \/ ListenFails
         \/ \E c \in Conns : SendDatagrams(c)
         \/ UNCHANGED vars
  PROVE  IInv'
<1> USE DEF vars, serverVars, recvVars, sendVars, clientVars
<1>1. /\ UNCHANGED <<stream_states, conn, events, recvVars, sendVars, limit, size, got>>
      /\ pc # "events" => pc' # "events" \/ \A c \in Conns : events[c] = {}
      /\ pc = "events" => pc' = "events" \/ \A c \in Conns : events[c] = {}
  BY DEF EventsDrained, OutputDone, Timer, ListenFails, SendDatagrams, IInv, EventsInv
<1>2. TypeOK'
  BY <1>1 DEF EventsDrained, OutputDone, Timer, ListenFails, SendDatagrams, IInv, TypeOK
<1>3. (\A c \in Conns : ConnInv(c))'
  BY <1>1 DEF IInv, ConnInv
<1>4. OneExchange'
  BY <1>1 DEF IInv, OneExchange, Live, Over
<1>5. EventsInv'
  BY <1>1 DEF IInv, EventsInv
<1>6. EntryInv'
  BY <1>1 DEF IInv, EntryInv, Live, Over, Entry, StreamOf, Reading, Writing
<1>7. QED
  BY <1>2, <1>3, <1>4, <1>5, <1>6 DEF IInv

LEMMA NewStreamStep ==
  ASSUME IInv, NEW c \in Conns, HandleNewStream(c)
  PROVE  IInv'
<1> USE DEF HandleNewStream, NextEvent, serverVars, recvVars, sendVars, clientVars
<1>1. TypeOK'
  <2>1. NewStreamState \in StreamState
    BY EmptySeq DEF NewStreamState, StreamState
  <2>2. QED
    BY <2>1 DEF IInv, TypeOK, Event
<1>2. ASSUME NEW d \in Conns PROVE ConnInv(d)'
  <2>1. ConnInv(d) /\ events'[d] \subseteq events[d]
        /\ ("RecvStreamReadable" \in events[d] => "RecvStreamReadable" \in events'[d])
    BY DEF IInv, TypeOK
  <2>2. QED
    BY <2>1 DEF ConnInv
<1>3. OneExchange' /\ EventsInv'
  BY DEF IInv, TypeOK, OneExchange, EventsInv, Live, Over
<1>4. ASSUME NEW d \in Conns, Live(d)', opened[d], "NewStream" \notin events'[d]
      PROVE  Entry' # None /\ Reading(d, StreamOf(d), read[d])' /\ read[d] = 0
  <2>1. d = c
    BY <1>4 DEF IInv, OneExchange, Live, Over, StreamEvent
  <2>2. read[c] = 0 /\ sent[c] = 0 /\ finSent[c] = FALSE
    <3>1. ConnInv(c) /\ sent[c] \in Nat /\ finSent[c] \in BOOLEAN
      BY DEF IInv, TypeOK
    <3>2. QED
      BY <3>1 DEF ConnInv, HeaderLen
  <2>3. Entry' = NewStreamState
    BY DEF IInv, TypeOK, Entry, StreamIds
  <2>4. StreamOf(c)' = [read_buf |-> <<>>, write_remaining |-> None,
                        sent |-> 0, fin |-> FALSE]
    <3>1. /\ stream_states'[FirstStream].read_buf = <<>>
          /\ stream_states'[FirstStream].write_remaining = None
      BY <2>3 DEF Entry, NewStreamState
    <3>2. sent'[c] = 0 /\ finSent'[c] = FALSE
      BY <2>2
    <3>3. QED
      BY <3>1, <3>2 DEF StreamOf
  <2>5. NewStreamState # None
    <3>1. NewStreamState \in StreamState
      BY EmptySeq DEF NewStreamState, StreamState
    <3>2. QED
      BY <3>1, NoneAssumption
  <2>6. QED
    BY <2>1, <2>2, <2>3, <2>4, <2>5 DEF Reading
<1>5. EntryInv'
  BY <1>4 DEF EntryInv, HeaderLen
<1>6. QED
  BY <1>1, <1>2, <1>3, <1>5 DEF IInv

LEMMA OtherEventStep ==
  ASSUME IInv, NEW c \in Conns, HandleOther(c)
  PROVE  IInv'
<1> USE DEF HandleOther, NextEvent, serverVars, recvVars, sendVars, clientVars
<1>1. TypeOK'
  BY DEF IInv, TypeOK, Event
<1>2. \A d \in Conns : /\ events'[d] \subseteq events[d]
                       /\ \A e \in StreamEvent : e \in events'[d] <=> e \in events[d]
  BY DEF IInv, TypeOK, StreamEvent
<1>3. ASSUME NEW d \in Conns PROVE ConnInv(d)'
  BY <1>2 DEF IInv, ConnInv, StreamEvent
<1>4. OneExchange' /\ EventsInv'
  BY <1>2 DEF IInv, OneExchange, EventsInv, Live, Over
<1>5. EntryInv'
  BY <1>2 DEF IInv, EntryInv, Live, Over, Entry, StreamOf, Reading, Writing, StreamEvent
<1>6. QED
  BY <1>1, <1>3, <1>4, <1>5 DEF IInv

\* What is known of a connection one of whose stream events is handled: no
\* other exchange is in progress, and its own is tracked by the shared entry.
LEMMA EventContext ==
  ASSUME IInv, NEW c \in Conns, NEW e \in StreamEvent \ {"NewStream"},
         NextEvent(c, e)
  PROVE  /\ opened[c]
         /\ conn[c] # "idle"
         /\ \A d \in Conns : Live(d) => d = c
         /\ "NewStream" \notin events[c]
         /\ Entry # None => StreamOf(c) \in Stream
         /\ Live(c) => Entry # None /\ InProgress(c, StreamOf(c), read[c])
<1>1. e \in events[c] \cap StreamEvent /\ "NewStream" \notin events[c]
  BY DEF NextEvent
<1>2. opened[c]
  BY <1>1 DEF IInv, EventsInv
<1>3. conn[c] # "idle"
  BY <1>2 DEF IInv, ConnInv
<1>4. \A d \in Conns : Live(d) => d = c
  BY <1>1 DEF IInv, OneExchange
<1>5. Entry # None => StreamOf(c) \in Stream
  BY DEF IInv, TypeOK, Entry, StreamOf, Stream, StreamState, StreamIds
<1>6. Live(c) => Entry # None /\ InProgress(c, StreamOf(c), read[c])
  BY <1>1, <1>2 DEF IInv, EntryInv, InProgress
<1>7. QED
  BY <1>1, <1>2, <1>3, <1>4, <1>5, <1>6

\* The state after StreamBecomes(c, t).
LEMMA AfterHandler ==
  ASSUME TypeOK, NEW c \in Conns, NEW t \in Stream, StreamBecomes(c, t)
  PROVE  /\ stream_states' \in [StreamIds -> StreamState \cup {None}]
         /\ sent' \in [Conns -> Nat]
         /\ finSent' \in [Conns -> BOOLEAN]
         /\ StreamOf(c)' = t
         /\ Entry' # None
         /\ \A d \in Conns \ {c} : sent'[d] = sent[d] /\ finSent'[d] = finSent[d]
         /\ sent'[c] = t.sent
         /\ finSent'[c] = t.fin
<1> DEFINE entry == [read_buf |-> t.read_buf, write_remaining |-> t.write_remaining]
<1>1. entry \in StreamState
  BY DEF Stream, StreamState
<1>2. /\ stream_states' = [stream_states EXCEPT ![FirstStream] = entry]
      /\ sent' = [sent EXCEPT ![c] = t.sent]
      /\ finSent' = [finSent EXCEPT ![c] = t.fin]
  BY DEF StreamBecomes
<1>3. t.sent \in Nat /\ t.fin \in BOOLEAN
  BY DEF Stream
<1>4. /\ stream_states \in [StreamIds -> StreamState \cup {None}]
      /\ sent \in [Conns -> Nat]
      /\ finSent \in [Conns -> BOOLEAN]
      /\ FirstStream \in StreamIds
  BY DEF TypeOK, StreamIds
<1>5. /\ entry.read_buf = t.read_buf
      /\ entry.write_remaining = t.write_remaining
  OBVIOUS
<1> HIDE DEF entry
<1>6. stream_states' \in [StreamIds -> StreamState \cup {None}] /\ Entry' = entry
  BY <1>1, <1>2, <1>4 DEF Entry
<1>7. sent' \in [Conns -> Nat] /\ finSent' \in [Conns -> BOOLEAN]
  BY <1>2, <1>3, <1>4
<1>8. /\ \A d \in Conns \ {c} : sent'[d] = sent[d] /\ finSent'[d] = finSent[d]
      /\ sent'[c] = t.sent
      /\ finSent'[c] = t.fin
  BY <1>2, <1>4
<1>9. StreamOf(c)' = [read_buf |-> t.read_buf, write_remaining |-> t.write_remaining,
                      sent |-> t.sent, fin |-> t.fin]
  BY <1>5, <1>6, <1>8 DEF StreamOf, Entry
<1>10. StreamOf(c)' = t
  BY <1>9 DEF Stream
<1>11. Entry' # None
  BY <1>1, <1>6, NoneAssumption
<1>12. QED
  BY <1>6, <1>7, <1>8, <1>10, <1>11

\* A handler that leaves connection c with stream state t, r digits read and
\* the request's end in state f preserves the invariant.
LEMMA HandlerStep ==
  ASSUME IInv, NEW c \in Conns, NEW e \in StreamEvent \ {"NewStream"},
         NextEvent(c, e),
         NEW t \in Stream, StreamBecomes(c, t),
         NEW r \in 0 .. HeaderLen, read' = [read EXCEPT ![c] = r],
         NEW f \in {"absent", "arrived", "read"}, reqFin' = [reqFin EXCEPT ![c] = f],
         r <= arrived[c],
         f # "absent" => arrived[c] = HeaderLen,
         f = "read" => r = HeaderLen,
         f # "arrived" \/ "RecvStreamReadable" \in events'[c] \/ conn[c] = "closed",
         t.sent <= limit[c],
         t.sent <= size[c],
         t.sent > 0 => r = HeaderLen,
         t.fin => t.sent = size[c] /\ r = HeaderLen,
         Live(c)' => Live(c) /\ InProgress(c, t, r)
  PROVE  IInv'
<1> USE DEF clientVars
<1>1. /\ opened[c]
      /\ conn[c] # "idle"
      /\ \A d \in Conns : Live(d) => d = c
      /\ "NewStream" \notin events[c]
  BY EventContext
<1>2. /\ stream_states' \in [StreamIds -> StreamState \cup {None}]
      /\ sent' \in [Conns -> Nat]
      /\ finSent' \in [Conns -> BOOLEAN]
      /\ StreamOf(c)' = t
      /\ Entry' # None
      /\ \A d \in Conns \ {c} : sent'[d] = sent[d] /\ finSent'[d] = finSent[d]
      /\ sent'[c] = t.sent
      /\ finSent'[c] = t.fin
  BY AfterHandler DEF IInv
<1>3. /\ UNCHANGED <<pc, conn, opened, arrived, limit, clientVars>>
      /\ events' = [events EXCEPT ![c] = @ \ {e}]
      /\ pc = "events"
  BY DEF NextEvent
<1>4. /\ \A d \in Conns \ {c} : /\ read'[d] = read[d]
                               /\ reqFin'[d] = reqFin[d]
                               /\ events'[d] = events[d]
      /\ read'[c] = r
      /\ reqFin'[c] = f
      /\ events'[c] = events[c] \ {e}
  BY <1>3 DEF IInv, TypeOK
<1>5. TypeOK'
  BY <1>2, <1>3 DEF IInv, TypeOK
<1>6. ASSUME NEW d \in Conns PROVE ConnInv(d)'
  <2>1. CASE d = c
    <3>1. ConnInv(c)
      BY DEF IInv
    <3>2. QED
      BY <1>1, <1>2, <1>3, <1>4, <2>1, <3>1 DEF ConnInv
  <2>2. CASE d # c
    <3>1. ConnInv(d)
      BY DEF IInv
    <3>2. QED
      BY <1>2, <1>3, <1>4, <2>2, <3>1 DEF ConnInv
  <2>3. QED
    BY <2>1, <2>2
<1>7. ASSUME NEW d \in Conns, Live(d)'
      PROVE  d = c
  BY <1>1, <1>2, <1>3, <1>4, <1>7 DEF Live, Over
<1>8. OneExchange'
  <2>1. ASSUME NEW d \in Conns, events'[d] \cap StreamEvent # {}, Live(c)'
        PROVE  d = c
    <3>1. SUFFICES ASSUME d # c PROVE FALSE
      OBVIOUS
    <3>2. events[d] \cap StreamEvent # {}
      BY <1>4, <2>1, <3>1
    <3>3. events[c] \cap StreamEvent # {} /\ ~Live(c)
      BY <3>1, <3>2 DEF IInv, OneExchange, NextEvent
    <3>4. QED
      BY <2>1, <3>3
  <2>2. QED
    BY <1>7, <2>1 DEF OneExchange
<1>9. EventsInv'
  BY <1>3, <1>4 DEF IInv, EventsInv
<1>10. EntryInv'
  <2>1. SUFFICES ASSUME Live(c)'
                 PROVE  IF r < HeaderLen THEN Reading(c, t, r)' ELSE Writing(c, t)'
    BY <1>2, <1>4, <1>7 DEF EntryInv
  <2>2. IF r < HeaderLen THEN Reading(c, t, r) ELSE Writing(c, t)
    BY <2>1 DEF InProgress
  <2>3. QED
    BY <1>3, <2>2 DEF Reading, Writing
<1>11. QED
  BY <1>5, <1>6, <1>8, <1>9, <1>10 DEF IInv

\* The bounds that HandlerStep asks for follow from InProgress.
LEMMA ProgressBounds ==
  ASSUME TypeOK, NEW c \in Conns, NEW t \in Stream, NEW r \in 0 .. HeaderLen,
         InProgress(c, t, r)
  PROVE  /\ t.sent <= limit[c]
         /\ t.sent <= size[c]
         /\ t.sent > 0 => r = HeaderLen
         /\ t.fin => t.sent = size[c] /\ r = HeaderLen
<1>1. size[c] \in Nat /\ limit[c] \in Nat
  BY BaseAssumption DEF TypeOK
<1>2. CASE r < HeaderLen
  BY <1>1, <1>2 DEF InProgress, Reading
<1>3. CASE ~(r < HeaderLen)
  <2>1. r = HeaderLen /\ Writing(c, t)
    BY <1>3 DEF InProgress, HeaderLen
  <2>2. t.sent <= size[c]
    BY <1>1, <2>1 DEF Writing, Stream
  <2>3. QED
    BY <2>1, <2>2 DEF Writing
<1>4. QED
  BY <1>2, <1>3

\* An event that is consumed without any other change.
LEMMA EventIgnored ==
  ASSUME IInv, NEW c \in Conns, NEW e \in StreamEvent \ {"NewStream"},
         NextEvent(c, e),
         UNCHANGED <<stream_states, read, reqFin, sent, finSent>>,
         e = "RecvStreamReadable" => reqFin[c] # "arrived" \/ conn[c] = "closed"
  PROVE  IInv'
<1>1. /\ UNCHANGED <<stream_states, read, reqFin, sent, finSent, pc, conn, opened,
                     arrived, limit, size, wired, wiredFin, got>>
      /\ events' = [events EXCEPT ![c] = @ \ {e}]
      /\ pc = "events"
      /\ e # "NewStream"
  BY DEF NextEvent, clientVars
<1>2. TypeOK'
  BY <1>1 DEF IInv, TypeOK
<1>3. \A d \in Conns : /\ events'[d] \subseteq events[d]
                       /\ d # c => events'[d] = events[d]
                       /\ \A x \in events[d] : x # e => x \in events'[d]
  BY <1>1 DEF IInv, TypeOK
<1>4. ASSUME NEW d \in Conns PROVE ConnInv(d)'
  <2>1. CASE e = "RecvStreamReadable" /\ d = c
    BY <1>1, <1>3, <2>1 DEF IInv, ConnInv
  <2>2. CASE ~(e = "RecvStreamReadable" /\ d = c)
    BY <1>1, <1>3, <2>2 DEF IInv, ConnInv
  <2>3. QED
    BY <2>1, <2>2
<1>5. \A d \in Conns : Live(d)' <=> Live(d)
  BY <1>1 DEF Live, Over
<1>6. OneExchange' /\ EventsInv'
  BY <1>1, <1>3, <1>5 DEF IInv, OneExchange, EventsInv
<1>7. EntryInv'
  <2>1. SUFFICES ASSUME NEW d \in Conns, Live(d), opened[d], "NewStream" \notin events'[d]
                 PROVE  /\ Entry' # None
                        /\ IF read[d] < HeaderLen
                           THEN Reading(d, StreamOf(d), read[d])'
                           ELSE Writing(d, StreamOf(d))'
    BY <1>1, <1>5 DEF EntryInv
  <2>2. "NewStream" \notin events[d]
    BY <1>1, <1>3, <2>1
  <2>3. /\ Entry # None
        /\ IF read[d] < HeaderLen THEN Reading(d, StreamOf(d), read[d])
                                  ELSE Writing(d, StreamOf(d))
    BY <2>1, <2>2 DEF IInv, EntryInv
  <2>4. QED
    BY <1>1, <2>3 DEF Entry, StreamOf, Reading, Writing
<1>8. QED
  BY <1>2, <1>4, <1>6, <1>7 DEF IInv

LEMMA WritableStep ==
  ASSUME IInv, NEW c \in Conns, HandleWritable(c)
  PROVE  IInv'
<1> DEFINE s == StreamOf(c)
           t == try_send_response(c, s)
<1>1. /\ NextEvent(c, "SendStreamWritable")
      /\ UNCHANGED <<read, reqFin>>
      /\ IF Entry = None THEN UNCHANGED <<stream_states, sendVars>>
                         ELSE StreamBecomes(c, t)
  BY DEF HandleWritable, Entry
<1>2. /\ opened[c]
      /\ conn[c] # "idle"
      /\ \A d \in Conns : Live(d) => d = c
      /\ "NewStream" \notin events[c]
      /\ Entry # None => s \in Stream
      /\ Live(c) => Entry # None /\ InProgress(c, s, read[c])
  BY <1>1, EventContext DEF StreamEvent
<1>3. ConnInv(c) /\ TypeOK
  BY DEF IInv
<1>4. UNCHANGED <<conn, arrived>> /\ events' = [events EXCEPT ![c] = @ \ {"SendStreamWritable"}]
  BY <1>1 DEF NextEvent
<1>5. "RecvStreamReadable" \in events[c] => "RecvStreamReadable" \in events'[c]
  BY <1>4 DEF IInv, TypeOK
<1>6. CASE Entry = None
  BY <1>1, <1>6, EventIgnored DEF sendVars, StreamEvent
<1>7. CASE Entry # None
  <2>1. /\ s \in Stream
        /\ s.sent = sent[c]
        /\ s.fin = finSent[c]
    BY <1>2, <1>7 DEF StreamOf
  <2>2. /\ t \in Stream
        /\ t.sent <= limit[c]
        /\ t.read_buf = s.read_buf
        /\ SendFails(c, s) => t.sent = s.sent /\ t.fin = s.fin
        /\ s.write_remaining = None => t = s
    BY <1>3, <2>1, TrySendType DEF ConnInv
  <2> HIDE DEF s, t
  <2>3. ~Live(c) => SendFails(c, s)
    BY <1>2, <1>3, <2>1 DEF Live, Over, SendFails, TypeOK
  <2>4. Live(c) => InProgress(c, t, read[c])
    <3>1. SUFFICES ASSUME Live(c) PROVE InProgress(c, t, read[c])
      OBVIOUS
    <3>2. InProgress(c, s, read[c])
      BY <1>2, <3>1
    <3>3. CASE read[c] < HeaderLen
      BY <2>2, <3>2, <3>3 DEF InProgress, Reading
    <3>4. CASE ~(read[c] < HeaderLen)
      <4>1. Writing(c, s) /\ conn[c] = "open"
        BY <3>1, <3>2, <3>4 DEF InProgress, Live
      <4>2. Writing(c, t)
        BY <1>3, <2>1, <4>1, TrySendWriting DEF t
      <4>3. QED
        BY <3>4, <4>2 DEF InProgress
    <3>5. QED
      BY <3>3, <3>4
  <2>5. read[c] \in 0 .. HeaderLen
    BY <1>3 DEF TypeOK
  <2>6. /\ t.sent <= size[c]
        /\ t.sent > 0 => read[c] = HeaderLen
        /\ t.fin => t.sent = size[c] /\ read[c] = HeaderLen
    <3>1. CASE Live(c)
      BY <1>3, <2>2, <2>4, <2>5, <3>1, ProgressBounds
    <3>2. CASE ~Live(c)
      BY <1>3, <2>1, <2>2, <2>3, <3>2 DEF ConnInv
    <3>3. QED
      BY <3>1, <3>2
  <2>7. StreamBecomes(c, t)
    BY <1>1, <1>7
  <2>8. finSent'[c] = t.fin
    BY <1>3, <2>2, <2>7, AfterHandler
  <2>9. Live(c)' => Live(c)
    BY <1>1, <1>4, <2>1, <2>2, <2>3, <2>8 DEF Live, Over, SendFails
  <2>10. /\ read' = [read EXCEPT ![c] = read[c]]
         /\ reqFin' = [reqFin EXCEPT ![c] = reqFin[c]]
         /\ reqFin[c] \in {"absent", "arrived", "read"}
    BY <1>1, <1>3 DEF TypeOK
  <2>11. "SendStreamWritable" \in StreamEvent \ {"NewStream"}
    BY DEF StreamEvent
  <2>12. QED
    BY <1>1, <1>3, <1>5, <2>2, <2>4, <2>5, <2>6, <2>7, <2>9, <2>10, <2>11, HandlerStep
    DEF ConnInv
<1>8. QED
  BY <1>6, <1>7

LEMMA ReadableStep ==
  ASSUME IInv, NEW c \in Conns, HandleReadable(c)
  PROVE  IInv'
<1> DEFINE s == StreamOf(c)
           t == read_request(c, s)
           ignored == Entry = None \/ conn[c] = "closed" \/ reqFin[c] = "read"
           f == IF reqFin[c] = "arrived" THEN "read" ELSE reqFin[c]
<1>1. /\ NextEvent(c, "RecvStreamReadable")
      /\ ignored => UNCHANGED <<stream_states, read, reqFin, sent, finSent>>
      /\ ~ignored => /\ StreamBecomes(c, t)
                     /\ read' = [read EXCEPT ![c] = arrived[c]]
                     /\ reqFin' = [reqFin EXCEPT ![c] = f]
  BY DEF HandleReadable, Entry, sendVars
<1>2. "RecvStreamReadable" \in StreamEvent \ {"NewStream"}
  BY DEF StreamEvent
<1>3. /\ conn[c] # "idle"
      /\ Entry # None => s \in Stream
      /\ Live(c) => Entry # None /\ InProgress(c, s, read[c])
  BY <1>1, <1>2, EventContext
<1>4. TypeOK /\ ConnInv(c)
  BY DEF IInv
<1>5. CASE ignored
  <2>1. reqFin[c] # "arrived" \/ conn[c] = "closed"
    BY <1>3, <1>4, <1>5 DEF Live, Over, TypeOK
  <2>2. QED
    BY <1>1, <1>2, <1>5, <2>1, EventIgnored
<1>6. CASE ~ignored
  <2>1. conn[c] = "open" /\ Live(c) /\ reqFin[c] \in {"absent", "arrived"}
    BY <1>3, <1>4, <1>6 DEF Live, Over, TypeOK
  <2>2. t \in Stream /\ InProgress(c, t, arrived[c])
    BY <1>3, <1>4, <1>6, <2>1, ReadRequestProgress
  <2> HIDE DEF s, t
  <2>3. arrived[c] \in 0 .. HeaderLen
    BY <1>4 DEF TypeOK
  <2>4. /\ t.sent <= limit[c]
        /\ t.sent <= size[c]
        /\ t.sent > 0 => arrived[c] = HeaderLen
        /\ t.fin => t.sent = size[c] /\ arrived[c] = HeaderLen
    BY <1>4, <2>2, <2>3, ProgressBounds
  <2>5. /\ f \in {"absent", "arrived", "read"}
        /\ f # "arrived"
        /\ f # "absent" => arrived[c] = HeaderLen
    BY <1>4, <2>1 DEF ConnInv
  <2>6. /\ StreamBecomes(c, t)
        /\ read' = [read EXCEPT ![c] = arrived[c]]
        /\ reqFin' = [reqFin EXCEPT ![c] = f]
    BY <1>1, <1>6
  <2>7. arrived[c] <= arrived[c]
    BY <2>3 DEF HeaderLen
  <2> HIDE DEF f
  <2>8. QED
    BY <1>1, <1>2, <2>1, <2>2, <2>3, <2>4, <2>5, <2>6, <2>7, HandlerStep
<1>7. QED
  BY <1>5, <1>6

LEMMA ConnectStep ==
  ASSUME ~Overlap, IInv, NEW c \in Conns, Connect(c)
  PROVE  IInv'
<1> USE DEF serverVars, recvVars, sendVars
<1>1. /\ UNCHANGED <<stream_states, recvVars, sendVars, limit, wired, wiredFin, got>>
      /\ conn[c] = "idle"
      /\ conn' = [conn EXCEPT ![c] = "open"]
      /\ events' = [events EXCEPT ![c] = {"StateChange"}]
      /\ pc = "wait" /\ pc' = "events"
      /\ \A d \in Conns : conn[d] = "idle" \/ Over(d)
      /\ ConnInv(c)
  BY DEF Connect, IInv
<1>2. PICK n \in Sizes : size' = [size EXCEPT ![c] = n]
  BY DEF Connect
<1>3. n \in 0 .. Base * Base - 1
  BY SizesAssumption
<1>4. TypeOK'
  BY <1>1, <1>2, <1>3 DEF IInv, TypeOK, Event
<1>5. /\ conn'[c] = "open" /\ events'[c] = {"StateChange"} /\ size'[c] = n
      /\ \A d \in Conns \ {c} : /\ conn'[d] = conn[d]
                               /\ events'[d] = events[d]
                               /\ size'[d] = size[d]
      /\ events[c] = {}
  BY <1>1, <1>2 DEF IInv, TypeOK, EventsInv
<1>6. ~opened[c] /\ read[c] = 0 /\ sent[c] = 0 /\ ~finSent[c]
  BY <1>1 DEF ConnInv, HeaderLen
<1>7. ASSUME NEW d \in Conns PROVE ConnInv(d)'
  <2>1. CASE d = c
    BY <1>1, <1>3, <1>5, <1>6, <2>1 DEF ConnInv
  <2>2. CASE d # c
    BY <1>1, <1>5, <2>2 DEF IInv, ConnInv
  <2>3. QED
    BY <2>1, <2>2
<1>8. \A d \in Conns : Live(d)' => d = c
  BY <1>1, <1>5 DEF Live, Over
<1>9. \A d \in Conns : (events[d] \cap StreamEvent)' = {}
  BY <1>1, <1>5 DEF IInv, EventsInv, StreamEvent
<1>10. OneExchange' /\ EventsInv'
  BY <1>1, <1>8, <1>9 DEF OneExchange, EventsInv
<1>11. EntryInv'
  BY <1>1, <1>6, <1>8 DEF EntryInv
<1>12. QED
  BY <1>4, <1>7, <1>10, <1>11 DEF IInv

LEMMA DatagramStep ==
  ASSUME IInv, NEW c \in Conns, NEW frame \in BOOLEAN, NEW fin \in BOOLEAN,
         NEW grant \in BOOLEAN, NEW close \in BOOLEAN,
         NEW k \in arrived[c] .. HeaderLen,
         Datagram(c, frame, k, fin, grant, close)
  PROVE  IInv'
<1> USE DEF serverVars, recvVars, sendVars, clientVars
<1> DEFINE pending == When(frame /\ ~opened[c], "NewStream")
                      \cup When(arrived[c] < k \/ fin, "RecvStreamReadable")
                      \cup When(sent[c] = limit[c] /\ limit'[c] > limit[c] /\ ~finSent[c],
                                "SendStreamWritable")
                      \cup When(close, "StateChange")
<1>1. /\ UNCHANGED <<stream_states, read, sent, finSent, size, wired, wiredFin, got>>
      /\ pc = "wait" /\ pc' = "events"
      /\ conn[c] = "open"
      /\ arrived[c] < k \/ fin => frame
      /\ fin => k = HeaderLen /\ reqFin[c] = "absent"
  BY DEF Datagram
<1>2. /\ opened' = [opened EXCEPT ![c] = @ \/ frame]
      /\ arrived' = [arrived EXCEPT ![c] = k]
      /\ reqFin' = [reqFin EXCEPT ![c] = IF fin THEN "arrived" ELSE @]
      /\ limit' = [limit EXCEPT ![c] = IF grant THEN got[c] + Window ELSE @]
      /\ conn' = [conn EXCEPT ![c] = IF close THEN "closed" ELSE @]
      /\ events' = [events EXCEPT ![c] = pending]
  BY DEF Datagram
<1>3. TypeOK /\ ConnInv(c) /\ \A d \in Conns : events[d] = {}
  BY <1>1 DEF IInv, EventsInv
<1>4. arrived[c] \in 0 .. 2 /\ k \in 0 .. 2 /\ arrived[c] <= k /\ Window \in Nat
  BY <1>3, WindowAssumption DEF TypeOK, HeaderLen
<1>5. pending \subseteq Event
  BY DEF When, Event
<1>6. TypeOK'
  BY <1>1, <1>2, <1>3, <1>4, <1>5 DEF TypeOK, HeaderLen
<1>7. /\ opened'[c] = (opened[c] \/ frame)
      /\ arrived'[c] = k
      /\ reqFin'[c] = IF fin THEN "arrived" ELSE reqFin[c]
      /\ limit'[c] = IF grant THEN got[c] + Window ELSE limit[c]
      /\ conn'[c] = IF close THEN "closed" ELSE conn[c]
      /\ events'[c] = pending
  BY <1>2, <1>3 DEF TypeOK
<1>8. \A d \in Conns \ {c} : /\ opened'[d] = opened[d]
                            /\ arrived'[d] = arrived[d]
                            /\ reqFin'[d] = reqFin[d]
                            /\ limit'[d] = limit[d]
                            /\ conn'[d] = conn[d]
                            /\ events'[d] = events[d]
  BY <1>2, <1>3 DEF TypeOK
<1>9. /\ "NewStream" \in pending <=> frame /\ ~opened[c]
      /\ "RecvStreamReadable" \in pending <=> arrived[c] < k \/ fin
      /\ "SendStreamWritable" \in pending => sent[c] = limit[c] /\ limit'[c] > limit[c] /\ ~finSent[c]
  BY DEF When
<1> HIDE DEF pending
<1>10. limit[c] <= limit'[c] /\ limit'[c] <= got[c] + Window /\ Window <= limit'[c]
       /\ sent[c] \in Nat /\ limit[c] \in Nat /\ limit'[c] \in Nat /\ got[c] \in Nat
  BY <1>3, <1>4, <1>7 DEF ConnInv, TypeOK
<1>11. ASSUME NEW d \in Conns PROVE ConnInv(d)'
  <2>1. CASE d # c
    BY <1>1, <1>8, <2>1 DEF IInv, ConnInv
  <2>2. CASE d = c
    <3>1. read[c] <= k /\ read[c] \in 0 .. 2
      BY <1>3, <1>4 DEF ConnInv, TypeOK, HeaderLen
    <3>2. sent[c] <= limit'[c]
      BY <1>3, <1>10 DEF ConnInv
    <3>3. ~opened'[c] => k = 0 /\ reqFin'[c] = "absent"
      <4>1. SUFFICES ASSUME ~opened'[c] PROVE k = 0 /\ reqFin'[c] = "absent"
        OBVIOUS
      <4>2. ~opened[c] /\ ~frame
        BY <1>7, <4>1
      <4>3. ~(arrived[c] < k) /\ ~fin
        BY <1>1, <4>2
      <4>4. QED
        BY <1>3, <1>4, <1>7, <4>2, <4>3 DEF ConnInv
    <3>4. reqFin'[c] # "absent" => k = HeaderLen
      BY <1>1, <1>3, <1>4, <1>7 DEF ConnInv, HeaderLen
    <3>5. reqFin'[c] = "read" => read[c] = HeaderLen
      BY <1>3, <1>7 DEF ConnInv
    <3>6. reqFin'[c] # "arrived" \/ "RecvStreamReadable" \in events'[c] \/ conn'[c] = "closed"
      BY <1>1, <1>3, <1>7, <1>9 DEF ConnInv
    <3>7. "NewStream" \in events'[c] => opened'[c] /\ read[c] = 0
      BY <1>3, <1>4, <1>7, <1>9, <3>1 DEF ConnInv
    <3>8. QED
      BY <1>1, <1>3, <1>7, <1>10, <2>2, <3>1, <3>2, <3>3, <3>4, <3>5, <3>6, <3>7 DEF ConnInv
  <2>3. QED
    BY <2>1, <2>2
<1>12. \A d \in Conns : Live(d)' => Live(d)
  BY <1>1, <1>3, <1>7, <1>8 DEF Live, Over, TypeOK
<1>13. events'[c] \cap StreamEvent # {} => ~Over(c)
  <2>1. SUFFICES ASSUME Over(c) PROVE pending \cap StreamEvent = {}
    BY <1>7
  <2>2. finSent[c] /\ reqFin[c] = "read" /\ arrived[c] = 2 /\ opened[c]
    BY <1>1, <1>3, <2>1 DEF Over, ConnInv, HeaderLen
  <2>3. QED
    BY <1>1, <1>4, <1>9, <2>2 DEF StreamEvent
<1>14. OneExchange' /\ EventsInv'
  <2>1. OneExchange'
    BY <1>1, <1>3, <1>8, <1>12, <1>13 DEF IInv, OneExchange, Live
  <2>2. ~opened'[c] => events'[c] \cap StreamEvent = {}
    <3>1. SUFFICES ASSUME ~opened'[c] PROVE pending \cap StreamEvent = {}
      BY <1>7
    <3>2. ~opened[c] /\ ~frame /\ ~(arrived[c] < k) /\ ~fin
      BY <1>1, <1>7, <3>1
    <3>3. sent[c] # limit[c]
      BY <1>3, <1>10, <3>2, WindowAssumption DEF ConnInv, HeaderLen, TypeOK
    <3>4. QED
      BY <1>9, <3>2, <3>3 DEF StreamEvent
  <2>3. EventsInv'
    BY <1>1, <1>8, <2>2 DEF IInv, EventsInv
  <2>4. QED
    BY <2>1, <2>3
<1>15. EntryInv'
  <2>1. SUFFICES ASSUME NEW d \in Conns, Live(d)', opened'[d], "NewStream" \notin events'[d]
                 PROVE  /\ Entry' # None
                        /\ IF read[d] < HeaderLen
                           THEN Reading(d, StreamOf(d), read[d])'
                           ELSE Writing(d, StreamOf(d))'
    BY <1>1 DEF EntryInv
  <2>2. opened[d] /\ Live(d) /\ "NewStream" \notin events[d]
    BY <1>3, <1>7, <1>8, <1>9, <1>12, <2>1 DEF TypeOK
  <2>3. /\ Entry # None
        /\ IF read[d] < HeaderLen THEN Reading(d, StreamOf(d), read[d])
                                  ELSE Writing(d, StreamOf(d))
    BY <2>2 DEF IInv, EntryInv
  <2>4. limit[d] <= limit'[d] /\ limit[d] \in Nat /\ limit'[d] \in Nat
    BY <1>3, <1>8, <1>10 DEF TypeOK
  <2>5. Entry' # None /\ StreamOf(d)' = StreamOf(d)
    BY <1>1, <2>3 DEF Entry, StreamOf
  <2>6. CASE read[d] < HeaderLen
    BY <1>1, <2>3, <2>5, <2>6 DEF Reading
  <2>7. CASE ~(read[d] < HeaderLen)
    <3>1. Writing(d, StreamOf(d))
      BY <2>3, <2>7
    <3>2. StreamOf(d).sent <= limit'[d]
      BY <2>4, <3>1 DEF Writing
    <3>3. Writing(d, StreamOf(d))'
      BY <1>1, <2>5, <3>1, <3>2 DEF Writing
    <3>4. QED
      BY <2>5, <2>7, <3>3
  <2>8. QED
    BY <2>6, <2>7
<1>16. QED
  BY <1>6, <1>11, <1>14, <1>15 DEF IInv

LEMMA IdleTimeoutStep ==
  ASSUME IInv, NEW c \in Conns, IdleTimeout(c)
  PROVE  IInv'
<1> USE DEF serverVars, recvVars, sendVars, clientVars
<1>1. /\ UNCHANGED <<stream_states, recvVars, sendVars, limit, clientVars>>
      /\ pc = "wait" /\ pc' = "events"
      /\ conn[c] = "open"
      /\ conn' = [conn EXCEPT ![c] = "closed"]
      /\ events' = [events EXCEPT ![c] = {"StateChange"}]
  BY DEF IdleTimeout
<1>2. TypeOK'
  BY <1>1 DEF IInv, TypeOK, Event
<1>3. /\ conn'[c] = "closed" /\ events'[c] = {"StateChange"}
      /\ \A d \in Conns \ {c} : conn'[d] = conn[d] /\ events'[d] = events[d]
      /\ \A d \in Conns : events[d] = {}
  BY <1>1 DEF IInv, TypeOK, EventsInv
<1>4. ASSUME NEW d \in Conns PROVE ConnInv(d)'
  BY <1>1, <1>3 DEF IInv, ConnInv
<1>5. \A d \in Conns : Live(d)' => Live(d) /\ d # c
  BY <1>1, <1>3 DEF Live, Over
<1>6. \A d \in Conns : (events[d] \cap StreamEvent)' = {}
  BY <1>3 DEF StreamEvent
<1>7. OneExchange' /\ EventsInv'
  BY <1>1, <1>5, <1>6 DEF IInv, OneExchange, EventsInv
<1>8. EntryInv'
  BY <1>1, <1>3, <1>5 DEF IInv, EntryInv, Entry, StreamOf, Reading, Writing
<1>9. QED
  BY <1>2, <1>4, <1>7, <1>8 DEF IInv

LEMMA ClientReceivesStep ==
  ASSUME IInv, NEW c \in Conns, ClientReceives(c)
  PROVE  IInv'
<1> USE DEF serverVars, recvVars, sendVars
<1>1. PICK n \in got[c] + 1 .. wired[c] : got' = [got EXCEPT ![c] = n]
  BY DEF ClientReceives
<1>2. UNCHANGED <<serverVars, conn, events, recvVars, sendVars, limit, size, wired, wiredFin>>
  BY DEF ClientReceives
<1>3. TypeOK
  BY DEF IInv
<1>4. n \in Nat /\ got[c] < n
  BY <1>1, <1>3 DEF TypeOK
<1>5. TypeOK'
  BY <1>1, <1>2, <1>3, <1>4 DEF TypeOK
<1>6. ASSUME NEW d \in Conns PROVE ConnInv(d)'
  <2>1. got[d] <= got'[d] /\ got[d] \in Nat /\ got'[d] \in Nat /\ limit[d] \in Nat
    BY <1>1, <1>3, <1>4 DEF TypeOK
  <2>2. limit[d] <= got'[d] + Window
    <3>1. limit[d] <= got[d] + Window
      BY DEF IInv, ConnInv
    <3>2. QED
      BY <2>1, <3>1, WindowAssumption
  <2>3. QED
    BY <1>2, <2>2 DEF IInv, ConnInv
<1>7. OneExchange'
  BY <1>2 DEF IInv, OneExchange, Live, Over
<1>8. EventsInv'
  BY <1>2 DEF IInv, EventsInv
<1>9. EntryInv'
  BY <1>2 DEF IInv, EntryInv, Live, Over, Entry, StreamOf, Reading, Writing
<1>10. QED
  BY <1>5, <1>6, <1>7, <1>8, <1>9 DEF IInv

LEMMA StepInv ==
  ASSUME ~Overlap, IInv, [Next]_vars
  PROVE  IInv'
<1>1. CASE Server
  <2>1. ASSUME NEW c \in Conns, Handler(c) PROVE IInv'
    BY <2>1, NewStreamStep, ReadableStep, WritableStep, OtherEventStep DEF Handler
  <2>2. QED
    BY <1>1, <2>1, QuietSteps DEF Server
<1>2. CASE Timer \/ ListenFails
  BY <1>2, QuietSteps
<1>3. ASSUME NEW c \in Conns, Environment(c) PROVE IInv'
  <2>1. CASE ReceiveDatagram(c)
    BY <2>1, DatagramStep DEF ReceiveDatagram
  <2>2. QED
    BY <1>3, <2>1, ConnectStep, IdleTimeoutStep, ClientReceivesStep, QuietSteps
    DEF Environment
<1>4. CASE UNCHANGED vars
  BY <1>4, QuietSteps
<1>5. QED
  BY <1>1, <1>2, <1>3, <1>4 DEF Next

LEMMA Invariance == ASSUME ~Overlap PROVE Spec => []IInv
<1>1. Init => IInv
  BY InitInv
<1>2. IInv /\ [Next]_vars => IInv'
  BY StepInv
<1>3. QED
  BY <1>1, <1>2, PTL DEF Spec

-----------------------------------------------------------------------------
(***************************************************************************)
(* What a handler sends.                                                   *)
(***************************************************************************)

\* try_send_response takes nothing back, and nothing follows the end.
Grows(s, t) == s.sent <= t.sent /\ (s.fin => t.fin /\ t.sent = s.sent)

\* It has written all that the flow-control limit allows.
Used(c, t) == t.fin \/ t.sent = limit[c]

LEMMA TrySendGrows ==
  ASSUME TypeOK, NEW c \in Conns, NEW s \in Stream, s.sent <= limit[c]
  PROVE  Grows(s, try_send_response(c, s))
<1> DEFINE t == try_send_response(c, s)
<1>1. limit[c] \in Nat /\ s.sent \in Nat
  BY DEF TypeOK, Stream
<1>2. CASE SendFails(c, s) \/ s.write_remaining = None
  <2>1. t.sent = s.sent /\ t.fin = s.fin
    BY <1>2, TrySendType
  <2>2. QED
    BY <1>1, <2>1 DEF Grows
<1>3. CASE ~SendFails(c, s) /\ s.write_remaining # None
  <2>1. s.write_remaining \in Nat
    BY <1>3 DEF Stream
  <2>2. Accepted(c, s) \in Nat
    BY <1>1, <2>1 DEF Accepted, Lesser
  <2>3. t.sent = s.sent + Accepted(c, s)
    BY <1>3 DEF try_send_response, Stream
  <2>4. ~s.fin
    BY <1>3 DEF SendFails
  <2>5. QED
    BY <1>1, <2>2, <2>3, <2>4 DEF Grows
<1>4. QED
  BY <1>2, <1>3

LEMMA TrySendUses ==
  ASSUME TypeOK, NEW c \in Conns, conn[c] = "open",
         NEW s \in Stream, Writing(c, s)
  PROVE  Used(c, try_send_response(c, s))
<1> DEFINE t == try_send_response(c, s)
           n == Accepted(c, s)
<1>1. limit[c] \in Nat /\ s.sent \in Nat /\ s.sent <= limit[c]
  BY DEF TypeOK, Stream, Writing
<1>2. CASE s.fin
  BY <1>2 DEF Writing, try_send_response, Used
<1>3. CASE ~s.fin
  <2>1. s.write_remaining \in Nat /\ s.write_remaining # None
    BY <1>3, NoneAssumption DEF Writing
  <2>2. ~SendFails(c, s)
    BY <1>3 DEF SendFails
  <2>3. n = s.write_remaining \/ n = limit[c] - s.sent
    BY DEF Accepted, Lesser
  <2>4. n = s.write_remaining => t.fin
    BY <2>1, <2>2 DEF try_send_response, Stream
  <2>5. t.sent = s.sent + n
    BY <2>1, <2>2 DEF try_send_response, Stream
  <2> HIDE DEF n, t
  <2>6. n = limit[c] - s.sent => t.sent = limit[c]
    BY <1>1, <2>5
  <2>7. Used(c, t)
    BY <2>3, <2>4, <2>6 DEF Used
  <2>8. QED
    BY <2>7 DEF t
<1>4. QED
  BY <1>2, <1>3

\* A header is parsed as some number.
LEMMA HeaderNat ==
  ASSUME NEW b \in Seq(Digit), Len(b) >= HeaderLen
  PROVE  FromBytes(b) \in Nat
<1>1. 1 \in 1 .. Len(b) /\ 2 \in 1 .. Len(b)
  BY DEF HeaderLen
<1>2. b[1] \in Digit /\ b[2] \in Digit
  BY <1>1, ElementOfSeq
<1>3. QED
  BY <1>2, BaseAssumption DEF FromBytes, Digit

\* The same of a pass of read_request, which may parse the header first.
LEMMA ParseType ==
  ASSUME NEW s \in Stream
  PROVE  LET p == ParseRequest(s) IN
         p \in Stream /\ p.sent = s.sent /\ p.fin = s.fin
<1>1. Len(s.read_buf) >= HeaderLen => FromBytes(s.read_buf) \in Nat
  BY HeaderNat DEF Stream
<1>2. QED
  BY <1>1 DEF ParseRequest, Stream

LEMMA ReadPassGrows ==
  ASSUME TypeOK, NEW c \in Conns, NEW s \in Stream, s.sent <= limit[c]
  PROVE  /\ ReadPass(c, s) \in Stream
         /\ ReadPass(c, s).sent <= limit[c]
         /\ Grows(s, ReadPass(c, s))
<1> DEFINE p == ParseRequest(s)
<1>1. p \in Stream /\ p.sent = s.sent /\ p.fin = s.fin
  BY ParseType
<1> HIDE DEF p
<1>2. /\ try_send_response(c, p) \in Stream
      /\ try_send_response(c, p).sent <= limit[c]
      /\ Grows(p, try_send_response(c, p))
  BY <1>1, TrySendType, TrySendGrows
<1>3. QED
  BY <1>1, <1>2 DEF Grows, ReadPass, p

\* What stream_recv returns.
LEMMA UnreadType ==
  ASSUME TypeOK, NEW c \in Conns
  PROVE  Unread(c) \in Seq(Digit)
<1>1. ToBytes(size[c]) \in Seq(Digit) /\ Len(ToBytes(size[c])) = 2
  BY HeaderRoundTrip DEF TypeOK, HeaderLen
<1>2. read[c] \in 0 .. 2 /\ arrived[c] \in 0 .. 2
  BY DEF TypeOK, HeaderLen
<1>3. \A i \in read[c] + 1 .. arrived[c] : ToBytes(size[c])[i] \in Digit
  BY <1>1, <1>2, ElementOfSeq
<1> DEFINE w == ToBytes(size[c])
<1> HIDE DEF w
<1>4. \A i \in read[c] + 1 .. arrived[c] : w[i] \in Digit
  BY <1>3 DEF w
<1>5. SubSeq(w, read[c] + 1, arrived[c]) \in Seq(Digit)
  BY <1>2, <1>4, SubSeqProperties
<1>6. QED
  BY <1>5 DEF Unread, w

LEMMA ReadRequestGrows ==
  ASSUME TypeOK, NEW c \in Conns, NEW s \in Stream, s.sent <= limit[c]
  PROVE  /\ read_request(c, s) \in Stream
         /\ read_request(c, s).sent <= limit[c]
         /\ Grows(s, read_request(c, s))
<1> DEFINE a == [s EXCEPT !.read_buf = @ \o Unread(c)]
           once == ReadPass(c, a)
<1>1. Unread(c) \in Seq(Digit)
  BY UnreadType
<1>2. a \in Stream /\ a.sent = s.sent /\ a.fin = s.fin
  <2>1. s.read_buf \o Unread(c) \in Seq(Digit)
    BY <1>1, ConcatProperties DEF Stream
  <2>2. QED
    BY <2>1 DEF Stream
<1>3. read_request(c, s) = once \/ read_request(c, s) = ReadPass(c, once)
  BY DEF read_request
<1>4. s.sent \in Nat
  BY DEF Stream
<1> HIDE DEF a
<1>5. once \in Stream /\ once.sent <= limit[c] /\ Grows(a, once)
  BY <1>2, ReadPassGrows
<1> HIDE DEF once
<1>6. /\ ReadPass(c, once) \in Stream
      /\ ReadPass(c, once).sent <= limit[c]
      /\ Grows(once, ReadPass(c, once))
  BY <1>5, ReadPassGrows
<1>7. once.sent \in Nat /\ ReadPass(c, once).sent \in Nat
  BY <1>5, <1>6 DEF Stream
<1>8. Grows(s, once)
  BY <1>2, <1>5 DEF Grows
<1>9. Grows(s, ReadPass(c, once))
  BY <1>4, <1>6, <1>7, <1>8 DEF Grows
<1>10. QED
  BY <1>3, <1>5, <1>6, <1>8, <1>9

LEMMA ReadPassUses ==
  ASSUME TypeOK, NEW c \in Conns, conn[c] = "open", NEW s \in Stream,
         Reading(c, s, HeaderLen) \/ Writing(c, s)
  PROVE  Used(c, ReadPass(c, s))
<1>1. Writing(c, ReadPass(c, s))
  BY ReadPassWhole
<1> DEFINE p == ParseRequest(s)
           t == try_send_response(c, p)
<1>2. CASE t.fin
  BY <1>2 DEF Used, ReadPass
<1>3. CASE ~t.fin
  <2>1. Writing(c, t)
    BY <1>1 DEF ReadPass
  <2>2. t.write_remaining \in Nat /\ t.write_remaining # None
    BY <1>3, <2>1, NoneAssumption DEF Writing
  <2>3. p.write_remaining # None /\ ~SendFails(c, p)
    BY <2>2 DEF try_send_response
  <2>4. p \in Stream /\ limit[c] \in Nat
    BY ParseType DEF TypeOK
  <2> DEFINE n == Accepted(c, p)
  <2>5. /\ t.sent = p.sent + n
        /\ t.write_remaining = IF n = p.write_remaining THEN None ELSE p.write_remaining - n
    BY <2>3, <2>4 DEF try_send_response, Stream
  <2>6. n = limit[c] - p.sent
    BY <2>2, <2>5 DEF Accepted, Lesser
  <2> HIDE DEF p, n, t
  <2>7. t.sent = limit[c]
    BY <2>4, <2>5, <2>6 DEF Stream
  <2>8. QED
    BY <2>7 DEF Used, ReadPass, t, p
<1>4. QED
  BY <1>2, <1>3

\* When a RecvStreamReadable event has been handled and the header is complete.
LEMMA ReadRequestUses ==
  ASSUME TypeOK, NEW c \in Conns, conn[c] = "open", ConnInv(c),
         NEW s \in Stream, InProgress(c, s, read[c]), arrived[c] = HeaderLen
  PROVE  Used(c, read_request(c, s))
<1> DEFINE a == [s EXCEPT !.read_buf = @ \o Unread(c)]
           once == ReadPass(c, a)
<1>1. a \in Stream /\ (Reading(c, a, HeaderLen) \/ Writing(c, a))
  BY AfterReceive
<1>2. read_request(c, s) = once \/ read_request(c, s) = ReadPass(c, once)
  BY DEF read_request
<1> HIDE DEF a
<1>3. once \in Stream /\ Writing(c, once) /\ Used(c, once)
  BY <1>1, ReadPassWhole, ReadPassUses
<1> HIDE DEF once
<1>4. Used(c, ReadPass(c, once))
  BY <1>3, ReadPassUses
<1>5. QED
  BY <1>2, <1>3, <1>4

-----------------------------------------------------------------------------
(***************************************************************************)
(* What holds whether exchanges overlap or not: types and flow control.    *)
(***************************************************************************)
FlowInv == \A c \in Conns : sent[c] <= limit[c] /\ limit[c] <= got[c] + Window

\* A handler of connection c has left its stream alone, or in a state that has grown.
LEMMA HandlerWrites ==
  ASSUME TypeOK, FlowInv, NEW c \in Conns, Handler(c)
  PROVE  \/ UNCHANGED sendVars /\ stream_states' \in [StreamIds -> StreamState \cup {None}]
         \/ \E t \in Stream :
              StreamBecomes(c, t) /\ t.sent <= limit[c] /\ Grows(StreamOf(c), t)
<1> DEFINE s == StreamOf(c)
<1>1. CASE HandleNewStream(c)
  <2>1. NewStreamState \in StreamState
    BY DEF NewStreamState, StreamState
  <2>2. QED
    BY <1>1, <2>1 DEF HandleNewStream, TypeOK
<1>2. CASE UNCHANGED <<stream_states, sendVars>>
  BY <1>2 DEF TypeOK
<1>3. CASE ~HandleNewStream(c) /\ ~UNCHANGED <<stream_states, sendVars>>
  <2>1. PICK t : /\ StreamBecomes(c, t)
                 /\ t = read_request(c, s) \/ t = try_send_response(c, s)
                 /\ Entry # None
    BY <1>3 DEF Handler, HandleReadable, HandleWritable, HandleOther, Entry, sendVars
  <2>2. s \in Stream /\ s.sent = sent[c] /\ s.sent <= limit[c]
    BY <2>1 DEF TypeOK, FlowInv, Entry, StreamOf, Stream, StreamState, StreamIds
  <2> HIDE DEF s
  <2>3. t \in Stream /\ t.sent <= limit[c] /\ Grows(s, t)
    BY <2>1, <2>2, ReadRequestGrows, TrySendGrows, TrySendType
  <2>4. QED
    BY <2>1, <2>3 DEF s
<1>4. QED
  BY <1>1, <1>2, <1>3

\* What a handler of connection c may do: write more on its own stream, until
\* that has ended, and take its event.
LEMMA HandlerEffect ==
  ASSUME TypeOK, FlowInv, NEW c \in Conns, Handler(c)
  PROVE  /\ UNCHANGED <<pc, conn, opened, arrived, limit, clientVars>>
         /\ \A d \in Conns \ {c} : /\ sent'[d] = sent[d]
                                  /\ finSent'[d] = finSent[d]
                                  /\ read'[d] = read[d]
                                  /\ events'[d] = events[d]
         /\ sent[c] <= sent'[c] /\ sent'[c] <= limit[c]
         /\ finSent[c] => finSent'[c] /\ sent'[c] = sent[c]
         /\ stream_states' \in [StreamIds -> StreamState \cup {None}]
         /\ sent' \in [Conns -> Nat]
         /\ finSent' \in [Conns -> BOOLEAN]
<1> USE DEF NextEvent
<1>1. /\ UNCHANGED <<pc, conn, opened, arrived, limit, clientVars>>
      /\ \A d \in Conns \ {c} : events'[d] = events[d]
  BY DEF Handler, HandleNewStream, HandleReadable, HandleWritable, HandleOther, TypeOK
<1>2. \A d \in Conns \ {c} : read'[d] = read[d]
  BY DEF Handler, HandleNewStream, HandleReadable, HandleWritable, HandleOther, TypeOK
<1>3. sent[c] \in Nat /\ sent[c] <= limit[c]
  BY DEF TypeOK, FlowInv
<1>4. CASE UNCHANGED sendVars /\ stream_states' \in [StreamIds -> StreamState \cup {None}]
  BY <1>1, <1>2, <1>3, <1>4 DEF sendVars, TypeOK
<1>5. ASSUME NEW t \in Stream, StreamBecomes(c, t), t.sent <= limit[c], Grows(StreamOf(c), t)
      PROVE  /\ \A d \in Conns \ {c} : sent'[d] = sent[d] /\ finSent'[d] = finSent[d]
             /\ sent[c] <= sent'[c] /\ sent'[c] <= limit[c]
             /\ finSent[c] => finSent'[c] /\ sent'[c] = sent[c]
             /\ stream_states' \in [StreamIds -> StreamState \cup {None}]
             /\ sent' \in [Conns -> Nat]
             /\ finSent' \in [Conns -> BOOLEAN]
  BY <1>5, AfterHandler DEF Grows, StreamOf
<1>6. QED
  BY <1>1, <1>2, <1>4, <1>5, HandlerWrites

LEMMA TypeStep ==
  ASSUME TypeOK, FlowInv, [Next]_vars
  PROVE  TypeOK' /\ FlowInv'
<1> USE DEF serverVars, recvVars, sendVars, clientVars
<1>1. \A c \in Conns : limit[c] \in Nat /\ got[c] \in Nat /\ Window \in Nat
  BY WindowAssumption DEF TypeOK
<1>2. ASSUME NEW c \in Conns, Handler(c) PROVE TypeOK' /\ FlowInv'
  <2>1. /\ UNCHANGED <<pc, conn, opened, arrived, limit, clientVars>>
        /\ \A d \in Conns \ {c} : sent'[d] = sent[d]
        /\ sent'[c] <= limit[c]
        /\ stream_states' \in [StreamIds -> StreamState \cup {None}]
        /\ sent' \in [Conns -> Nat]
        /\ finSent' \in [Conns -> BOOLEAN]
    BY <1>2, HandlerEffect
  <2>2. events' \in [Conns -> SUBSET Event]
    BY <1>2 DEF Handler, HandleNewStream, HandleReadable, HandleWritable, HandleOther,
                NextEvent, TypeOK
  <2>3. /\ read' \in [Conns -> 0 .. HeaderLen]
        /\ reqFin' \in [Conns -> {"absent", "arrived", "read"}]
    BY <1>2 DEF Handler, HandleNewStream, HandleReadable, HandleWritable, HandleOther, TypeOK
  <2>4. TypeOK'
    BY <2>1, <2>2, <2>3 DEF TypeOK
  <2>5. FlowInv'
    BY <2>1 DEF FlowInv
  <2>6. QED
    BY <2>4, <2>5
<1>3. ASSUME NEW c \in Conns, Connect(c) PROVE TypeOK' /\ FlowInv'
  <2>1. PICK n \in Sizes : size' = [size EXCEPT ![c] = n]
    BY <1>3 DEF Connect
  <2>2. n \in 0 .. Base * Base - 1
    BY SizesAssumption
  <2>3. QED
    BY <1>3, <2>1, <2>2 DEF Connect, TypeOK, FlowInv, Event
<1>4. ASSUME NEW c \in Conns, ReceiveDatagram(c) PROVE TypeOK' /\ FlowInv'
  <2>1. PICK frame, fin, grant, close \in BOOLEAN, k \in arrived[c] .. HeaderLen :
          Datagram(c, frame, k, fin, grant, close)
    BY <1>4 DEF ReceiveDatagram
  <2>2. k \in 0 .. HeaderLen
    BY <2>1 DEF TypeOK, HeaderLen
  <2>3. events' \in [Conns -> SUBSET Event]
    <3>1. events'[c] \subseteq Event
      BY <2>1 DEF Datagram, When, Event, TypeOK
    <3>2. QED
      BY <2>1, <3>1 DEF Datagram, TypeOK
  <2>4. limit' = [limit EXCEPT ![c] = IF grant THEN got[c] + Window ELSE @]
    BY <2>1 DEF Datagram
  <2>5. TypeOK'
    BY <1>1, <2>1, <2>2, <2>3, <2>4 DEF Datagram, TypeOK
  <2>6. FlowInv'
    <3>1. UNCHANGED <<sent, got>>
      BY <2>1 DEF Datagram
    <3>2. \A d \in Conns : limit[d] <= limit'[d] /\ limit'[d] <= got[d] + Window
      BY <1>1, <2>4 DEF FlowInv, TypeOK
    <3>3. \A d \in Conns : sent[d] \in Nat /\ limit'[d] \in Nat
      BY <2>5, <3>1 DEF TypeOK
    <3>4. QED
      BY <1>1, <3>1, <3>2, <3>3 DEF FlowInv
  <2>7. QED
    BY <2>5, <2>6
<1>5. ASSUME NEW c \in Conns, ClientReceives(c) PROVE TypeOK' /\ FlowInv'
  <2>1. PICK n \in got[c] + 1 .. wired[c] : got' = [got EXCEPT ![c] = n]
    BY <1>5 DEF ClientReceives
  <2>2. n \in Nat /\ got[c] < n
    BY <2>1 DEF TypeOK
  <2>3. TypeOK'
    BY <1>5, <2>1, <2>2 DEF ClientReceives, TypeOK
  <2>4. \A d \in Conns : got[d] <= got'[d] /\ got'[d] \in Nat
    BY <2>1, <2>2 DEF TypeOK
  <2>5. \A d \in Conns : limit[d] <= got'[d] + Window
    BY <1>1, <2>4 DEF FlowInv
  <2>6. QED
    BY <1>5, <2>3, <2>5 DEF ClientReceives, FlowInv
<1>6. ASSUME NEW c \in Conns, SendDatagrams(c) \/ IdleTimeout(c)
      PROVE  TypeOK' /\ FlowInv'
  BY <1>6 DEF SendDatagrams, IdleTimeout, TypeOK, FlowInv, Event
<1>7. CASE EventsDrained \/ OutputDone \/ Timer \/ ListenFails \/ UNCHANGED vars
  BY <1>7 DEF EventsDrained, OutputDone, Timer, ListenFails, vars, TypeOK, FlowInv
<1>8. QED
  BY <1>2, <1>3, <1>4, <1>5, <1>6, <1>7 DEF Next, Server, Environment

LEMMA Flow == ASSUME IInv PROVE TypeOK /\ FlowInv
BY DEF IInv, ConnInv, FlowInv

-----------------------------------------------------------------------------
(***************************************************************************)
(* What is waiting, and what is on the wire.  Two invariants on top of     *)
(* IInv: a handler leaves credit unused only while the event that will use *)
(* it is pending; and the wire is behind the send side, and ended with it. *)
(***************************************************************************)
CreditInv ==
  \A c \in Conns :
    conn[c] = "open" /\ read[c] = HeaderLen /\ ~finSent[c]
      => sent[c] = limit[c] \/ "SendStreamWritable" \in events[c]

WireInv ==
  \A c \in Conns :
    /\ got[c] <= wired[c]
    /\ wired[c] <= sent[c]
    /\ wiredFin[c] => finSent[c] /\ wired[c] = sent[c]

LEMMA WireInit == Init => CreditInv /\ WireInv
BY DEF Init, CreditInv, WireInv, HeaderLen

\* The steps of the server's output and of the environment, which leave the
\* send side alone.
LEMMA OtherEffect ==
  ASSUME [Next]_vars, \A c \in Conns : ~Handler(c)
  PROVE  UNCHANGED <<sent, finSent, read>>
BY DEF Next, Server, Timer, Environment, EventsDrained, OutputDone, SendDatagrams,
       Connect, ReceiveDatagram, Datagram, IdleTimeout, ClientReceives, ListenFails,
       vars, sendVars, recvVars, serverVars, clientVars

LEMMA WireStep ==
  ASSUME TypeOK, FlowInv, WireInv, [Next]_vars
  PROVE  WireInv'
<1>1. TypeOK /\ TypeOK'
  BY TypeStep
<1>2. ASSUME NEW c \in Conns, Handler(c) PROVE WireInv'
  <2>1. UNCHANGED <<wired, wiredFin, got>>
    BY <1>2, HandlerEffect DEF clientVars
  <2>2. ASSUME NEW d \in Conns
        PROVE  sent[d] <= sent'[d] /\ (finSent[d] => finSent'[d] /\ sent'[d] = sent[d])
    <3>1. CASE d = c
      BY <1>2, <3>1, HandlerEffect
    <3>2. CASE d # c
      BY <1>1, <1>2, <3>2, HandlerEffect DEF TypeOK
    <3>3. QED
      BY <3>1, <3>2
  <2>3. \A d \in Conns : sent'[d] \in Nat
    BY <1>1 DEF TypeOK
  <2>4. ASSUME NEW d \in Conns PROVE wired[d] <= sent'[d]
    BY <1>1, <2>2, <2>3 DEF WireInv, TypeOK
  <2>5. QED
    BY <2>1, <2>2, <2>4 DEF WireInv
<1>3. CASE \A c \in Conns : ~Handler(c)
  <2>1. UNCHANGED <<sent, finSent>>
    BY <1>3, OtherEffect
  <2>2. ASSUME NEW c \in Conns, SendDatagrams(c) PROVE WireInv'
    <3>1. UNCHANGED got /\ wired' = [wired EXCEPT ![c] = sent[c]]
                        /\ wiredFin' = [wiredFin EXCEPT ![c] = finSent[c]]
      BY <2>2 DEF SendDatagrams
    <3>2. /\ wired'[c] = sent[c] /\ wiredFin'[c] = finSent[c]
          /\ \A d \in Conns \ {c} : wired'[d] = wired[d] /\ wiredFin'[d] = wiredFin[d]
      BY <1>1, <3>1 DEF TypeOK
    <3>3. \A d \in Conns : got[d] \in Nat /\ wired[d] \in Nat /\ sent[d] \in Nat
      BY <1>1 DEF TypeOK
    <3>4. QED
      BY <2>1, <3>1, <3>2, <3>3 DEF WireInv
  <2>3. ASSUME NEW c \in Conns, ClientReceives(c) PROVE WireInv'
    <3>1. UNCHANGED <<wired, wiredFin>>
      BY <2>3 DEF ClientReceives
    <3>2. PICK n \in got[c] + 1 .. wired[c] : got' = [got EXCEPT ![c] = n]
      BY <2>3 DEF ClientReceives
    <3>3. \A d \in Conns : got'[d] <= wired[d]
      BY <1>1, <3>2 DEF WireInv, TypeOK
    <3>4. QED
      BY <2>1, <3>1, <3>3 DEF WireInv
  <2>4. CASE \A c \in Conns : ~SendDatagrams(c) /\ ~ClientReceives(c)
    <3>1. UNCHANGED <<wired, wiredFin, got>>
      BY <1>3, <2>4
      DEF Next, Server, Timer, Environment, EventsDrained, OutputDone,
          Connect, ReceiveDatagram, Datagram, IdleTimeout, ListenFails, vars, clientVars
    <3>2. QED
      BY <2>1, <3>1 DEF WireInv
  <2>5. QED
    BY <2>2, <2>3, <2>4
<1>4. QED
  BY <1>2, <1>3

\* The event that resumes a response is consumed only by writing all there is
\* credit for, and so is the one that completes the header.
LEMMA CreditHandler ==
  ASSUME IInv, CreditInv, NEW c \in Conns, Handler(c)
  PROVE  CreditInv'
<1> USE DEF NextEvent, sendVars
<1>1. TypeOK /\ ConnInv(c)
  BY DEF IInv
<1>2. /\ UNCHANGED <<conn, arrived, limit>>
      /\ \A d \in Conns \ {c} : /\ sent'[d] = sent[d]
                               /\ finSent'[d] = finSent[d]
                               /\ read'[d] = read[d]
                               /\ events'[d] = events[d]
  BY HandlerEffect, Flow
<1>3. SUFFICES ASSUME conn[c] = "open", read'[c] = HeaderLen, ~finSent'[c]
               PROVE  sent'[c] = limit[c] \/ "SendStreamWritable" \in events'[c]
  BY <1>2 DEF CreditInv
<1>4. ~finSent[c]
  BY <1>3, HandlerEffect, Flow
<1>5. CASE HandleNewStream(c) \/ HandleOther(c)
  <2>1. UNCHANGED <<sent, read>>
    BY <1>5 DEF HandleNewStream, HandleOther
  <2>2. "SendStreamWritable" \in events[c] => "SendStreamWritable" \in events'[c]
    BY <1>1, <1>5 DEF HandleNewStream, HandleOther, TypeOK
  <2>3. QED
    BY <1>3, <1>4, <2>1, <2>2 DEF CreditInv
<1>6. CASE HandleWritable(c)
  <2> DEFINE s == StreamOf(c)
             t == try_send_response(c, s)
  <2>1. read[c] = HeaderLen /\ Live(c)
    BY <1>3, <1>4, <1>6 DEF HandleWritable, Live, Over
  <2>2. Entry # None /\ s \in Stream /\ Writing(c, s)
    <3>1. "SendStreamWritable" \in StreamEvent \ {"NewStream"} /\ NextEvent(c, "SendStreamWritable")
      BY <1>6 DEF HandleWritable, StreamEvent
    <3>2. Entry # None /\ s \in Stream /\ InProgress(c, s, read[c])
      BY <2>1, <3>1, EventContext
    <3>3. QED
      BY <2>1, <3>2 DEF InProgress, HeaderLen
  <2>3. StreamBecomes(c, t)
    BY <1>6, <2>2 DEF HandleWritable, Entry
  <2>4. t \in Stream /\ Used(c, t)
    BY <1>1, <1>3, <2>2, TrySendType, TrySendUses DEF Writing
  <2> HIDE DEF t
  <2>5. sent'[c] = t.sent /\ finSent'[c] = t.fin
    BY <1>1, <2>3, <2>4, AfterHandler
  <2>6. QED
    BY <1>3, <2>4, <2>5 DEF Used
<1>7. CASE HandleReadable(c)
  <2> DEFINE s == StreamOf(c)
             t == read_request(c, s)
  <2>1. "RecvStreamReadable" \in StreamEvent \ {"NewStream"} /\ NextEvent(c, "RecvStreamReadable")
    BY <1>7 DEF HandleReadable, StreamEvent
  <2>2. "SendStreamWritable" \in events[c] => "SendStreamWritable" \in events'[c]
    BY <1>1, <2>1 DEF TypeOK
  <2>3. CASE UNCHANGED <<read, sendVars>>
    BY <1>3, <1>4, <2>2, <2>3 DEF CreditInv
  <2>4. CASE ~UNCHANGED <<read, sendVars>>
    <3>1. /\ Entry # None
          /\ StreamBecomes(c, t)
          /\ read' = [read EXCEPT ![c] = arrived[c]]
      BY <1>7, <2>4 DEF HandleReadable, Entry
    <3>2. arrived[c] = HeaderLen
      BY <1>1, <1>3, <3>1 DEF TypeOK
    <3>3. Live(c)
      BY <1>3, <1>4 DEF Live, Over
    <3>4. s \in Stream /\ InProgress(c, s, read[c])
      BY <2>1, <3>1, <3>3, EventContext
    <3> HIDE DEF s
    <3>5. t \in Stream /\ Used(c, t)
      BY <1>1, <1>3, <3>2, <3>4, ReadRequestProgress, ReadRequestUses
    <3> HIDE DEF t
    <3>6. sent'[c] = t.sent /\ finSent'[c] = t.fin
      BY <1>1, <3>1, <3>5, AfterHandler
    <3>7. QED
      BY <1>3, <3>5, <3>6 DEF Used
  <2>5. QED
    BY <2>3, <2>4
<1>8. QED
  BY <1>5, <1>6, <1>7 DEF Handler

LEMMA CreditStep ==
  ASSUME IInv, CreditInv, [Next]_vars
  PROVE  CreditInv'
<1>1. TypeOK
  BY DEF IInv
<1>2. ASSUME NEW c \in Conns, Handler(c) PROVE CreditInv'
  BY <1>2, CreditHandler
<1>3. CASE \A c \in Conns : ~Handler(c)
  <2>1. UNCHANGED <<sent, finSent, read>>
    BY <1>3, OtherEffect
  <2>2. ASSUME NEW c \in Conns, Connect(c) PROVE CreditInv'
    <3>1. read[c] = 0
      BY <2>2 DEF Connect, IInv, ConnInv
    <3>2. \A d \in Conns \ {c} : conn'[d] = conn[d] /\ events'[d] = events[d]
      BY <1>1, <2>2 DEF Connect, TypeOK
    <3>3. UNCHANGED limit
      BY <2>2 DEF Connect
    <3>4. QED
      BY <2>1, <3>1, <3>2, <3>3 DEF CreditInv, HeaderLen
  <2>3. ASSUME NEW c \in Conns, IdleTimeout(c) PROVE CreditInv'
    <3>1. conn'[c] = "closed" /\ \A d \in Conns \ {c} : conn'[d] = conn[d] /\ events'[d] = events[d]
      BY <1>1, <2>3 DEF IdleTimeout, TypeOK
    <3>2. UNCHANGED limit
      BY <2>3 DEF IdleTimeout
    <3>3. QED
      BY <2>1, <3>1, <3>2 DEF CreditInv
  <2>4. ASSUME NEW c \in Conns, ReceiveDatagram(c) PROVE CreditInv'
    <3>1. PICK frame, fin, grant, close \in BOOLEAN, k \in arrived[c] .. HeaderLen :
            Datagram(c, frame, k, fin, grant, close)
      BY <2>4 DEF ReceiveDatagram
    <3>2. /\ \A d \in Conns : events[d] = {}
          /\ conn[c] = "open"
          /\ \A d \in Conns \ {c} : /\ conn'[d] = conn[d]
                                   /\ events'[d] = events[d]
                                   /\ limit'[d] = limit[d]
      BY <1>1, <3>1 DEF Datagram, TypeOK, IInv, EventsInv
    <3>3. limit'[c] = IF grant THEN got[c] + Window ELSE limit[c]
      BY <1>1, <3>1 DEF Datagram, TypeOK
    <3>4. limit[c] <= limit'[c] /\ limit[c] \in Nat /\ limit'[c] \in Nat
      BY <1>1, <3>3, WindowAssumption DEF IInv, ConnInv, TypeOK
    <3>5. sent[c] = limit[c] /\ limit'[c] > limit[c] /\ ~finSent[c]
            => "SendStreamWritable" \in events'[c]
      BY <1>1, <3>1 DEF Datagram, When, TypeOK
    <3>6. QED
      BY <2>1, <3>2, <3>4, <3>5 DEF CreditInv
  <2>5. CASE \A c \in Conns : ~Connect(c) /\ ~IdleTimeout(c) /\ ~ReceiveDatagram(c)
    <3>1. UNCHANGED <<conn, events, limit>>
      BY <1>3, <2>5
      DEF Next, Server, Timer, Environment, EventsDrained, OutputDone,
          SendDatagrams, ClientReceives, ListenFails, vars
    <3>2. QED
      BY <2>1, <3>1 DEF CreditInv
  <2>6. QED
    BY <2>2, <2>3, <2>4, <2>5
<1>4. QED
  BY <1>2, <1>3

LEMMA WaitInvariance == ASSUME ~Overlap PROVE Spec => [](IInv /\ CreditInv /\ WireInv)
<1>1. Init => IInv /\ CreditInv /\ WireInv
  BY InitInv, WireInit
<1>2. IInv /\ CreditInv /\ WireInv /\ [Next]_vars => (IInv /\ CreditInv /\ WireInv)'
  BY StepInv, CreditStep, WireStep, Flow
<1>3. QED
  BY <1>1, <1>2, PTL DEF Spec

-----------------------------------------------------------------------------
(***************************************************************************)
(* The refinement of PerfExchange.                                         *)
(***************************************************************************)

\* No response exceeds its request, and one that has ended is complete.
SizeInv == \A c \in Conns : sent[c] <= size[c] /\ (finSent[c] => sent[c] = size[c])

SeenInv == TypeOK /\ FlowInv /\ SizeInv /\ WireInv

\* A client never has more than it asked for, and all of it when the wire ended.
LEMMA WithinSize ==
  ASSUME TypeOK, SizeInv, WireInv, NEW c \in Conns
  PROVE  /\ got[c] \in Nat /\ wired[c] \in Nat /\ sent[c] \in Nat /\ size[c] \in Nat
         /\ got[c] <= wired[c] /\ wired[c] <= sent[c] /\ sent[c] <= size[c]
         /\ wiredFin[c] => finSent[c] /\ wired[c] = sent[c]
         /\ finSent[c] => sent[c] = size[c]
<1>1. size[c] \in Nat
  BY BaseAssumption DEF TypeOK
<1>2. QED
  BY <1>1 DEF TypeOK, SizeInv, WireInv

LEMMA DeliverSeen ==
  ASSUME NEW c \in Conns, NEW n \in got[c] .. size[c],
         conn[c] = "open", UNCHANGED <<conn, size>>,
         got' = [got EXCEPT ![c] = n],
         ~ClientDone(c),
         \A d \in Conns \ {c} : ClientDone(d)' = ClientDone(d),
         ClientDone(c)' => n = size[c]
  PROVE  Exchange!Deliver(c)
<1> DEFINE p == [d \in Conns |-> IF conn[d] = "closed" THEN "lost" ELSE conn[d]]
           f == [d \in Conns |-> ClientDone(d)]
<1>1. p[c] = "open" /\ p' = p
  OBVIOUS
<1>2. ~f[c]
  BY Zenon
<1>3. f' = f \/ (n = size[c] /\ f' = [f EXCEPT ![c] = TRUE])
  <2>1. CASE ClientDone(c)'
    <3>1. ClientDone(c)' = TRUE
      BY <2>1 DEF ClientDone
    <3>2. f' = [f EXCEPT ![c] = TRUE]
      BY <3>1, Zenon
    <3>3. QED
      BY <2>1, <3>2
  <2>2. CASE ~ClientDone(c)'
    <3>1. ClientDone(c)' = ClientDone(c)
      BY <2>2 DEF ClientDone
    <3>2. \A d \in Conns : ClientDone(d)' = ClientDone(d)
      BY <3>1
    <3>3. QED
      BY <3>2, Zenon
  <2>3. QED
    BY <2>1, <2>2
<1>4. /\ p[c] = "open" /\ ~f[c]
      /\ \E m \in got[c] .. size[c] :
           /\ got' = [got EXCEPT ![c] = m]
           /\ UNCHANGED f \/ (m = size[c] /\ f' = [f EXCEPT ![c] = TRUE])
      /\ UNCHANGED <<p, size>>
  <2> HIDE DEF p, f
  <2>1. QED
    BY <1>1, <1>2, <1>3
<1>5. QED
  BY <1>4, Zenon DEF Exchange!Deliver

LEMMA SendDatagramsSeen ==
  ASSUME TypeOK, SizeInv, WireInv, NEW c \in Conns, SendDatagrams(c)
  PROVE  Exchange!Deliver(c)
<1>1. /\ conn[c] = "open"
      /\ wired[c] # sent[c] \/ wiredFin[c] # finSent[c]
      /\ UNCHANGED <<conn, size, got, sent, finSent>>
  BY DEF SendDatagrams, HasOutput, sendVars
<1>2. /\ wired'[c] = sent[c] /\ wiredFin'[c] = finSent[c]
      /\ \A d \in Conns \ {c} : wired'[d] = wired[d] /\ wiredFin'[d] = wiredFin[d]
      /\ wiredFin[c] \in BOOLEAN /\ finSent[c] \in BOOLEAN
  BY DEF SendDatagrams, TypeOK
<1>3. ~ClientDone(c)
  BY <1>1, <1>2, WithinSize DEF ClientDone
<1>4. \A d \in Conns \ {c} : ClientDone(d)' = ClientDone(d)
  BY <1>1, <1>2 DEF ClientDone
<1>5. ClientDone(c)' => got[c] = size[c]
  BY <1>1, <1>2, WithinSize DEF ClientDone
<1>6. got[c] \in got[c] .. size[c] /\ got' = [got EXCEPT ![c] = got[c]]
  <2>1. got[c] \in got[c] .. size[c]
    BY WithinSize
  <2>2. got' = [got EXCEPT ![c] = got[c]]
    BY <1>1 DEF TypeOK
  <2>3. QED
    BY <2>1, <2>2
<1>7. QED
  BY <1>1, <1>3, <1>4, <1>5, <1>6, DeliverSeen

LEMMA ClientReceivesSeen ==
  ASSUME TypeOK, SizeInv, WireInv, NEW c \in Conns, ClientReceives(c)
  PROVE  Exchange!Deliver(c)
<1>1. conn[c] = "open" /\ UNCHANGED <<conn, size, wired, wiredFin>>
  BY DEF ClientReceives
<1>2. PICK n \in got[c] + 1 .. wired[c] : got' = [got EXCEPT ![c] = n]
  BY DEF ClientReceives
<1>3. n \in got[c] .. size[c] /\ got[c] # wired[c]
  BY WithinSize
<1>4. got'[c] = n /\ \A d \in Conns \ {c} : got'[d] = got[d]
  BY <1>2 DEF TypeOK
<1>5. ~ClientDone(c)
  BY <1>3 DEF ClientDone
<1>6. \A d \in Conns \ {c} : ClientDone(d)' = ClientDone(d)
  BY <1>1, <1>4 DEF ClientDone
<1>7. ClientDone(c)' => n = size[c]
  BY <1>1, <1>4, WithinSize DEF ClientDone
<1>8. QED
  BY <1>1, <1>2, <1>3, <1>5, <1>6, <1>7, DeliverSeen

LEMMA ConnectSeen ==
  ASSUME TypeOK, NEW c \in Conns, Connect(c)
  PROVE  Exchange!Request(c)
<1> DEFINE p == [d \in Conns |-> IF conn[d] = "closed" THEN "lost" ELSE conn[d]]
           f == [d \in Conns |-> ClientDone(d)]
<1>1. /\ conn[c] = "idle" /\ conn' = [conn EXCEPT ![c] = "open"]
      /\ UNCHANGED <<got, wired, wiredFin>>
      /\ \E n \in Sizes : size' = [size EXCEPT ![c] = n]
  BY DEF Connect
<1>2. p[c] = "idle" /\ p' = [p EXCEPT ![c] = "open"]
  BY <1>1 DEF TypeOK
<1>3. f' = f
  BY <1>1 DEF ClientDone
<1>4. /\ p[c] = "idle" /\ p' = [p EXCEPT ![c] = "open"]
      /\ \E n \in Sizes : size' = [size EXCEPT ![c] = n]
      /\ UNCHANGED <<got, f>>
  BY <1>1, <1>2, <1>3
<1>5. QED
  BY <1>4, Zenon DEF Exchange!Request

LEMMA CloseSeen ==
  ASSUME TypeOK, SizeInv, WireInv, NEW c \in Conns, conn[c] = "open",
         conn' = [conn EXCEPT ![c] = "closed"],
         UNCHANGED <<size, got, wired, wiredFin>>
  PROVE  Exchange!Lose(c)
<1> DEFINE p == [d \in Conns |-> IF conn[d] = "closed" THEN "lost" ELSE conn[d]]
           f == [d \in Conns |-> ClientDone(d)]
<1>1. p[c] = "open" /\ p' = [p EXCEPT ![c] = "lost"]
  BY DEF TypeOK
<1>2. f' = f
  BY DEF ClientDone
<1>3. got[c] \in got[c] .. size[c] /\ got' = [got EXCEPT ![c] = got[c]]
  <2>1. got[c] \in got[c] .. size[c]
    BY WithinSize
  <2>2. got' = [got EXCEPT ![c] = got[c]]
    BY DEF TypeOK
  <2>3. QED
    BY <2>1, <2>2
<1>4. /\ p[c] = "open" /\ p' = [p EXCEPT ![c] = "lost"]
      /\ \E n \in got[c] .. size[c] : got' = [got EXCEPT ![c] = n]
      /\ UNCHANGED <<size, f>>
  BY <1>1, <1>2, <1>3
<1>5. QED
  BY <1>4, Zenon DEF Exchange!Lose

\* What leaves the connections, the wire and the clients alone is not seen.
LEMMA Unseen ==
  ASSUME UNCHANGED <<conn, size, got, wired, wiredFin>>
  PROVE  UNCHANGED Exchange!vars
<1>1. \A d \in Conns : ClientDone(d)' = ClientDone(d)
  BY DEF ClientDone
<1>2. QED
  BY <1>1, Zenon DEF Exchange!vars

LEMMA StepSeen ==
  ASSUME SeenInv, [Next]_vars
  PROVE  [Exchange!Next]_Exchange!vars
<1>1. ASSUME NEW c \in Conns, Exchange!Request(c) \/ Exchange!Deliver(c) \/ Exchange!Lose(c)
      PROVE  Exchange!Next
  BY <1>1 DEF Exchange!Next
<1>2. ASSUME NEW c \in Conns, Handler(c) PROVE UNCHANGED Exchange!vars
  BY <1>2, HandlerEffect, Unseen DEF clientVars, SeenInv
<1>3. ASSUME NEW c \in Conns, Connect(c) \/ SendDatagrams(c) \/ ClientReceives(c)
      PROVE  Exchange!Next
  BY <1>1, <1>3, ConnectSeen, SendDatagramsSeen, ClientReceivesSeen DEF SeenInv
<1>4. ASSUME NEW c \in Conns, IdleTimeout(c) PROVE Exchange!Next
  <2>1. Exchange!Lose(c)
    BY <1>4, CloseSeen DEF IdleTimeout, clientVars, SeenInv
  <2>2. QED
    BY <1>1, <2>1
<1>5. ASSUME NEW c \in Conns, ReceiveDatagram(c) PROVE [Exchange!Next]_Exchange!vars
  <2>1. PICK frame, fin, grant, close \in BOOLEAN, k \in arrived[c] .. HeaderLen :
          Datagram(c, frame, k, fin, grant, close)
    BY <1>5 DEF ReceiveDatagram
  <2>2. UNCHANGED <<size, got, wired, wiredFin>> /\ conn[c] = "open"
    BY <2>1 DEF Datagram, clientVars
  <2>3. CASE close
    <3>1. conn' = [conn EXCEPT ![c] = "closed"]
      BY <2>1, <2>3 DEF Datagram
    <3>2. QED
      BY <1>1, <2>2, <3>1, CloseSeen DEF SeenInv
  <2>4. CASE ~close
    <3>1. conn' = conn
      BY <2>1, <2>4 DEF Datagram, TypeOK, SeenInv
    <3>2. QED
      BY <2>2, <3>1, Unseen
  <2>5. QED
    BY <2>3, <2>4
<1>6. CASE EventsDrained \/ OutputDone \/ Timer \/ ListenFails \/ UNCHANGED vars
  <2>1. UNCHANGED <<conn, size, got, wired, wiredFin>>
    BY <1>6 DEF EventsDrained, OutputDone, Timer, ListenFails, vars, clientVars
  <2>2. QED
    BY <2>1, Unseen
<1>7. QED
  BY <1>2, <1>3, <1>4, <1>5, <1>6 DEF Next, Server, Environment

LEMMA InitSeen == Init => Exchange!Init
<1> SUFFICES ASSUME Init PROVE Exchange!Init
  OBVIOUS
<1>1. ASSUME NEW c \in Conns PROVE ClientDone(c) = FALSE
  BY DEF Init, ClientDone
<1>2. [c \in Conns |-> ClientDone(c)] = [c \in Conns |-> FALSE]
  BY <1>1, Zenon
<1>3. [c \in Conns |-> IF conn[c] = "closed" THEN "lost" ELSE conn[c]]
        = [c \in Conns |-> "idle"]
  BY DEF Init
<1>4. size = [c \in Conns |-> 0] /\ got = [c \in Conns |-> 0]
  BY DEF Init
<1>5. QED
  BY <1>2, <1>3, <1>4, Zenon DEF Exchange!Init

-----------------------------------------------------------------------------
(***************************************************************************)
(* Exchanges that overlap, of clients whose headers arrive whole and whose *)
(* blobs fit the window: a response is complete with the handler that      *)
(* reads the request, so the shared entry is never needed any more when    *)
(* another connection's NewStream replaces it.                             *)
(***************************************************************************)

\* A request is not read yet, or it is answered.
AnsweredInv(c) ==
  \/ /\ read[c] = 0 /\ sent[c] = 0 /\ finSent[c] = FALSE
     /\ opened[c] /\ conn[c] = "open" => "RecvStreamReadable" \in events[c]
  \/ /\ read[c] = HeaderLen /\ sent[c] = size[c] /\ finSent[c] = TRUE
     /\ "NewStream" \notin events[c]

WholeConnInv(c) ==
  /\ size[c] <= Window /\ Window <= limit[c]
  /\ opened[c] => conn[c] # "idle" /\ arrived[c] = HeaderLen
  /\ ~opened[c] => read[c] = 0 /\ arrived[c] = 0 /\ events[c] \cap StreamEvent = {}
  /\ reqFin[c] = "read" => read[c] = HeaderLen
  /\ AnsweredInv(c)

\* Events are pending for the connection of the last datagram only.
OneActiveInv ==
  /\ pc # "events" => \A c \in Conns : events[c] = {}
  /\ \A c, d \in Conns : events[c] # {} /\ events[d] # {} => c = d

\* The entry is idle, and fresh for a request that is about to be read.
IdleEntryInv ==
  /\ Entry # None => Entry.write_remaining = None
  /\ \A c \in Conns :
       read[c] = 0 /\ "RecvStreamReadable" \in events[c] /\ "NewStream" \notin events[c]
         => Entry # None /\ Entry.read_buf = <<>>

WholeInv ==
  /\ TypeOK /\ FlowInv
  /\ \A c \in Conns : WholeConnInv(c)
  /\ OneActiveInv /\ IdleEntryInv

LEMMA WholeInit ==
  ASSUME \A n \in Sizes : n <= Window
  PROVE  Init => WholeInv
<1> SUFFICES ASSUME Init PROVE WholeInv
  OBVIOUS
<1>1. TypeOK /\ FlowInv
  BY InitInv, Flow
<1>2. ASSUME NEW c \in Conns PROVE WholeConnInv(c)
  <2>1. /\ ~opened[c] /\ arrived[c] = 0 /\ read[c] = 0 /\ reqFin[c] = "absent"
        /\ sent[c] = 0 /\ finSent[c] = FALSE /\ size[c] = 0 /\ events[c] = {}
        /\ limit[c] = Window
    BY DEF Init
  <2>2. QED
    BY <2>1, WindowAssumption DEF WholeConnInv, AnsweredInv
<1>3. OneActiveInv /\ IdleEntryInv
  BY DEF Init, OneActiveInv, IdleEntryInv, Entry, StreamIds
<1>4. QED
  BY <1>1, <1>2, <1>3 DEF WholeInv

\* A pass of read_request answers a whole request at once.
LEMMA PassAnswers ==
  ASSUME TypeOK, NEW c \in Conns, conn[c] = "open", size[c] <= limit[c],
         NEW s \in Stream, Reading(c, s, HeaderLen)
  PROVE  LET t == ReadPass(c, s) IN
         t \in Stream /\ t.write_remaining = None /\ t.sent = size[c] /\ t.fin = TRUE
<1> DEFINE p == [s EXCEPT !.write_remaining = size[c]]
           t == [p EXCEPT !.write_remaining = None, !.sent = size[c], !.fin = TRUE]
<1>1. size[c] \in 0 .. Base * Base - 1 /\ size[c] \in Nat /\ limit[c] \in Nat
  BY BaseAssumption DEF TypeOK
<1>2. s.read_buf \in Seq(Digit) /\ Len(s.read_buf) = 2 /\ s.write_remaining = None
      /\ s.sent = 0 /\ s.fin = FALSE
  BY DEF Stream, Reading, HeaderLen
<1>3. FromBytes(s.read_buf) = size[c]
  BY <1>1, <1>2, HeaderRoundTrip DEF FromBytes, Reading, HeaderLen
<1>4. ParseRequest(s) = p
  BY <1>2, <1>3 DEF ParseRequest, HeaderLen
<1>5. p \in Stream /\ p.write_remaining = size[c] /\ p.sent = 0 /\ p.fin = FALSE
  BY <1>1, <1>2 DEF Stream
<1>6. size[c] # None
  BY <1>1, NoneAssumption
<1>7. t \in Stream /\ t.write_remaining = None /\ t.sent = size[c] /\ t.fin = TRUE
  BY <1>1, <1>5 DEF Stream
<1>8. try_send_response(c, p) = t
  <2> DEFINE n == Accepted(c, p)
  <2>1. n = size[c]
    BY <1>1, <1>5 DEF Accepted, Lesser
  <2>2. 0 + size[c] = size[c]
    BY <1>1
  <2>3. ~SendFails(c, p)
    BY <1>5 DEF SendFails
  <2>4. try_send_response(c, p) =
          [p EXCEPT !.write_remaining = IF n = p.write_remaining THEN None ELSE @ - n,
                    !.sent = @ + n, !.fin = (n = p.write_remaining)]
    BY <1>5, <1>6, <2>3 DEF try_send_response
  <2>5. (n = p.write_remaining) = TRUE
    BY <1>5, <2>1
  <2> HIDE DEF n, p
  <2>6. try_send_response(c, p) =
          [p EXCEPT !.write_remaining = None, !.sent = @ + n, !.fin = TRUE]
    BY <2>4, <2>5
  <2>7. QED
    BY <1>5, <2>1, <2>2, <2>6
<1>9. QED
  BY <1>4, <1>7, <1>8 DEF ReadPass

\* A pass over a stream that has ended leaves the entry idle, though read_buf may be
\* parsed once more.
LEMMA PassAfterEnd ==
  ASSUME NEW c \in Conns, NEW s \in Stream, s.write_remaining = None, s.fin = TRUE
  PROVE  ReadPass(c, s) = s
<1>1. CASE ParseRequest(s) = s
  BY <1>1 DEF ReadPass, try_send_response
<1>2. CASE ParseRequest(s) # s
  <2> DEFINE p == [s EXCEPT !.write_remaining = FromBytes(s.read_buf)]
  <2>1. ParseRequest(s) = p /\ Len(s.read_buf) >= HeaderLen
    BY <1>2 DEF ParseRequest
  <2>2. p \in Stream /\ p.fin = TRUE
    BY <2>1, ParseType DEF Stream
  <2>3. p.write_remaining # None
    <3>1. p.write_remaining \in Nat
      BY <2>1, HeaderNat DEF Stream
    <3>2. QED
      BY <3>1, NoneAssumption
  <2>4. try_send_response(c, p) = [p EXCEPT !.write_remaining = None]
    BY <2>2, <2>3 DEF try_send_response, SendFails
  <2>5. [p EXCEPT !.write_remaining = None] = s
    BY DEF Stream
  <2> HIDE DEF p
  <2>6. QED
    BY <2>1, <2>4, <2>5 DEF ReadPass
<1>3. QED
  BY <1>1, <1>2

LEMMA ReadRequestAnswers ==
  ASSUME TypeOK, NEW c \in Conns, conn[c] = "open", size[c] <= limit[c],
         arrived[c] = HeaderLen,
         NEW s \in Stream, s.write_remaining = None,
         \/ read[c] = 0 /\ s.read_buf = <<>> /\ s.sent = 0 /\ s.fin = FALSE
         \/ read[c] = HeaderLen /\ s.sent = size[c] /\ s.fin = TRUE
  PROVE  LET t == read_request(c, s) IN
         t \in Stream /\ t.write_remaining = None /\ t.sent = size[c] /\ t.fin = TRUE
<1> DEFINE a == [s EXCEPT !.read_buf = @ \o Unread(c)]
           once == ReadPass(c, a)
<1>1. a \in Stream /\ a.write_remaining = None /\ a.sent = s.sent /\ a.fin = s.fin
  <2>1. s.read_buf \o Unread(c) \in Seq(Digit)
    BY UnreadType, ConcatProperties DEF Stream
  <2>2. QED
    BY <2>1 DEF Stream
<1>2. a.read_buf = s.read_buf \o Unread(c)
  BY DEF Stream
<1>3. read_request(c, s) = once \/ read_request(c, s) = ReadPass(c, once)
  BY DEF read_request
<1> HIDE DEF a
<1>4. once \in Stream /\ once.write_remaining = None /\ once.sent = size[c] /\ once.fin = TRUE
  <2>1. CASE s.fin = TRUE
    <3>1. s.sent = size[c] /\ once = a
      BY <1>1, <2>1, PassAfterEnd
    <3>2. QED
      BY <1>1, <2>1, <3>1
  <2>2. CASE s.fin = FALSE
    <3>1. read[c] = 0 /\ s.read_buf = <<>> /\ s.sent = 0
      BY <2>2
    <3>2. /\ a.read_buf \in Seq(Digit) /\ Len(a.read_buf) = arrived[c]
          /\ \A i \in 1 .. arrived[c] : a.read_buf[i] = ToBytes(size[c])[i]
      <4>1. s.read_buf \in Seq(Digit) /\ Len(s.read_buf) = read[c] /\ read[c] <= arrived[c]
        BY <3>1 DEF HeaderLen
      <4>2. \A i \in 1 .. read[c] : s.read_buf[i] = ToBytes(size[c])[i]
        BY <3>1
      <4>3. /\ s.read_buf \o Unread(c) \in Seq(Digit)
            /\ Len(s.read_buf \o Unread(c)) = arrived[c]
            /\ \A i \in 1 .. arrived[c] :
                 (s.read_buf \o Unread(c))[i] = ToBytes(size[c])[i]
        BY <4>1, <4>2, AppendUnread
      <4>4. QED
        BY <1>2, <4>3
    <3>3. a.read_buf \in Seq(Nat)
      <4>1. Digit \subseteq Nat
        BY BaseAssumption DEF Digit
      <4>2. QED
        BY <3>2, <4>1, SeqMonotonic
    <3>4. Reading(c, a, HeaderLen)
      BY <1>1, <2>2, <3>1, <3>2, <3>3 DEF Reading
    <3>5. QED
      BY <1>1, <3>4, PassAnswers
  <2>3. QED
    BY <2>1, <2>2
<1> HIDE DEF once
<1>5. ReadPass(c, once) = once
  BY <1>4, PassAfterEnd
<1>6. QED
  BY <1>3, <1>4, <1>5

\* A handler of connection c, which takes event e, leaves the requests of the other
\* connections alone and its own answered or still pending.
LEMMA AnsweredStep ==
  ASSUME WholeInv, TypeOK', FlowInv',
         NEW c \in Conns, NEW e, NextEvent(c, e),
         \A d \in Conns \ {c} : /\ read'[d] = read[d] /\ reqFin'[d] = reqFin[d]
                               /\ sent'[d] = sent[d] /\ finSent'[d] = finSent[d],
         reqFin'[c] = "read" => read'[c] = HeaderLen,
         ~opened[c] => read'[c] = 0,
         AnsweredInv(c)',
         Entry' # None => Entry'.write_remaining = None,
         read'[c] = 0 /\ "RecvStreamReadable" \in events'[c] /\ "NewStream" \notin events'[c]
           => Entry' # None /\ Entry'.read_buf = <<>>
  PROVE  WholeInv'
<1>1. /\ UNCHANGED <<conn, opened, arrived, limit, size>> /\ pc = "events" /\ pc' = "events"
      /\ e \in events[c] /\ events' = [events EXCEPT ![c] = @ \ {e}]
  BY DEF NextEvent, clientVars
<1>2. TypeOK /\ OneActiveInv /\ (\A d \in Conns : WholeConnInv(d))
  BY DEF WholeInv
<1>3. /\ events'[c] = events[c] \ {e}
      /\ \A d \in Conns \ {c} : events'[d] = events[d] /\ events[d] = {}
  BY <1>1, <1>2 DEF OneActiveInv, TypeOK
<1>4. ASSUME NEW d \in Conns PROVE WholeConnInv(d)'
  <2>1. AnsweredInv(d)'
    BY <1>1, <1>2, <1>3 DEF WholeConnInv, AnsweredInv
  <2>2. QED
    BY <1>1, <1>2, <1>3, <2>1 DEF WholeConnInv
<1>5. OneActiveInv'
  BY <1>1, <1>2, <1>3 DEF OneActiveInv
<1>6. IdleEntryInv'
  BY <1>3 DEF IdleEntryInv
<1>7. QED
  BY <1>4, <1>5, <1>6 DEF WholeInv

LEMMA WholeNewStream ==
  ASSUME WholeInv, TypeOK', FlowInv', NEW c \in Conns, HandleNewStream(c)
  PROVE  WholeInv'
<1>1. /\ NextEvent(c, "NewStream") /\ UNCHANGED <<read, reqFin, sent, finSent>>
      /\ events' = [events EXCEPT ![c] = @ \ {"NewStream"}] /\ "NewStream" \in events[c]
      /\ UNCHANGED <<conn, opened, size>>
  BY DEF HandleNewStream, NextEvent, sendVars, clientVars
<1>2. Entry' = NewStreamState
  BY DEF HandleNewStream, WholeInv, TypeOK, Entry, StreamIds
<1>3. NewStreamState # None
  <2>1. NewStreamState \in StreamState
    BY DEF NewStreamState, StreamState
  <2>2. QED
    BY <2>1, NoneAssumption
<1>4. Entry'.write_remaining = None /\ Entry'.read_buf = <<>>
  BY <1>2 DEF NewStreamState
<1>5. WholeConnInv(c) /\ events'[c] = events[c] \ {"NewStream"}
  BY <1>1 DEF WholeInv, TypeOK
<1>6. AnsweredInv(c)'
  BY <1>1, <1>5 DEF WholeConnInv, AnsweredInv
<1>7. QED
  BY <1>1, <1>2, <1>3, <1>4, <1>5, <1>6, AnsweredStep DEF WholeConnInv

\* What a handler of connection c finds when NewStream has been handled.
LEMMA WholeContext ==
  ASSUME WholeInv, NEW c \in Conns, NEW e \in StreamEvent \ {"NewStream"}, NextEvent(c, e)
  PROVE  /\ opened[c] /\ arrived[c] = HeaderLen /\ conn[c] # "idle"
         /\ WholeConnInv(c)
         /\ events'[c] = events[c] \ {e}
         /\ "NewStream" \notin events[c]
         /\ Entry # None => /\ StreamOf(c) \in Stream /\ StreamOf(c).write_remaining = None
                            /\ StreamOf(c).read_buf = Entry.read_buf
                            /\ StreamOf(c).sent = sent[c] /\ StreamOf(c).fin = finSent[c]
<1>1. e \in events[c] \cap StreamEvent /\ "NewStream" \notin events[c]
  BY DEF NextEvent
<1>2. WholeConnInv(c) /\ TypeOK
  BY DEF WholeInv
<1>3. opened[c] /\ arrived[c] = HeaderLen /\ conn[c] # "idle"
  BY <1>1, <1>2 DEF WholeConnInv
<1>4. events'[c] = events[c] \ {e}
  BY <1>2 DEF NextEvent, TypeOK
<1>5. Entry # None => StreamOf(c) \in Stream
  BY <1>2 DEF TypeOK, Entry, StreamOf, Stream, StreamState, StreamIds
<1>6. Entry # None => /\ StreamOf(c).write_remaining = None
                      /\ StreamOf(c).read_buf = Entry.read_buf
                      /\ StreamOf(c).sent = sent[c] /\ StreamOf(c).fin = finSent[c]
  BY DEF WholeInv, IdleEntryInv, StreamOf, Entry
<1>7. QED
  BY <1>1, <1>2, <1>3, <1>4, <1>5, <1>6

\* A handler that does no more than take its event, which is not one that a request
\* waits for.
LEMMA WholeIgnored ==
  ASSUME WholeInv, TypeOK', FlowInv', NEW c \in Conns, NEW e, NextEvent(c, e),
         e # "NewStream", "NewStream" \notin events[c],
         UNCHANGED <<read, reqFin, sent, finSent>>,
         e = "RecvStreamReadable" => read[c] = HeaderLen \/ conn[c] = "closed",
         Entry' = Entry \/ (/\ Entry # None /\ Entry' # None /\ Entry'.write_remaining = None
                            /\ Entry'.read_buf = Entry.read_buf)
  PROVE  WholeInv'
<1>1. WholeConnInv(c) /\ TypeOK /\ IdleEntryInv
  BY DEF WholeInv
<1>2. events'[c] = events[c] \ {e} /\ UNCHANGED <<conn, opened, size>>
  BY <1>1 DEF NextEvent, TypeOK, clientVars
<1>3. AnsweredInv(c)'
  BY <1>1, <1>2 DEF WholeConnInv, AnsweredInv, HeaderLen
<1>4. Entry' # None => Entry'.write_remaining = None
  BY <1>1 DEF IdleEntryInv
<1>5. read'[c] = 0 /\ "RecvStreamReadable" \in events'[c]
        => Entry' # None /\ Entry'.read_buf = <<>>
  BY <1>1, <1>2 DEF IdleEntryInv
<1>6. QED
  BY <1>1, <1>3, <1>4, <1>5, AnsweredStep DEF WholeConnInv

LEMMA WholeWritable ==
  ASSUME WholeInv, TypeOK', FlowInv', NEW c \in Conns, HandleWritable(c)
  PROVE  WholeInv'
<1> DEFINE s == StreamOf(c)
<1>1. NextEvent(c, "SendStreamWritable") /\ "SendStreamWritable" \in StreamEvent
      /\ UNCHANGED <<read, reqFin>>
  BY DEF HandleWritable, StreamEvent
<1>2. CASE Entry = None
  <2>1. UNCHANGED <<stream_states, sent, finSent>>
    BY <1>2 DEF HandleWritable, Entry, sendVars
  <2>2. QED
    BY <1>1, <2>1, WholeContext, WholeIgnored DEF Entry
<1>3. CASE Entry # None
  <2>1. /\ s \in Stream /\ s.write_remaining = None /\ s.read_buf = Entry.read_buf
        /\ s.sent = sent[c] /\ s.fin = finSent[c] /\ "NewStream" \notin events[c]
    BY <1>1, <1>3, WholeContext
  <2>2. StreamBecomes(c, s)
    BY <1>3, <2>1 DEF HandleWritable, Entry, try_send_response
  <2> HIDE DEF s
  <2>3. /\ Entry' # None
        /\ \A d \in Conns \ {c} : sent'[d] = sent[d] /\ finSent'[d] = finSent[d]
        /\ sent'[c] = sent[c] /\ finSent'[c] = finSent[c]
        /\ StreamOf(c)' = s
    BY <2>1, <2>2, AfterHandler DEF WholeInv
  <2>4. Entry'.write_remaining = None /\ Entry'.read_buf = Entry.read_buf
    BY <2>1, <2>3 DEF StreamOf, Entry
  <2>5. UNCHANGED <<sent, finSent>>
    <3>1. {sent, sent'} \subseteq [Conns -> Nat] /\ {finSent, finSent'} \subseteq [Conns -> BOOLEAN]
      BY DEF WholeInv, TypeOK
    <3>2. \A d \in Conns : sent'[d] = sent[d] /\ finSent'[d] = finSent[d]
      BY <2>3
    <3>3. QED
      BY <3>1, <3>2
  <2>6. QED
    BY <1>1, <1>3, <2>1, <2>3, <2>4, <2>5, WholeIgnored
<1>4. QED
  BY <1>2, <1>3

LEMMA WholeReadable ==
  ASSUME WholeInv, TypeOK', FlowInv', NEW c \in Conns, HandleReadable(c)
  PROVE  WholeInv'
<1> DEFINE s == StreamOf(c)
           t == read_request(c, s)
<1>1. NextEvent(c, "RecvStreamReadable") /\ "RecvStreamReadable" \in StreamEvent
  BY DEF HandleReadable, StreamEvent
<1>2. /\ opened[c] /\ arrived[c] = HeaderLen /\ conn[c] # "idle" /\ WholeConnInv(c)
      /\ events'[c] = events[c] \ {"RecvStreamReadable"} /\ "NewStream" \notin events[c]
  BY <1>1, WholeContext
<1>3. AnsweredInv(c) /\ "RecvStreamReadable" \in events[c]
  BY <1>1, <1>2 DEF WholeConnInv, NextEvent
<1>4. CASE Entry = None \/ conn[c] = "closed" \/ reqFin[c] = "read"
  <2>1. UNCHANGED <<stream_states, read, reqFin, sent, finSent>>
    BY <1>4 DEF HandleReadable, Entry, sendVars
  <2>2. read[c] = HeaderLen \/ conn[c] = "closed"
    BY <1>2, <1>3, <1>4 DEF WholeInv, IdleEntryInv, AnsweredInv, WholeConnInv
  <2>3. QED
    BY <1>1, <1>2, <2>1, <2>2, WholeIgnored DEF Entry
<1>5. CASE ~(Entry = None \/ conn[c] = "closed" \/ reqFin[c] = "read")
  <2>1. /\ s \in Stream /\ s.write_remaining = None /\ s.read_buf = Entry.read_buf
        /\ s.sent = sent[c] /\ s.fin = finSent[c]
    BY <1>1, <1>5, WholeContext
  <2>2. /\ StreamBecomes(c, t) /\ read' = [read EXCEPT ![c] = arrived[c]]
        /\ reqFin' = [reqFin EXCEPT ![c] = IF @ = "arrived" THEN "read" ELSE @]
    BY <1>5 DEF HandleReadable, Entry
  <2>3. conn[c] = "open"
    BY <1>2, <1>5 DEF WholeInv, TypeOK
  <2>4. size[c] <= limit[c]
    <3>1. size[c] \in Nat /\ limit[c] \in Nat /\ Window \in Nat
      BY BaseAssumption, WindowAssumption DEF WholeInv, TypeOK
    <3>2. QED
      BY <1>2, <3>1 DEF WholeConnInv
  <2>5. \/ read[c] = 0 /\ s.read_buf = <<>> /\ s.sent = 0 /\ s.fin = FALSE
        \/ read[c] = HeaderLen /\ s.sent = size[c] /\ s.fin = TRUE
    BY <1>2, <1>3, <2>1 DEF WholeInv, IdleEntryInv, AnsweredInv
  <2> HIDE DEF s
  <2>6. t \in Stream /\ t.write_remaining = None /\ t.sent = size[c] /\ t.fin = TRUE
    BY <1>2, <2>1, <2>3, <2>4, <2>5, ReadRequestAnswers DEF WholeInv
  <2> HIDE DEF t
  <2>7. /\ Entry' # None
        /\ \A d \in Conns \ {c} : sent'[d] = sent[d] /\ finSent'[d] = finSent[d]
        /\ sent'[c] = size[c] /\ finSent'[c] = TRUE
        /\ StreamOf(c)' = t
    BY <2>2, <2>6, AfterHandler DEF WholeInv
  <2>8. Entry'.write_remaining = None
    BY <2>6, <2>7 DEF StreamOf, Entry
  <2>9. /\ read'[c] = HeaderLen
        /\ \A d \in Conns \ {c} : read'[d] = read[d] /\ reqFin'[d] = reqFin[d]
    BY <1>2, <2>2 DEF WholeInv, TypeOK
  <2>10. AnsweredInv(c)'
    <3>1. size' = size
      BY <1>1 DEF NextEvent, clientVars
    <3>2. QED
      BY <1>2, <2>7, <2>9, <3>1 DEF AnsweredInv
  <2>11. HeaderLen # 0
    BY DEF HeaderLen
  <2>12. QED
    BY <1>1, <1>2, <2>7, <2>8, <2>9, <2>10, <2>11, AnsweredStep
<1>6. QED
  BY <1>4, <1>5

LEMMA WholeOther ==
  ASSUME WholeInv, TypeOK', FlowInv', NEW c \in Conns, HandleOther(c)
  PROVE  WholeInv'
<1>1. /\ NextEvent(c, "StateChange") /\ "NewStream" \notin events[c]
      /\ UNCHANGED <<stream_states, read, reqFin, sent, finSent>>
  BY DEF HandleOther, NextEvent, sendVars
<1>2. QED
  BY <1>1, WholeIgnored DEF Entry

\* The steps of the event loop, of its output and of the clients' reading.
LEMMA WholeQuiet ==
  ASSUME WholeInv, TypeOK', FlowInv',
         UNCHANGED <<stream_states, conn, events, recvVars, sendVars, limit, size>>,
         pc' # "events" => \A c \in Conns : events[c] = {}
  PROVE  WholeInv'
<1>1. UNCHANGED <<opened, arrived, read, reqFin, sent, finSent>>
  BY DEF recvVars, sendVars
<1>2. \A c \in Conns : WholeConnInv(c)'
  BY <1>1 DEF WholeInv, WholeConnInv, AnsweredInv
<1>3. OneActiveInv'
  BY DEF WholeInv, OneActiveInv
<1>4. IdleEntryInv'
  BY <1>1 DEF WholeInv, IdleEntryInv, Entry
<1>5. QED
  BY <1>2, <1>3, <1>4 DEF WholeInv

\* What reaches connection c while the server waits raises events of c alone, and
\* announces a stream before its data.
LEMMA WholeArrival ==
  ASSUME WholeInv, TypeOK', FlowInv', NEW c \in Conns, pc = "wait", pc' = "events",
         UNCHANGED <<stream_states, read, sent, finSent>>,
         \A d \in Conns \ {c} :
           /\ events'[d] = events[d] /\ conn'[d] = conn[d] /\ opened'[d] = opened[d]
           /\ arrived'[d] = arrived[d] /\ reqFin'[d] = reqFin[d]
           /\ limit'[d] = limit[d] /\ size'[d] = size[d],
         WholeConnInv(c)',
         read[c] = 0 /\ "RecvStreamReadable" \in events'[c] => "NewStream" \in events'[c]
  PROVE  WholeInv'
<1>1. \A d \in Conns : events[d] = {} /\ WholeConnInv(d)
  BY DEF WholeInv, OneActiveInv
<1>2. ASSUME NEW d \in Conns \ {c} PROVE WholeConnInv(d)' /\ events'[d] = {}
  BY <1>1 DEF WholeConnInv, AnsweredInv
<1>3. OneActiveInv'
  BY <1>2 DEF OneActiveInv
<1>4. IdleEntryInv'
  BY <1>2 DEF WholeInv, IdleEntryInv, Entry
<1>5. QED
  BY <1>2, <1>3, <1>4 DEF WholeInv

LEMMA WholeConnect ==
  ASSUME \A n \in Sizes : n <= Window,
         WholeInv, TypeOK', FlowInv', NEW c \in Conns, Connect(c)
  PROVE  WholeInv'
<1>1. /\ pc = "wait" /\ pc' = "events" /\ conn[c] = "idle"
      /\ conn' = [conn EXCEPT ![c] = "open"]
      /\ events' = [events EXCEPT ![c] = {"StateChange"}]
      /\ UNCHANGED <<stream_states, opened, arrived, read, reqFin, sent, finSent, limit>>
  BY DEF Connect, recvVars, sendVars
<1>2. PICK n \in Sizes : size' = [size EXCEPT ![c] = n]
  BY DEF Connect
<1>3. TypeOK /\ WholeConnInv(c)
  BY DEF WholeInv
<1>4. size'[c] = n /\ n <= Window /\ conn'[c] = "open" /\ events'[c] = {"StateChange"}
  BY <1>1, <1>2, <1>3 DEF TypeOK
<1>5. ~opened[c] /\ read[c] = 0 /\ arrived[c] = 0
  BY <1>1, <1>3 DEF WholeConnInv
<1>6. WholeConnInv(c)'
  <2>1. HeaderLen # 0
    BY DEF HeaderLen
  <2>2. AnsweredInv(c)'
    BY <1>1, <1>3, <1>5, <2>1 DEF WholeConnInv, AnsweredInv
  <2>3. QED
    BY <1>1, <1>3, <1>4, <1>5, <2>2 DEF WholeConnInv, StreamEvent
<1>7. \A d \in Conns \ {c} :
        events'[d] = events[d] /\ conn'[d] = conn[d] /\ size'[d] = size[d]
  BY <1>1, <1>2, <1>3 DEF TypeOK
<1>8. QED
  BY <1>1, <1>4, <1>6, <1>7, WholeArrival

LEMMA WholeTimeout ==
  ASSUME WholeInv, TypeOK', FlowInv', NEW c \in Conns, IdleTimeout(c)
  PROVE  WholeInv'
<1>1. /\ pc = "wait" /\ pc' = "events"
      /\ conn' = [conn EXCEPT ![c] = "closed"]
      /\ events' = [events EXCEPT ![c] = {"StateChange"}]
      /\ UNCHANGED <<stream_states, opened, arrived, read, reqFin, sent, finSent, limit, size>>
  BY DEF IdleTimeout, recvVars, sendVars, clientVars
<1>2. TypeOK /\ WholeConnInv(c)
  BY DEF WholeInv
<1>3. conn'[c] = "closed" /\ events'[c] = {"StateChange"}
  BY <1>1, <1>2 DEF TypeOK
<1>4. AnsweredInv(c)'
  BY <1>1, <1>2, <1>3 DEF WholeConnInv, AnsweredInv
<1>5. WholeConnInv(c)'
  BY <1>1, <1>2, <1>3, <1>4 DEF WholeConnInv, StreamEvent
<1>6. \A d \in Conns \ {c} : events'[d] = events[d] /\ conn'[d] = conn[d]
  BY <1>1, <1>2 DEF TypeOK
<1>7. QED
  BY <1>1, <1>3, <1>5, <1>6, WholeArrival

LEMMA WholeDatagram ==
  ASSUME WholeInv, TypeOK', FlowInv', WholeRequests', NEW c \in Conns,
         NEW frame \in BOOLEAN, NEW fin \in BOOLEAN, NEW grant \in BOOLEAN,
         NEW close \in BOOLEAN, NEW k \in arrived[c] .. HeaderLen,
         Datagram(c, frame, k, fin, grant, close)
  PROVE  WholeInv'
<1>1. TypeOK /\ WholeConnInv(c) /\ AnsweredInv(c) /\ events[c] = {}
  BY DEF WholeInv, WholeConnInv, OneActiveInv, Datagram
<1>2. /\ pc = "wait" /\ pc' = "events" /\ conn[c] = "open"
      /\ UNCHANGED <<stream_states, read, sent, finSent, size, got>>
  BY DEF Datagram, sendVars, clientVars
<1>3. /\ conn'[c] = IF close THEN "closed" ELSE "open"
      /\ opened'[c] = (opened[c] \/ frame)
      /\ arrived'[c] = k
      /\ reqFin'[c] = IF fin THEN "arrived" ELSE reqFin[c]
      /\ limit'[c] = IF grant THEN got[c] + Window ELSE limit[c]
  BY <1>1, <1>2 DEF Datagram, TypeOK
<1>4. \A d \in Conns \ {c} :
        /\ events'[d] = events[d] /\ conn'[d] = conn[d] /\ opened'[d] = opened[d]
        /\ arrived'[d] = arrived[d] /\ reqFin'[d] = reqFin[d] /\ limit'[d] = limit[d]
  BY <1>1 DEF Datagram, TypeOK
<1>5. (arrived[c] < k \/ fin) => frame
  BY DEF Datagram
<1>6. /\ "NewStream" \in events'[c] <=> frame /\ ~opened[c]
      /\ "RecvStreamReadable" \in events'[c] <=> arrived[c] < k \/ fin
      /\ "SendStreamWritable" \in events'[c] => sent[c] = limit[c]
  <2>1. events'[c] = When(frame /\ ~opened[c], "NewStream")
                     \cup When(arrived[c] < k \/ fin, "RecvStreamReadable")
                     \cup When(sent[c] = limit[c] /\ limit'[c] > limit[c] /\ ~finSent[c],
                               "SendStreamWritable")
                     \cup When(close, "StateChange")
    BY <1>1 DEF Datagram, TypeOK
  <2>2. QED
    BY <2>1 DEF When
<1>7. read[c] = 0 => ~opened[c] /\ arrived[c] = 0 /\ sent[c] = 0
  BY <1>1, <1>2 DEF AnsweredInv, WholeConnInv, HeaderLen
<1>8. read[c] # 0 => opened[c] /\ read[c] = HeaderLen
  BY <1>1 DEF AnsweredInv, WholeConnInv
<1>9. opened'[c] => k = HeaderLen
  BY <1>3 DEF WholeRequests
<1>10. Window <= limit'[c]
  BY <1>1, <1>3, WindowAssumption DEF WholeConnInv, TypeOK
<1>11. ~opened'[c] => read[c] = 0 /\ arrived'[c] = 0 /\ events'[c] \cap StreamEvent = {}
  <2>1. SUFFICES ASSUME ~opened'[c]
                 PROVE  read[c] = 0 /\ arrived'[c] = 0 /\ events'[c] \cap StreamEvent = {}
    OBVIOUS
  <2>2. ~opened[c] /\ ~frame /\ read[c] = 0
    BY <1>3, <1>8, <2>1
  <2>3. k = 0 /\ ~fin
    BY <1>5, <1>7, <2>2 DEF HeaderLen
  <2>4. sent[c] # limit[c]
    BY <1>1, <1>7, <2>2, WindowAssumption DEF WholeConnInv, TypeOK
  <2>5. QED
    BY <1>3, <1>6, <1>7, <2>2, <2>3, <2>4 DEF StreamEvent
<1>12. AnsweredInv(c)'
  <2>1. CASE read[c] = 0
    <3>1. opened'[c] => "RecvStreamReadable" \in events'[c]
      BY <1>6, <1>7, <1>9, <2>1 DEF HeaderLen
    <3>2. sent[c] = 0 /\ finSent[c] = FALSE
      BY <1>1, <2>1 DEF AnsweredInv, HeaderLen
    <3>3. QED
      BY <1>2, <2>1, <3>1, <3>2 DEF AnsweredInv
  <2>2. CASE read[c] # 0
    <3>1. "NewStream" \notin events'[c]
      BY <1>6, <1>8, <2>2
    <3>2. QED
      BY <1>1, <1>2, <2>2, <3>1 DEF AnsweredInv
  <2>3. QED
    BY <2>1, <2>2
<1>13. reqFin'[c] = "read" => read[c] = HeaderLen
  BY <1>1, <1>3 DEF WholeConnInv
<1>14. WholeConnInv(c)'
  BY <1>1, <1>2, <1>3, <1>9, <1>10, <1>11, <1>12, <1>13 DEF WholeConnInv
<1>15. read[c] = 0 /\ "RecvStreamReadable" \in events'[c] => "NewStream" \in events'[c]
  BY <1>5, <1>6, <1>7
<1>16. QED
  BY <1>2, <1>4, <1>14, <1>15, WholeArrival

LEMMA WholeStep ==
  ASSUME \A n \in Sizes : n <= Window, WholeInv, [Next /\ WholeRequests']_vars
  PROVE  WholeInv'
<1>1. TypeOK' /\ FlowInv'
  BY TypeStep DEF WholeInv
<1>2. ASSUME NEW c \in Conns, Handler(c) PROVE WholeInv'
  BY <1>1, <1>2, WholeNewStream, WholeReadable, WholeWritable, WholeOther DEF Handler
<1>3. ASSUME NEW c \in Conns, Connect(c) \/ IdleTimeout(c) PROVE WholeInv'
  BY <1>1, <1>3, WholeConnect, WholeTimeout
<1>4. ASSUME NEW c \in Conns, ReceiveDatagram(c), WholeRequests' PROVE WholeInv'
  BY <1>1, <1>4, WholeDatagram DEF ReceiveDatagram
<1>5. ASSUME \/ EventsDrained \/ OutputDone \/ Timer \/ ListenFails \/ UNCHANGED vars
             \/ \E c \in Conns : SendDatagrams(c) \/ ClientReceives(c)
      PROVE  WholeInv'
  <2>1. UNCHANGED <<stream_states, conn, events, recvVars, sendVars, limit, size>>
    BY <1>5 DEF EventsDrained, OutputDone, Timer, ListenFails, SendDatagrams,
                ClientReceives, vars, serverVars, clientVars
  <2>2. pc' # "events" => \A c \in Conns : events[c] = {}
    BY <1>5 DEF EventsDrained, OutputDone, Timer, ListenFails, SendDatagrams,
                ClientReceives, vars, serverVars, WholeInv, OneActiveInv
  <2>3. QED
    BY <1>1, <2>1, <2>2, WholeQuiet
<1>6. QED
  BY <1>2, <1>3, <1>4, <1>5 DEF Next, Server, Environment

\* What the clients of exchanges that overlap can tell.
LEMMA WholeSeen ==
  ASSUME WholeInv, WireInv
  PROVE  SeenInv
<1>1. ASSUME NEW c \in Conns PROVE sent[c] <= size[c] /\ (finSent[c] => sent[c] = size[c])
  <2>1. AnsweredInv(c) /\ size[c] \in Nat
    BY BaseAssumption DEF WholeInv, WholeConnInv, TypeOK
  <2>2. QED
    BY <2>1 DEF AnsweredInv
<1>2. QED
  BY <1>1 DEF WholeInv, SizeInv, SeenInv

LEMMA WholeInvariance ==
  ASSUME \A n \in Sizes : n <= Window
  PROVE  WholeSpec => [](WholeInv /\ WireInv)
<1>1. Init => WholeInv /\ WireInv
  BY WholeInit, WireInit
<1>2. WholeInv /\ WireInv /\ [Next /\ WholeRequests']_vars => (WholeInv /\ WireInv)'
  <2>1. ASSUME WholeInv, WireInv, [Next /\ WholeRequests']_vars PROVE (WholeInv /\ WireInv)'
    <3>1. [Next]_vars
      BY <2>1
    <3>2. QED
      BY <2>1, <3>1, WholeStep, WireStep DEF WholeInv
  <2>2. QED
    BY <2>1
<1>3. QED
  BY <1>1, <1>2, PTL DEF WholeSpec

-----------------------------------------------------------------------------
(***************************************************************************)
(* The theorems.                                                           *)
(***************************************************************************)

\* Type correctness, also of exchanges that overlap: whichever connection's response
\* the shared entry is of, write_remaining never goes below zero.
THEOREM TypeCorrect == Spec => []TypeOK
<1>1. Init => TypeOK /\ FlowInv
  BY InitInv, Flow
<1>2. TypeOK /\ FlowInv /\ [Next]_vars => (TypeOK /\ FlowInv)'
  BY TypeStep
<1>3. QED
  BY <1>1, <1>2, PTL DEF Spec

\* While exchanges do not overlap, a response is ended only after exactly the
\* requested number of bytes, for every client of a listen that serves any
\* number of them through one map.
THEOREM ResponsesExact == ASSUME ~Overlap PROVE Spec => []ExactResponse
<1>1. IInv => ExactResponse
  BY DEF IInv, ConnInv, ExactResponse
<1>2. QED
  BY <1>1, Invariance, PTL

\* Nor is a byte written that was not asked for.
THEOREM ResponsesBounded == ASSUME ~Overlap PROVE Spec => []NothingUnasked
<1>1. IInv => NothingUnasked
  BY DEF IInv, ConnInv, NothingUnasked
<1>2. QED
  BY <1>1, Invariance, PTL

\* And the entry of an unanswered request is neither lost nor overwritten.
THEOREM EntryKept == ASSUME ~Overlap PROVE Spec => []EntryTracksExchange
<1>1. ASSUME IInv, NEW c \in Conns,
             conn[c] = "open", read[c] = HeaderLen, ~finSent[c]
      PROVE  /\ Entry # None
             /\ Entry.write_remaining # None
             /\ Entry.write_remaining + sent[c] = size[c]
  <2>1. ConnInv(c) /\ TypeOK
    BY <1>1 DEF IInv
  <2>2. Live(c)
    BY <1>1 DEF Live, Over
  <2>3. opened[c] /\ "NewStream" \notin events[c]
    BY <1>1, <2>1 DEF ConnInv, HeaderLen, TypeOK
  <2>4. Entry # None /\ Writing(c, StreamOf(c))
    BY <1>1, <2>2, <2>3 DEF IInv, EntryInv, HeaderLen
  <2>5. /\ StreamOf(c).fin = FALSE
        /\ StreamOf(c).write_remaining = Entry.write_remaining
        /\ StreamOf(c).sent = sent[c]
    BY <1>1, <2>1 DEF StreamOf, Entry, TypeOK
  <2>6. Entry.write_remaining \in Nat /\ Entry.write_remaining + sent[c] = size[c]
    BY <2>4, <2>5 DEF Writing
  <2>7. QED
    BY <2>4, <2>6, NoneAssumption
<1>2. IInv => EntryTracksExchange
  BY <1>1 DEF EntryTracksExchange, Entry
<1>3. QED
  BY <1>2, Invariance, PTL

\* When the server waits for the network, every request that it has read and
\* not answered is held back by its client's flow control: try_send_response
\* leaves credit unused only while an event that resumes it is pending.
THEOREM WaitsForCredit == ASSUME ~Overlap PROVE Spec => []WaitsOnlyForCredit
<1>1. IInv /\ CreditInv => WaitsOnlyForCredit
  BY DEF IInv, EventsInv, CreditInv, WaitsOnlyForCredit
<1>2. QED
  BY <1>1, WaitInvariance, PTL

\* Every step of the server, the library, the network and the clients is one that the
\* protocol allows, or none that a client can tell: of any number of clients served one
\* after the other through one map, each that sees the end of its response has exactly
\* the bytes it asked for.
THEOREM Refinement == ASSUME ~Overlap PROVE Spec => ImplementsExchange
<1>1. Init => Exchange!Init
  BY InitSeen
<1>2. IInv /\ CreditInv /\ WireInv => SeenInv
  BY Flow DEF IInv, ConnInv, SizeInv, SeenInv
<1>3. SeenInv /\ [Next]_vars => [Exchange!Next]_Exchange!vars
  BY StepSeen
<1>4. QED
  BY <1>1, <1>2, <1>3, WaitInvariance, PTL DEF Spec, Exchange!Spec, ImplementsExchange

\* Exchanges that overlap share the entry too, but a response that fits the window is
\* written by the handler that reads the header, when the header arrives whole: of any
\* number of clients served at the same time, each response is exactly as long as asked
\* for.  Both hypotheses matter: a larger blob waits in the entry for credit, and the
\* first part of a header for the rest, while another NewStream may replace them.
THEOREM OverlapExact ==
  ASSUME \A n \in Sizes : n <= Window
  PROVE  WholeSpec => []ExactResponse
<1>1. WholeInv /\ WireInv => ExactResponse
  BY WholeSeen DEF SeenInv, SizeInv, ExactResponse
<1>2. QED
  BY <1>1, WholeInvariance, PTL

\* And each client sees an exchange as the protocol promises it, whatever the other
\* clients of the same listen do meanwhile.
THEOREM OverlapRefinement ==
  ASSUME \A n \in Sizes : n <= Window
  PROVE  WholeSpec => ImplementsExchange
<1>1. Init => Exchange!Init
  BY InitSeen
<1>2. WholeInv /\ WireInv /\ [Next /\ WholeRequests']_vars
        => [Exchange!Next]_Exchange!vars
  <2>1. ASSUME WholeInv, WireInv, [Next /\ WholeRequests']_vars
        PROVE  [Exchange!Next]_Exchange!vars
    <3>1. SeenInv /\ [Next]_vars
      BY <2>1, WholeSeen
    <3>2. QED
      BY <3>1, StepSeen
  <2>2. QED
    BY <2>1
<1>3. QED
  BY <1>1, <1>2, WholeInvariance, PTL DEF WholeSpec, Exchange!Spec, ImplementsExchange
=============================================================================
