----------------------------- MODULE Metrics_proofs -----------------------------
(***************************************************************************)
(* What holds of the I/O metrics whatever the calls, the capacity of the   *)
(* ring buffer and the width of a length are.                              *)
(***************************************************************************)
EXTENDS Metrics, Recursion, SequenceTheorems

Length == 0 .. Word - 1

Event == [syscall : Syscalls, len : Length]

-----------------------------------------------------------------------------
(***************************************************************************)
(* The lengths that the programs count.                                    *)
(***************************************************************************)
LEMMA WrappedLength == \A a, b \in Nat : (a + b) % Word \in Length
<1>1. \A c \in Nat : c % Word \in Length
  BY WordAssumption, Z3 DEF Length
<1>2. \A a, b \in Nat : a + b \in Nat
  OBVIOUS
<1>3. QED
  BY <1>1, <1>2

\* count_iovec_len returns an u32.
LEMMA CountedLength ==
  ASSUME NEW vec \in Seq(Nat)
  PROVE  count_iovec_len(vec) \in Length
<1> DEFINE n == Len(vec)
           g == [x \in Length \X (1 .. n) |-> (x[1] + vec[x[2]]) % Word]
           k[i \in 0 .. Len(vec)] == IF i = 0 THEN 0 ELSE (k[i - 1] + vec[i]) % Word
<1>1. n \in Nat /\ \A i \in 1 .. n : vec[i] \in Nat
  OBVIOUS
<1>2. 0 \in Length /\ Length \subseteq Nat
  BY WordAssumption DEF Length
<1>3. \A l \in Length, i \in 1 .. n : (l + vec[i]) % Word \in Length
  BY <1>1, <1>2, WrappedLength
<1>4. \A l \in Length, i \in 1 .. n : g[<<l, i>>] = (l + vec[i]) % Word
  OBVIOUS
<1>5. \A l \in Length, i \in 1 .. n : g[<<l, i>>] \in Length
  BY <1>3, <1>4
<1>6. PICK f \in [0 .. n -> Length] : Follows(f, n, 0, g)
  <2> HIDE DEF g, n
  <2>1. QED
    BY <1>1, <1>2, <1>5, RecursionExists
<1>7. \A i \in 1 .. n : i - 1 \in 0 .. n /\ f[i - 1] \in Length
  <2>1. \A i \in 1 .. n : i - 1 \in 0 .. n
    BY <1>1
  <2> HIDE DEF n
  <2>2. QED
    BY <1>6, <2>1
<1>8. f[0] = 0 /\ \A i \in 1 .. n : f[i] = (f[i - 1] + vec[i]) % Word
  <2>1. \A i \in 1 .. n : g[<<f[i - 1], i>>] = (f[i - 1] + vec[i]) % Word
    BY <1>4, <1>7
  <2>2. QED
    BY <1>6, <2>1 DEF Follows
<1>9. f = [i \in 0 .. Len(vec) |-> IF i = 0 THEN 0 ELSE (f[i - 1] + vec[i]) % Word]
  <2>1. \A i \in 0 .. n : f[i] = IF i = 0 THEN 0 ELSE (f[i - 1] + vec[i]) % Word
    <3>1. \A i \in 0 .. n : i = 0 \/ i \in 1 .. n
      BY <1>1
    <3>2. QED
      BY <1>8, <3>1
  <2>2. QED
    BY <1>6, <2>1
<1>10. k = [i \in 0 .. Len(vec) |-> IF i = 0 THEN 0 ELSE (k[i - 1] + vec[i]) % Word]
  BY <1>9
<1>11. count_iovec_len(vec) = k[n]
  BY DEF count_iovec_len
<1> HIDE DEF k, g
<1>12. k[0] = 0 /\ \A i \in 1 .. n : k[i] = (k[i - 1] + vec[i]) % Word
  <2>1. 0 \in 0 .. n /\ \A i \in 1 .. n : i \in 0 .. n /\ i # 0
    BY <1>1
  <2>2. QED
    BY <1>10, <2>1
<1> HIDE DEF n
<1>13. \A i \in 0 .. n : k[i] \in Length
  <2>1. \A i \in 1 .. n : k[i - 1] \in Length => k[i] \in Length
    BY <1>3, <1>12
  <2>2. QED
    BY <1>1, <1>2, <1>12, <2>1, RecursionType
<1>14. QED
  BY <1>1, <1>11, <1>13

LEMMA VectorsType == ASSUME NEW call \in Calls PROVE Vectors(call) \in Seq(Seq(Nat))
<1>1. call.msgs \in Seq(Seq(Nat)) /\ call.msgs # <<>>
  BY CallsAssumption
<1>2. call.msgs[1] \in Seq(Nat)
  BY <1>1
<1>3. <<call.msgs[1]>> \in Seq(Seq(Nat))
  BY <1>2
<1>4. [i \in DOMAIN call.msgs[1] |-> call.msgs[1]] \in Seq(Seq(Nat))
  <2>1. DOMAIN call.msgs[1] = 1 .. Len(call.msgs[1]) /\ Len(call.msgs[1]) \in Nat
    BY <1>2
  <2>2. QED
    BY <1>2, <2>1
<1>5. QED
  BY <1>1, <1>3, <1>4 DEF Vectors

LEMMA EventLength ==
  ASSUME NEW call \in Calls, NEW lost
  PROVE  EventLen(call, lost) \in Length
<1> DEFINE vecs == Vectors(call)
           lens == [i \in DOMAIN vecs |-> IF i \in lost THEN 0 ELSE count_iovec_len(vecs[i])]
<1>1. vecs \in Seq(Seq(Nat))
  BY VectorsType
<1>2. EventLen(call, lost) = count_iovec_len(lens)
  BY DEF EventLen
<1> HIDE DEF vecs
<1>3. Len(vecs) \in Nat /\ DOMAIN vecs = 1 .. Len(vecs)
      /\ \A i \in 1 .. Len(vecs) : vecs[i] \in Seq(Nat)
  BY <1>1
<1>4. \A i \in 1 .. Len(vecs) : count_iovec_len(vecs[i]) \in Nat
  <2>1. Length \subseteq Nat
    BY WordAssumption DEF Length
  <2>2. QED
    BY <1>3, <2>1, CountedLength
<1>5. lens \in Seq(Nat)
  BY <1>3, <1>4
<1> HIDE DEF lens
<1>6. QED
  BY <1>2, <1>5, CountedLength

\* What a call adds to the ring buffer: nothing or one event.
LEMMA EventsOfCall ==
  ASSUME NEW call \in Calls, NEW e \in EventsOf(call)
  PROVE  e = <<>> \/ \E v \in Event : v.syscall = call.syscall /\ e = <<v>>
<1>1. call.syscall \in Syscalls
  BY CallsAssumption
<1> DEFINE v(n) == [syscall |-> call.syscall, len |-> n]
<1>2. \A n \in Length : v(n) \in Event /\ v(n).syscall = call.syscall
  BY <1>1 DEF Event
<1>3. e = <<>> \/ \E lost \in Unreadable(call) : e = <<v(EventLen(call, lost))>>
  BY DEF EventsOf
<1> HIDE DEF v
<1>4. QED
  BY <1>2, <1>3, EventLength

-----------------------------------------------------------------------------
(***************************************************************************)
(* The lengths of a system call among the events of a sequence.            *)
(***************************************************************************)
With(lens, e, s) == IF e.syscall = s THEN Append(lens, e.len) ELSE lens

\* f[i] are the lengths of s among the first i events.
Walks(f, events, s) ==
  /\ f[0] = <<>>
  /\ \A i \in 1 .. Len(events) : f[i] = With(f[i - 1], events[i], s)

LEMMA WithType ==
  ASSUME NEW lens \in Seq(Length), NEW e \in Event, NEW s
  PROVE  With(lens, e, s) \in Seq(Length)
BY DEF With, Event

LEMMA WalkExists ==
  ASSUME NEW events \in Seq(Event), NEW s
  PROVE  \E f \in [0 .. Len(events) -> Seq(Length)] :
           Walks(f, events, s) /\ Lengths(events, s) = f[Len(events)]
<1> DEFINE n == Len(events)
           V == Seq(Length)
           g == [x \in V \X (1 .. n) |-> With(x[1], events[x[2]], s)]
           of[i \in 0 .. Len(events)] ==
             IF i = 0 THEN <<>>
             ELSE IF events[i].syscall = s THEN Append(of[i - 1], events[i].len) ELSE of[i - 1]
<1>1. n \in Nat /\ \A i \in 1 .. n : events[i] \in Event
  OBVIOUS
<1>2. <<>> \in V
  OBVIOUS
<1>3. \A l \in V, i \in 1 .. n : g[<<l, i>>] = With(l, events[i], s)
  <2> HIDE DEF V, n
  <2>1. QED
    OBVIOUS
<1>4. \A l \in V, i \in 1 .. n : With(l, events[i], s) \in V
  BY <1>1, WithType
<1>5. \A l \in V, i \in 1 .. n : g[<<l, i>>] \in V
  BY <1>3, <1>4
<1>6. PICK f \in [0 .. n -> V] : Follows(f, n, <<>>, g)
  <2> HIDE DEF g, n, V
  <2>1. QED
    BY <1>1, <1>2, <1>5, RecursionExists
<1>7. \A i \in 1 .. n : f[i - 1] \in V
  <2>1. \A i \in 1 .. n : i - 1 \in 0 .. n
    BY <1>1
  <2> HIDE DEF n, V
  <2>2. QED
    BY <1>6, <2>1
<1>8. f[0] = <<>> /\ \A i \in 1 .. n : f[i] = With(f[i - 1], events[i], s)
  <2> HIDE DEF g, V
  <2>1. \A i \in 1 .. n : g[<<f[i - 1], i>>] = With(f[i - 1], events[i], s)
    BY <1>3, <1>7
  <2>2. QED
    BY <1>6, <2>1 DEF Follows
<1>9. f = [i \in 0 .. Len(events) |->
             IF i = 0 THEN <<>>
             ELSE IF events[i].syscall = s THEN Append(f[i - 1], events[i].len) ELSE f[i - 1]]
  <2>1. \A i \in 0 .. n : i = 0 \/ i \in 1 .. n
    BY <1>1
  <2>2. \A i \in 0 .. n : f[i] =
          IF i = 0 THEN <<>>
          ELSE IF events[i].syscall = s THEN Append(f[i - 1], events[i].len) ELSE f[i - 1]
    <3> HIDE DEF n
    <3>1. QED
      BY <1>8, <2>1 DEF With
  <2>3. QED
    BY <1>6, <2>2
<1>10. of = [i \in 0 .. Len(events) |->
               IF i = 0 THEN <<>>
               ELSE IF events[i].syscall = s THEN Append(of[i - 1], events[i].len) ELSE of[i - 1]]
  BY <1>9
<1>11. Lengths(events, s) = of[n]
  BY DEF Lengths
<1> HIDE DEF of, g
<1>12. of[0] = <<>> /\ \A i \in 1 .. n : of[i] = With(of[i - 1], events[i], s)
  <2>1. 0 \in 0 .. n /\ \A i \in 1 .. n : i \in 0 .. n /\ i # 0
    BY <1>1
  <2>2. QED
    BY <1>10, <2>1 DEF With
<1>13. \A i \in 0 .. n : of[i] \in V
  <2>1. \A i \in 1 .. n : of[i - 1] \in V => of[i] \in V
    BY <1>4, <1>12
  <2> HIDE DEF n, V
  <2>2. QED
    BY <1>1, <1>2, <1>12, <2>1, RecursionType
<1>14. of \in [0 .. n -> V]
  BY <1>10, <1>13
<1>15. QED
  BY <1>11, <1>12, <1>14 DEF Walks

\* There is only one walk.
LEMMA WalkIsLengths ==
  ASSUME NEW events \in Seq(Event), NEW s, NEW f, Walks(f, events, s)
  PROVE  f[Len(events)] = Lengths(events, s)
<1>1. PICK h : Walks(h, events, s) /\ Lengths(events, s) = h[Len(events)]
  BY WalkExists
<1> DEFINE n == Len(events)
           T == {i \in Nat : i <= n => f[i] = h[i]}
<1>2. n \in Nat
  OBVIOUS
<1>3. 0 \in T
  BY <1>1 DEF Walks
<1>4. ASSUME NEW i \in Nat, i \in T, i + 1 <= n PROVE f[i + 1] = h[i + 1]
  <2>1. f[i] = h[i] /\ i + 1 \in 1 .. n /\ (i + 1) - 1 = i
    BY <1>2, <1>4
  <2>2. f[i + 1] = With(f[i], events[i + 1], s) /\ h[i + 1] = With(h[i], events[i + 1], s)
    BY <1>1, <2>1 DEF Walks
  <2>3. QED
    BY <2>1, <2>2
<1>5. \A i \in Nat : i \in T => i + 1 \in T
  BY <1>4
<1> HIDE DEF T
<1>6. \A i \in Nat : i \in T
  BY <1>3, <1>5, SetInduction
<1>7. QED
  BY <1>1, <1>2, <1>6 DEF T

LEMMA LengthsType ==
  ASSUME NEW events \in Seq(Event), NEW s
  PROVE  Lengths(events, s) \in Seq(Length)
<1>1. PICK f \in [0 .. Len(events) -> Seq(Length)] : Lengths(events, s) = f[Len(events)]
  BY WalkExists
<1>2. Len(events) \in 0 .. Len(events)
  OBVIOUS
<1>3. QED
  BY <1>1, <1>2

LEMMA LengthsEmpty == \A s : Lengths(<<>>, s) = <<>>
<1> TAKE s
<1>1. <<>> \in Seq(Event) /\ Len(<<>>) = 0
  OBVIOUS
<1>2. PICK f : Walks(f, <<>>, s) /\ Lengths(<<>>, s) = f[Len(<<>>)]
  BY <1>1, WalkExists
<1>3. QED
  BY <1>1, <1>2 DEF Walks

\* An event enters the ring buffer.
LEMMA LengthsAppend ==
  ASSUME NEW events \in Seq(Event), NEW e \in Event, NEW s
  PROVE  Lengths(Append(events, e), s) = With(Lengths(events, s), e, s)
<1> DEFINE n == Len(events)
           more == Append(events, e)
<1>1. more \in Seq(Event) /\ Len(more) = n + 1 /\ more[n + 1] = e
      /\ \A i \in 1 .. n : more[i] = events[i]
  OBVIOUS
<1>2. n \in Nat
  OBVIOUS
<1> HIDE DEF more
<1>3. PICK f : Walks(f, more, s) /\ Lengths(more, s) = f[n + 1]
  BY <1>1, WalkExists
<1>4. Walks(f, events, s)
  <2>1. \A i \in 1 .. n : i \in 1 .. Len(more)
    BY <1>1, <1>2
  <2>2. QED
    BY <1>1, <1>3, <2>1 DEF Walks
<1>5. f[n] = Lengths(events, s)
  BY <1>4, WalkIsLengths
<1>6. f[n + 1] = With(f[n], e, s)
  <2>1. n + 1 \in 1 .. Len(more) /\ (n + 1) - 1 = n
    BY <1>1, <1>2
  <2>2. QED
    BY <1>1, <1>3, <2>1 DEF Walks
<1>7. QED
  BY <1>3, <1>5, <1>6 DEF more

LEMMA WithConcat ==
  ASSUME NEW a \in Seq(Length), NEW b \in Seq(Length), NEW e \in Event, NEW s
  PROVE  With(a \o b, e, s) = a \o With(b, e, s)
<1>1. CASE e.syscall # s
  BY <1>1 DEF With
<1>2. CASE e.syscall = s
  <2>1. e.len \in Length /\ <<e.len>> \in Seq(Length) /\ a \o b \in Seq(Length)
    BY DEF Event
  <2>2. Append(a \o b, e.len) = (a \o b) \o <<e.len>> /\ Append(b, e.len) = b \o <<e.len>>
    BY <2>1, AppendIsConcat
  <2>3. (a \o b) \o <<e.len>> = a \o (b \o <<e.len>>)
    BY <2>1, ConcatAssociative
  <2>4. QED
    BY <1>2, <2>2, <2>3 DEF With
<1>3. QED
  BY <1>1, <1>2

\* The first event leaves the ring buffer.
LEMMA LengthsTail ==
  ASSUME NEW events \in Seq(Event), events # <<>>, NEW s
  PROVE  Lengths(events, s) = With(<<>>, Head(events), s) \o Lengths(Tail(events), s)
<1> DEFINE n == Len(events)
           rest == Tail(events)
           first == With(<<>>, Head(events), s)
<1>1. n \in Nat \ {0} /\ Head(events) = events[1] /\ events[1] \in Event
      /\ \A i \in 1 .. n : events[i] \in Event
  OBVIOUS
<1>2. rest \in Seq(Event) /\ Len(rest) = n - 1 /\ \A i \in 1 .. n - 1 : rest[i] = events[i + 1]
  BY HeadTailProperties
<1>3. first \in Seq(Length)
  <2>1. <<>> \in Seq(Length) /\ Head(events) \in Event
    BY <1>1
  <2>2. QED
    BY <2>1, WithType
<1> HIDE DEF rest, n
<1>4. PICK f : Walks(f, events, s) /\ Lengths(events, s) = f[n]
  BY WalkExists DEF n
<1>5. PICK h \in [0 .. n - 1 -> Seq(Length)] : Walks(h, rest, s) /\ Lengths(rest, s) = h[n - 1]
  BY <1>2, WalkExists
<1> DEFINE T == {i \in Nat : i <= n - 1 => f[i + 1] = first \o h[i]}
<1>6. 0 \in T
  <2>1. f[1] = first
    <3>1. 1 \in 1 .. n /\ 1 - 1 = 0
      BY <1>1
    <3>2. QED
      BY <1>1, <1>4, <3>1 DEF Walks, n
  <2>2. first \o <<>> = first
    BY <1>3, ConcatEmptySeq
  <2> HIDE DEF first
  <2>3. h[0] = <<>> /\ 0 + 1 = 1 /\ 0 <= n - 1
    BY <1>1, <1>5 DEF Walks
  <2>4. QED
    BY <2>1, <2>2, <2>3
<1> HIDE DEF first
<1>7. ASSUME NEW i \in Nat, i \in T, i + 1 <= n - 1 PROVE f[(i + 1) + 1] = first \o h[i + 1]
  <2>1. f[i + 1] = first \o h[i] /\ i + 1 \in 1 .. n - 1 /\ (i + 1) - 1 = i
        /\ i \in 0 .. n - 1 /\ (i + 1) + 1 \in 1 .. n /\ ((i + 1) + 1) - 1 = i + 1
    BY <1>1, <1>7
  <2>2. h[i + 1] = With(h[i], rest[i + 1], s)
    BY <1>2, <1>5, <2>1 DEF Walks
  <2>3. f[(i + 1) + 1] = With(f[i + 1], events[(i + 1) + 1], s)
    BY <1>4, <2>1 DEF Walks, n
  <2>4. events[(i + 1) + 1] = rest[i + 1] /\ rest[i + 1] \in Event
    BY <1>1, <1>2, <2>1
  <2>5. h[i] \in Seq(Length)
    BY <1>5, <2>1
  <2>6. With(first \o h[i], rest[i + 1], s) = first \o With(h[i], rest[i + 1], s)
    BY <1>3, <2>4, <2>5, WithConcat
  <2>7. QED
    BY <2>1, <2>2, <2>3, <2>4, <2>6
<1>8. ASSUME NEW i \in Nat, i \in T PROVE i + 1 \in T
  <2>1. i + 1 <= n - 1 => f[(i + 1) + 1] = first \o h[i + 1]
    BY <1>7, <1>8
  <2>2. i + 1 \in Nat
    OBVIOUS
  <2> DEFINE j == i + 1
  <2> HIDE DEF j
  <2>3. j <= n - 1 => f[j + 1] = first \o h[j]
    BY <2>1 DEF j
  <2>4. j \in T
    BY <2>2, <2>3, Zenon DEF j
  <2>5. QED
    BY <2>4 DEF j
<1> HIDE DEF T
<1>9. \A i \in Nat : i \in T
  BY <1>6, <1>8, SetInduction
<1>10. n - 1 \in Nat /\ n - 1 <= n - 1 /\ (n - 1) + 1 = n
  BY <1>1
<1>11. f[n] = first \o h[n - 1]
  BY <1>9, <1>10 DEF T
<1>12. QED
  BY <1>4, <1>5, <1>11 DEF rest, first

-----------------------------------------------------------------------------
(***************************************************************************)
(* The inductive invariant.                                                *)
(***************************************************************************)

\* Nothing is taken from SYSCALL_VOLUMES before main collects or prints it, and what
\* was printed stays there: the process ends with it.
CollectInv ==
  /\ main \in {"attaching", "signal", "detach", "output"} => output = Nothing
  /\ main \in {"attaching", "signal", "detach", "output", "posting"} => outcome = "none"
  /\ outcome = "printed" => main = "exited" /\ output = volumes

IInv == TypeOK /\ CollectInv /\ EachEventOnce

\* TypeOK in the terms of the lemmas.
LEMMA Types ==
  ASSUME TypeOK
  PROVE  /\ ring \in Seq(Event)
         /\ \A s \in Syscalls : /\ volumes[s] \in Seq(Length)
                                /\ output[s] \in Seq(Length)
                                /\ accepted[s] \in Seq(Length)
                                /\ InRing(s) \in Seq(Length)
<1>1. ring \in Seq(Event)
  BY DEF TypeOK, Event, Length
<1>2. \A s \in Syscalls : InRing(s) \in Seq(Length)
  BY <1>1, LengthsType DEF InRing
<1>3. {volumes, output, accepted} \subseteq [Syscalls -> Seq(Length)]
  BY DEF TypeOK, Length
<1>4. QED
  BY <1>1, <1>2, <1>3

LEMMA NothingType == Nothing \in [Syscalls -> Seq(Length)]
<1>1. <<>> \in Seq(Length)
  OBVIOUS
<1>2. QED
  BY <1>1 DEF Nothing

LEMMA InitInv == Init => IInv
<1> SUFFICES ASSUME Init PROVE IInv
  OBVIOUS
<1>1. TypeOK
  <2>1. ring \in Seq(Event) /\ Len(ring) <= Capacity
    BY CapacityAssumption DEF Init
  <2>2. {volumes, output, accepted} \subseteq [Syscalls -> Seq(Length)]
    BY NothingType DEF Init
  <2>3. attached \in 0 .. Len(AttachOrder)
    BY DEF Init, AttachOrder
  <2>4. calls \in 0 .. MaxCalls
    BY BoundAssumption DEF Init
  <2>5. QED
    BY <2>1, <2>2, <2>3, <2>4 DEF Init, TypeOK, Event, Length
<1>2. CollectInv
  BY DEF Init, CollectInv
<1>3. EachEventOnce
  <2> SUFFICES ASSUME NEW s \in Syscalls
               PROVE  accepted[s] = (output[s] \o volumes[s]) \o InRing(s)
    BY DEF EachEventOnce, Init
  <2>1. InRing(s) = <<>>
    BY LengthsEmpty DEF InRing, Init
  <2>2. accepted[s] = <<>> /\ output[s] = <<>> /\ volumes[s] = <<>>
    BY DEF Init, Nothing
  <2>3. QED
    BY <2>1, <2>2
<1>4. QED
  BY <1>1, <1>2, <1>3 DEF IInv

-----------------------------------------------------------------------------
(***************************************************************************)
(* The steps.                                                              *)
(***************************************************************************)

\* What a call does to the ring buffer.
LEMMA Submitted ==
  ASSUME TypeOK, NEW call \in Calls, NEW e \in EventsOf(call), ring' = _submit_event(e)
  PROVE  \/ ring' = ring
         \/ \E v \in Event : /\ v.syscall = call.syscall
                             /\ ring' = Append(ring, v)
                             /\ Len(ring) < Capacity
<1>1. ring \in Seq(Event) /\ Len(ring) <= Capacity /\ Len(ring) \in Nat
  <2>1. ring \in Seq(Event)
    BY Types
  <2>2. Len(ring) <= Capacity
    BY DEF TypeOK
  <2>3. QED
    BY <2>1, <2>2
<1>2. CASE Len(ring) = Capacity
  BY <1>2 DEF _submit_event
<1>3. CASE Len(ring) # Capacity
  <2>1. ring' = ring \o e /\ Len(ring) < Capacity
    BY <1>1, <1>3, CapacityAssumption DEF _submit_event
  <2>2. CASE e = <<>>
    BY <1>1, <2>1, <2>2
  <2>3. CASE e # <<>>
    <3>1. PICK v \in Event : v.syscall = call.syscall /\ e = <<v>>
      BY <2>3, EventsOfCall
    <3>2. Append(ring, v) = ring \o <<v>>
      BY <1>1, AppendIsConcat
    <3>3. QED
      BY <2>1, <3>1, <3>2
  <2>4. QED
    BY <2>2, <2>3
<1>4. QED
  BY <1>2, <1>3

LEMMA SysEnterStep ==
  ASSUME IInv, NEW call \in Calls, NEW own \in BOOLEAN, SysEnter(call, own)
  PROVE  IInv'
<1>1. TypeOK /\ CollectInv /\ EachEventOnce
  BY DEF IInv
<1>2. ring \in Seq(Event) /\ Len(ring) \in Nat /\ Len(ring) <= Capacity
      /\ accepted \in [Syscalls -> Seq(Length)]
  <2>1. ring \in Seq(Event) /\ Len(ring) \in Nat
    BY <1>1, Types
  <2>2. Len(ring) <= Capacity /\ {volumes, output, accepted} \subseteq [Syscalls -> Seq(Length)]
    BY <1>1 DEF TypeOK, Length
  <2>3. QED
    BY <2>1, <2>2
<1>3. call.syscall \in Syscalls
  BY CallsAssumption
<1>4. UNCHANGED <<main, job, influx, attached, poller, volumes, output, outcome>>
  BY DEF SysEnter
<1>5. CollectInv'
  BY <1>1, <1>4 DEF CollectInv
<1>6. calls' \in 0 .. MaxCalls
  BY <1>1, BoundAssumption DEF SysEnter, TypeOK
<1>7. CASE ring' = ring
  <2>1. accepted' = accepted
    BY <1>2, <1>7 DEF SysEnter
  <2>2. TypeOK'
    BY <1>1, <1>4, <1>6, <1>7, <2>1 DEF TypeOK
  <2>3. EachEventOnce'
    BY <1>1, <1>4, <1>7, <2>1 DEF EachEventOnce, InRing
  <2>4. QED
    BY <1>5, <2>2, <2>3 DEF IInv
<1>8. CASE ring' # ring
  <2>1. own /\ \E e \in EventsOf(call) : ring' = _submit_event(e)
    BY <1>8 DEF SysEnter, PidGuard
  <2>2. PICK v \in Event : v.syscall = call.syscall /\ ring' = Append(ring, v) /\ Len(ring) < Capacity
    BY <1>1, <1>8, <2>1, Submitted
  <2>3. ring' \in Seq(Event) /\ Len(ring') = Len(ring) + 1 /\ ring'[Len(ring')] = v
    BY <1>2, <2>2
  <2>4. accepted' = [accepted EXCEPT ![call.syscall] = Append(@, v.len)]
    <3>1. accepted' = [accepted EXCEPT ![call.syscall] =
            IF own /\ Len(ring') > Len(ring) THEN Append(@, ring'[Len(ring')].len) ELSE @]
      BY DEF SysEnter
    <3>2. own /\ Len(ring') > Len(ring) /\ ring'[Len(ring')].len = v.len
      BY <1>2, <2>1, <2>3
    <3>3. QED
      BY <3>1, <3>2
  <2>5. v.len \in Length
    BY DEF Event
  <2>6. accepted' \in [Syscalls -> Seq(Length)]
    <3>1. \A q \in Seq(Length) : Append(q, v.len) \in Seq(Length)
      BY <2>5
    <3>2. QED
      BY <1>2, <2>4, <3>1
  <2>7. \A s \in Syscalls : accepted'[s] = With(accepted[s], v, s)
    BY <1>2, <1>3, <2>2, <2>4 DEF With
  <2>8. TypeOK'
    <3>1. Len(ring') <= Capacity
      BY <1>2, <2>2, <2>3, CapacityAssumption
    <3>2. {volumes', output', accepted'} \subseteq [Syscalls -> Seq(Length)]
      BY <1>1, <1>4, <2>6 DEF TypeOK, Length
    <3>3. QED
      BY <1>1, <1>4, <1>6, <2>3, <3>1, <3>2 DEF TypeOK, Event, Length
  <2>9. EachEventOnce'
    <3>1. SUFFICES ASSUME NEW s \in Syscalls
                   PROVE  accepted'[s] = (IF outcome' = "printed" THEN volumes'[s]
                                          ELSE output'[s] \o volumes'[s]) \o Lengths(ring', s)
      BY DEF EachEventOnce, InRing
    <3> DEFINE taken == IF outcome = "printed" THEN volumes[s] ELSE output[s] \o volumes[s]
    <3>2. taken \in Seq(Length) /\ Lengths(ring, s) \in Seq(Length)
      BY <1>1, Types DEF InRing
    <3>3. accepted[s] = taken \o Lengths(ring, s)
      BY <1>1 DEF EachEventOnce, InRing
    <3>4. taken = IF outcome' = "printed" THEN volumes'[s] ELSE output'[s] \o volumes'[s]
      BY <1>4
    <3> HIDE DEF taken
    <3>5. With(taken \o Lengths(ring, s), v, s) = taken \o With(Lengths(ring, s), v, s)
      BY <3>2, WithConcat
    <3>6. Lengths(ring', s) = With(Lengths(ring, s), v, s)
      BY <1>2, <2>2, LengthsAppend
    <3>7. accepted'[s] = taken \o Lengths(ring', s)
      BY <2>7, <3>3, <3>5, <3>6
    <3>8. QED
      BY <3>4, <3>7
  <2>10. QED
    BY <1>5, <2>8, <2>9 DEF IInv
<1>9. QED
  BY <1>7, <1>8

LEMMA processStep ==
  ASSUME IInv, process
  PROVE  IInv'
<1>1. TypeOK /\ CollectInv /\ EachEventOnce
  BY DEF IInv
<1>2. ring \in Seq(Event) /\ Len(ring) <= Capacity /\ ring # <<>>
      /\ {volumes, output, accepted} \subseteq [Syscalls -> Seq(Length)]
  BY <1>1, Types DEF TypeOK, Length, process
<1>3. UNCHANGED <<main, job, influx, attached, poller, output, outcome, calls, accepted>>
  BY DEF process
<1> DEFINE v == Head(ring)
<1>4. v \in Event /\ v.syscall \in Syscalls /\ v.len \in Length
  <2>1. v \in Event
    BY <1>2, HeadTailProperties
  <2> HIDE DEF v
  <2>2. QED
    BY <2>1 DEF Event
<1>5. ring' = Tail(ring) /\ ring' \in Seq(Event) /\ Len(ring') <= Capacity
  BY <1>2, HeadTailProperties, CapacityAssumption DEF process
<1>6. volumes' = [volumes EXCEPT ![v.syscall] = Append(@, v.len)]
  BY DEF process
<1> HIDE DEF v
<1>7. volumes' \in [Syscalls -> Seq(Length)]
  BY <1>2, <1>4, <1>6
<1>8. \A s \in Syscalls : volumes'[s] = With(volumes[s], v, s)
  BY <1>2, <1>4, <1>6 DEF With
<1>9. TypeOK'
  <2>1. {volumes', output', accepted'} \subseteq [Syscalls -> Seq(Length)]
    BY <1>2, <1>3, <1>7
  <2>2. QED
    BY <1>1, <1>3, <1>5, <2>1 DEF TypeOK, Event, Length
<1>10. outcome # "printed"
  BY <1>1 DEF process, Running, CollectInv
<1>11. CollectInv'
  BY <1>1, <1>3, <1>10 DEF CollectInv
<1>12. EachEventOnce'
  <2>1. SUFFICES ASSUME NEW s \in Syscalls
                 PROVE  accepted[s] = (output[s] \o volumes'[s]) \o Lengths(ring', s)
    BY <1>3, <1>10 DEF EachEventOnce, InRing
  <2> DEFINE out == output[s]
             vol == volumes[s]
             new == With(<<>>, v, s)
             left == Lengths(ring', s)
  <2>2. <<>> \in Seq(Length) /\ out \in Seq(Length) /\ vol \in Seq(Length) /\ left \in Seq(Length)
    <3>1. out \in Seq(Length) /\ vol \in Seq(Length)
      BY <1>1, Types
    <3>2. left \in Seq(Length)
      BY <1>5, LengthsType
    <3>3. QED
      BY <3>1, <3>2
  <2>3. new \in Seq(Length)
    BY <1>4, <2>2, WithType
  <2>4. Lengths(ring, s) = new \o left
    BY <1>2, <1>5, LengthsTail DEF v
  <2>5. volumes'[s] = vol \o new
    <3>1. With(vol \o <<>>, v, s) = vol \o new
      <4> HIDE DEF vol
      <4>1. \A b \in Seq(Length) : With(vol \o b, v, s) = vol \o With(b, v, s)
        BY <1>4, <2>2, WithConcat
      <4>2. QED
        BY <2>2, <4>1, Zenon
    <3>2. vol \o <<>> = vol
      BY <2>2, ConcatEmptySeq
    <3>3. QED
      BY <1>8, <3>1, <3>2
  <2>6. accepted[s] = (out \o vol) \o (new \o left)
    BY <1>1, <1>10, <2>4 DEF EachEventOnce, InRing
  <2> HIDE DEF out, vol, new, left
  <2>7. (out \o vol) \o (new \o left) = ((out \o vol) \o new) \o left
    <3> DEFINE taken == out \o vol
    <3>1. taken \in Seq(Length)
      BY <2>2, ConcatProperties
    <3> HIDE DEF taken
    <3>2. \A a, b, c \in Seq(Length) : (a \o b) \o c = a \o (b \o c)
      BY ConcatAssociative
    <3>3. (taken \o new) \o left = taken \o (new \o left)
      BY <2>2, <2>3, <3>1, <3>2, Zenon
    <3>4. QED
      BY <3>3 DEF taken
  <2>8. (out \o vol) \o new = out \o (vol \o new)
    BY <2>2, <2>3, ConcatAssociative
  <2>9. QED
    BY <2>5, <2>6, <2>7, <2>8 DEF out, left
<1>13. QED
  BY <1>9, <1>11, <1>12 DEF IInv

\* The steps of the polling task and of main that move no event.
LEMMA EventsStay ==
  ASSUME IInv, UNCHANGED <<ring, volumes, output, accepted>>,
         outcome # "printed", outcome' # "printed"
  PROVE  EachEventOnce'
BY DEF IInv, EachEventOnce, InRing

LEMMA PollerSleepsStep ==
  ASSUME IInv, PollEnds \/ PollerWakes
  PROVE  IInv'
<1>1. UNCHANGED <<main, job, influx, attached, ring, volumes, output, outcome, calls, accepted>>
      /\ poller' \in {"polls", "sleeps"} /\ outcome # "printed"
  BY DEF PollEnds, PollerWakes, Running, IInv, CollectInv
<1>2. TypeOK' /\ CollectInv'
  BY <1>1 DEF IInv, TypeOK, CollectInv
<1>3. QED
  BY <1>1, <1>2, EventsStay DEF IInv

\* main before it looks at SYSCALL_VOLUMES.
LEMMA StartAndSignalStep ==
  ASSUME IInv, AttachNext \/ SpawnPoller \/ StartupEnds \/ Signal \/ Detach
  PROVE  IInv'
<1>1. UNCHANGED <<job, influx, ring, volumes, output, outcome, calls, accepted>>
  BY DEF AttachNext, SpawnPoller, StartupEnds, Signal, Detach, Main
<1>2. main \in {"attaching", "signal", "detach"}
  BY DEF AttachNext, SpawnPoller, StartupEnds, Signal, Detach, Main
<1>3. main' \in {"attaching", "signal", "detach", "output", "exited", "killed"}
  BY DEF AttachNext, SpawnPoller, StartupEnds, Signal, Detach, Main
<1>4. attached' \in 0 .. Len(AttachOrder)
  <2>1. Len(AttachOrder) = 10 /\ attached \in 0 .. Len(AttachOrder)
    BY DEF AttachOrder, IInv, TypeOK
  <2>2. attached' = attached \/ attached' = 0
        \/ (attached < Len(AttachOrder) /\ attached' = attached + 1)
    BY DEF AttachNext, SpawnPoller, StartupEnds, Signal, Detach
  <2>3. QED
    BY <2>1, <2>2
<1>5. poller' \in {"absent", "polls", "sleeps"}
  BY DEF AttachNext, SpawnPoller, StartupEnds, Signal, Detach, IInv, TypeOK
<1>6. TypeOK'
  BY <1>1, <1>3, <1>4, <1>5 DEF IInv, TypeOK
<1>7. outcome = "none" /\ output = Nothing
  BY <1>2 DEF IInv, CollectInv
<1>8. CollectInv'
  BY <1>1, <1>7 DEF CollectInv
<1>9. EachEventOnce'
  BY <1>1, <1>7, EventsStay
<1>10. QED
  BY <1>6, <1>8, <1>9 DEF IInv

LEMMA collect_line_protocolStep ==
  ASSUME IInv, collect_line_protocol
  PROVE  IInv'
<1>1. UNCHANGED <<job, influx, attached, poller, ring, calls, accepted>>
      /\ output' = volumes /\ volumes' = Nothing
      /\ main' \in {"exited", "posting"} /\ outcome' \in {"empty", outcome}
  BY DEF collect_line_protocol, Main, VolumesLeft
<1>2. main = "output" /\ (outcome' = "empty" => main' = "exited")
      /\ (main' = "posting" => outcome' = outcome)
  BY DEF collect_line_protocol, Main, IInv, CollectInv
<1>3. outcome = "none" /\ output = Nothing
  BY <1>2 DEF IInv, CollectInv
<1>4. {volumes', output', accepted'} \subseteq [Syscalls -> Seq(Length)]
  BY <1>1, NothingType DEF IInv, TypeOK, Length
<1>5. TypeOK'
  BY <1>1, <1>3, <1>4 DEF IInv, TypeOK, Length
<1>6. CollectInv'
  BY <1>1, <1>2, <1>3 DEF CollectInv
<1>7. EachEventOnce'
  <2>1. SUFFICES ASSUME NEW s \in Syscalls
                 PROVE  accepted[s] = (volumes[s] \o <<>>) \o InRing(s)
    BY <1>1, <1>3 DEF EachEventOnce, InRing, Nothing
  <2>2. volumes[s] \in Seq(Length)
    BY Types DEF IInv
  <2>3. accepted[s] = (<<>> \o volumes[s]) \o InRing(s)
    BY <1>3 DEF IInv, EachEventOnce, Nothing
  <2>4. volumes[s] \o <<>> = volumes[s] /\ <<>> \o volumes[s] = volumes[s]
    BY <2>2, ConcatEmptySeq
  <2>5. QED
    BY <2>3, <2>4
<1>8. QED
  BY <1>5, <1>6, <1>7 DEF IInv

LEMMA PostedStep ==
  ASSUME IInv, Posted
  PROVE  IInv'
<1>1. UNCHANGED <<job, influx, attached, poller, ring, volumes, output, calls, accepted>>
      /\ main' = "exited" /\ outcome' \in {"pushed", "lost"} /\ main = "posting"
  BY DEF Posted, Main
<1>2. outcome = "none"
  BY <1>1 DEF IInv, CollectInv
<1>3. TypeOK' /\ CollectInv'
  BY <1>1 DEF IInv, TypeOK, CollectInv
<1>4. QED
  BY <1>1, <1>2, <1>3, EventsStay DEF IInv

LEMMA reportStep ==
  ASSUME IInv, report
  PROVE  IInv'
<1>1. UNCHANGED <<job, influx, attached, poller, ring, volumes, calls, accepted>>
      /\ main = "output" /\ main' = "exited" /\ output' = volumes /\ outcome' = "printed"
  BY DEF report, Main
<1>2. outcome = "none" /\ output = Nothing
  BY <1>1 DEF IInv, CollectInv
<1>3. TypeOK'
  BY <1>1 DEF IInv, TypeOK
<1>4. CollectInv'
  BY <1>1 DEF CollectInv
<1>5. EachEventOnce'
  <2>1. SUFFICES ASSUME NEW s \in Syscalls
                 PROVE  accepted[s] = volumes[s] \o InRing(s)
    BY <1>1 DEF EachEventOnce, InRing
  <2>2. volumes[s] \in Seq(Length)
    BY Types DEF IInv
  <2>3. accepted[s] = (<<>> \o volumes[s]) \o InRing(s)
    BY <1>2 DEF IInv, EachEventOnce, Nothing
  <2>4. <<>> \o volumes[s] = volumes[s]
    BY <2>2, ConcatEmptySeq
  <2>5. QED
    BY <2>3, <2>4
<1>6. QED
  BY <1>3, <1>4, <1>5 DEF IInv

LEMMA StepInv == IInv /\ [Next]_vars => IInv'
<1> SUFFICES ASSUME IInv, [Next]_vars PROVE IInv'
  OBVIOUS
<1>1. ASSUME NEW call \in Calls, NEW own \in BOOLEAN, SysEnter(call, own) PROVE IInv'
  BY <1>1, SysEnterStep
<1>2. CASE Poller
  BY <1>2, processStep, PollerSleepsStep DEF Poller
<1>3. CASE MainTask \/ Posted
  BY <1>3, StartAndSignalStep, collect_line_protocolStep, PostedStep, reportStep DEF MainTask
<1>4. CASE StartupEnds \/ Signal
  BY <1>4, StartAndSignalStep
<1>5. CASE UNCHANGED vars
  <2>1. TypeOK' /\ CollectInv' /\ EachEventOnce'
    BY <1>5 DEF vars, IInv, TypeOK, CollectInv, EachEventOnce, InRing
  <2>2. QED
    BY <2>1 DEF IInv
<1>6. QED
  BY <1>1, <1>2, <1>3, <1>4, <1>5 DEF Next

LEMMA Invariance == Spec => []IInv
BY InitInv, StepInv, PTL DEF Spec

-----------------------------------------------------------------------------
(***************************************************************************)
(* The theorems.                                                           *)
(***************************************************************************)

\* No event is longer than an u32, the ring buffer never holds more than fits, and
\* every volume belongs to a system call that is monitored.
THEOREM TypeCorrect == Spec => []TypeOK
<1>1. IInv => TypeOK
  BY DEF IInv
<1>2. QED
  BY <1>1, Invariance, PTL

\* Whatever main, the polling task and the programs do between each other's steps, an
\* event that entered the ring buffer is in exactly one place, in order.
THEOREM NoEventTwice == Spec => []EachEventOnce
<1>1. IInv => EachEventOnce
  BY DEF IInv
<1>2. QED
  BY <1>1, Invariance, PTL

LEMMA PrefixOfConcat ==
  ASSUME NEW a \in Seq(Length), NEW b \in Seq(Length)
  PROVE  Len(a) <= Len(a \o b) /\ a = SubSeq(a \o b, 1, Len(a))
<1>1. Len(a) \in Nat /\ Len(b) \in Nat /\ Len(a \o b) = Len(a) + Len(b)
  BY ConcatProperties
<1>2. a = SubSeq(a \o b, 1, Len(a))
  <2>1. CASE a = <<>>
    <3>1. Len(a) = 0 /\ SubSeq(a \o b, 1, 0) = <<>>
      BY <2>1, SubSeqEmpty
    <3>2. QED
      BY <2>1, <3>1
  <2>2. CASE a # <<>>
    <3>1. 1 \in 1 .. Len(a) /\ Len(a) \in 1 .. Len(a)
      BY <1>1, <2>2, EmptySeq
    <3>2. SubSeq(a \o b, 1, Len(a)) = SubSeq(a, 1, Len(a))
      BY <3>1, SubSeqOfConcat1
    <3>3. QED
      BY <3>2, SubSeqFull
  <2>3. QED
    BY <2>1, <2>2
<1>3. QED
  BY <1>1, <1>2

\* What is pushed or printed are the first events: nothing is left out between two of
\* them and nothing is counted again.
THEOREM FirstEvents == Spec => []OutputIsPrefix
<1>1. ASSUME IInv PROVE OutputIsPrefix
  <2> SUFFICES ASSUME NEW s \in Syscalls
               PROVE  /\ Len(output[s]) <= Len(accepted[s])
                      /\ output[s] = SubSeq(accepted[s], 1, Len(output[s]))
    BY DEF OutputIsPrefix
  <2> DEFINE out == output[s]
             vol == volumes[s]
             left == InRing(s)
  <2>1. out \in Seq(Length) /\ vol \in Seq(Length) /\ left \in Seq(Length)
    BY <1>1, Types DEF IInv
  <2>2. \E rest \in Seq(Length) : accepted[s] = out \o rest
    <3>1. CASE outcome = "printed"
      BY <1>1, <2>1, <3>1 DEF IInv, CollectInv, EachEventOnce
    <3>2. CASE outcome # "printed"
      <4>1. accepted[s] = (out \o vol) \o left
        BY <1>1, <3>2 DEF IInv, EachEventOnce
      <4> HIDE DEF out, vol, left
      <4>2. (out \o vol) \o left = out \o (vol \o left) /\ vol \o left \in Seq(Length)
        BY <2>1, ConcatAssociative, ConcatProperties
      <4>3. QED
        BY <4>1, <4>2
    <3>3. QED
      BY <3>1, <3>2
  <2>3. QED
    BY <2>1, <2>2, PrefixOfConcat
<1>2. QED
  BY <1>1, Invariance, PTL
=============================================================================
