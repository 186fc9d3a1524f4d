--------------------------- MODULE MsQuicClient_proofs ---------------------------
(***************************************************************************)
(* What holds of the msquic client for every --blob, any length of the     *)
(* response and any interleaving of run_client with the callbacks; and of  *)
(* its parser for every string.                                            *)
(***************************************************************************)
EXTENDS MsQuicClient, Recursion

-----------------------------------------------------------------------------
(***************************************************************************)
(* The parser of --blob.                                                   *)
(***************************************************************************)

\* n after i digits, if it never wrapped.
Unwrapped(v, number) ==
  /\ v[0] = 0
  /\ \A i \in 1 .. Len(number) : v[i] = v[i - 1] * 10 + number[i]

LEMMA MultiplierType == \A b : Multiplier(b) \in Nat \ {0}
<1> TAKE b
<1>1. Kilo \in Nat \ {0}
  BY BlobAssumption
<1>2. \A x, y \in Nat \ {0} : x * y \in Nat \ {0}
  OBVIOUS
<1>3. Kilo * Kilo \in Nat \ {0}
  BY <1>1, <1>2
<1>4. (Kilo * Kilo) * Kilo \in Nat \ {0}
  BY <1>1, <1>2, <1>3
<1>5. QED
  BY <1>1, <1>3, <1>4 DEF Multiplier

LEMMA UnwrappedExists ==
  ASSUME NEW number \in Seq(Nat)
  PROVE  \E v \in [0 .. Len(number) -> Nat] : Unwrapped(v, number)
<1> DEFINE n == Len(number)
           g == [x \in Nat \X (1 .. n) |-> x[1] * 10 + number[x[2]]]
<1>1. n \in Nat /\ \A i \in 1 .. n : number[i] \in Nat
  OBVIOUS
<1>2. \A a \in Nat, i \in 1 .. n : g[<<a, i>>] = a * 10 + number[i]
  <2> HIDE DEF n
  <2>1. QED
    OBVIOUS
<1> HIDE DEF n, g
<1>3. \A a \in Nat, i \in 1 .. n : g[<<a, i>>] \in Nat
  <2>1. \A a, d \in Nat : a * 10 + d \in Nat
    OBVIOUS
  <2>2. QED
    BY <1>1, <1>2, <2>1
<1>4. PICK v \in [0 .. n -> Nat] : Follows(v, n, 0, g)
  BY <1>1, <1>3, RecursionExists
<1>5. \A i \in 1 .. n : v[i - 1] \in Nat
  <2>1. \A i \in 1 .. n : i - 1 \in 0 .. n
    BY <1>1
  <2>2. QED
    BY <1>4, <2>1
<1>6. Unwrapped(v, number)
  <2>1. v[0] = 0 /\ \A i \in 1 .. n : v[i] = g[<<v[i - 1], i>>]
    BY <1>4 DEF Follows
  <2>2. QED
    BY <1>2, <1>5, <2>1 DEF Unwrapped, n
<1>7. QED
  BY <1>4, <1>6 DEF n

LEMMA DigitType == \A a, c \in Nat : AppendDigit(a, c) \in Nat
<1>1. Word \in Nat \ {0}
  BY BlobAssumption
<1>2. \A a, c \in Nat : a * 10 + c \in Nat
  OBVIOUS
<1>3. \A a \in Nat : a % Word \in Nat
  BY <1>1, Z3
<1>4. QED
  BY <1>2, <1>3 DEF AppendDigit

\* The loop of the parser, which may wrap.
LEMMA ParserLoop ==
  ASSUME NEW number \in Seq(Nat)
  PROVE  \E k : /\ k[0] = 0
                /\ \A i \in 1 .. Len(number) : k[i] = AppendDigit(k[i - 1], number[i])
                /\ ParsedNumber(number) = k[Len(number)]
<1> DEFINE n == Len(number)
           g == [x \in Nat \X (1 .. n) |-> AppendDigit(x[1], number[x[2]])]
           k[i \in 0 .. Len(number)] == IF i = 0 THEN 0 ELSE AppendDigit(k[i - 1], number[i])
<1>1. n \in Nat /\ \A i \in 1 .. n : number[i] \in Nat
  OBVIOUS
<1>2. \A a, c \in Nat : AppendDigit(a, c) \in Nat
  BY DigitType
<1>3. \A a \in Nat, i \in 1 .. n : g[<<a, i>>] = AppendDigit(a, number[i])
  <2> HIDE DEF n
  <2>1. QED
    OBVIOUS
<1>4. \A a \in Nat, i \in 1 .. n : g[<<a, i>>] \in Nat
  BY <1>1, <1>2, <1>3
<1>5. PICK f \in [0 .. n -> Nat] : Follows(f, n, 0, g)
  <2> HIDE DEF n, g
  <2>1. QED
    BY <1>1, <1>4, RecursionExists
<1>6. f = [i \in 0 .. Len(number) |-> IF i = 0 THEN 0 ELSE AppendDigit(f[i - 1], number[i])]
  <2>1. \A i \in 1 .. n : i - 1 \in 0 .. n
    BY <1>1
  <2>2. \A i \in 1 .. n : f[i - 1] \in Nat
    <3> HIDE DEF n
    <3>1. QED
      BY <1>5, <2>1
  <2>3. f[0] = 0 /\ \A i \in 1 .. n : f[i] = AppendDigit(f[i - 1], number[i])
    <3> HIDE DEF n, g
    <3>1. QED
      BY <1>3, <1>5, <2>2 DEF Follows
  <2>4. \A i \in 0 .. n : i = 0 \/ i \in 1 .. n
    BY <1>1
  <2>5. \A i \in 0 .. n : f[i] = IF i = 0 THEN 0 ELSE AppendDigit(f[i - 1], number[i])
    BY <2>3, <2>4
  <2>6. QED
    BY <1>5, <2>5
<1>7. k = [i \in 0 .. Len(number) |-> IF i = 0 THEN 0 ELSE AppendDigit(k[i - 1], number[i])]
  BY <1>6
<1>8. ParsedNumber(number) = k[n]
  BY DEF ParsedNumber
<1> HIDE DEF k
<1>9. k[0] = 0 /\ \A i \in 1 .. n : k[i] = AppendDigit(k[i - 1], number[i])
  <2>1. 0 \in 0 .. n /\ \A i \in 1 .. n : i \in 0 .. n /\ i # 0
    BY <1>1
  <2>2. QED
    BY <1>7, <2>1
<1>10. QED
  BY <1>8, <1>9

\* The loop does not wrap if its result fits: the digits before count for less.
LEMMA ParsesWhatFits ==
  ASSUME NEW number \in Seq(Nat), NEW v \in [0 .. Len(number) -> Nat], Unwrapped(v, number),
         v[Len(number)] < Word
  PROVE  ParsedNumber(number) = v[Len(number)]
<1> DEFINE n == Len(number)
<1>1. n \in Nat /\ \A i \in 1 .. n : number[i] \in Nat
  OBVIOUS
<1>2. Word \in Nat \ {0}
  BY BlobAssumption
<1>3. PICK k : /\ k[0] = 0
               /\ \A i \in 1 .. n : k[i] = AppendDigit(k[i - 1], number[i])
               /\ ParsedNumber(number) = k[n]
  BY ParserLoop
<1> HIDE DEF n
<1> DEFINE T == {i \in Nat : i <= n => (v[i] < Word => k[i] = v[i])}
<1>4. 0 \in T
  BY <1>3 DEF Unwrapped
<1>5. ASSUME NEW i \in Nat, i \in T, i + 1 <= n, v[i + 1] < Word
      PROVE  k[i + 1] = v[i + 1]
  <2>1. i \in 0 .. n /\ i <= n /\ i + 1 \in 1 .. n /\ (i + 1) - 1 = i
    BY <1>1, <1>5
  <2>2. v[i] \in Nat /\ number[i + 1] \in Nat
    BY <1>1, <2>1 DEF n
  <2>3. v[i + 1] = v[i] * 10 + number[i + 1]
    BY <2>1 DEF Unwrapped, n
  <2>4. v[i] < Word
    BY <1>2, <1>5, <2>2, <2>3
  <2>5. k[i] = v[i]
    BY <1>5, <2>1, <2>4
  <2>6. k[i + 1] = (v[i] * 10 + number[i + 1]) % Word
    BY <1>3, <2>1, <2>5 DEF AppendDigit
  <2>7. \A a \in Nat : a < Word => a % Word = a
    BY <1>2, Z3
  <2>8. v[i] * 10 + number[i + 1] \in Nat
    BY <2>2
  <2>9. QED
    BY <1>5, <2>3, <2>6, <2>7, <2>8
<1>6. \A i \in Nat : i \in T => i + 1 \in T
  BY <1>5
<1> HIDE DEF T
<1>7. \A i \in Nat : i \in T
  BY <1>4, <1>6, SetInduction
<1>8. n \in T /\ n <= n
  BY <1>1, <1>7
<1>9. QED
  BY <1>3, <1>8 DEF T, n

LEMMA ParsedType ==
  ASSUME NEW number \in Seq(Nat)
  PROVE  ParsedNumber(number) \in Nat
<1>1. PICK k : /\ k[0] = 0
               /\ \A i \in 1 .. Len(number) : k[i] = AppendDigit(k[i - 1], number[i])
               /\ ParsedNumber(number) = k[Len(number)]
  BY ParserLoop
<1>2. Len(number) \in Nat /\ \A i \in 1 .. Len(number) : number[i] \in Nat
  OBVIOUS
<1>3. \A i \in 1 .. Len(number) : k[i - 1] \in Nat => k[i] \in Nat
  BY <1>1, <1>2, DigitType
<1>4. \A i \in 0 .. Len(number) : k[i] \in Nat
  <2>1. k[0] \in Nat
    BY <1>1
  <2>2. QED
    BY <1>2, <1>3, <2>1, RecursionType
<1>5. QED
  BY <1>1, <1>2, <1>4

\* The values of the places: 1, 10, 100, ...
LEMMA Places ==
  ASSUME NEW n \in Nat
  PROVE  LET place[i \in 0 .. n] == IF i = 0 THEN 1 ELSE 10 * place[i - 1]
         IN  /\ place[0] = 1
             /\ \A i \in 1 .. n : place[i] = 10 * place[i - 1]
             /\ \A i \in 0 .. n : place[i] \in Nat
<1> DEFINE g == [x \in Nat \X (1 .. n) |-> 10 * x[1]]
           place[i \in 0 .. n] == IF i = 0 THEN 1 ELSE 10 * place[i - 1]
<1>1. \A a \in Nat, i \in 1 .. n : g[<<a, i>>] = 10 * a
  OBVIOUS
<1>2. \A a \in Nat, i \in 1 .. n : g[<<a, i>>] \in Nat
  <2> HIDE DEF g
  <2>1. \A a \in Nat : 10 * a \in Nat
    OBVIOUS
  <2>2. QED
    BY <1>1, <2>1
<1>3. PICK f \in [0 .. n -> Nat] : Follows(f, n, 1, g)
  <2> HIDE DEF g
  <2>1. QED
    BY <1>2, RecursionExists
<1>4. f = [i \in 0 .. n |-> IF i = 0 THEN 1 ELSE 10 * f[i - 1]]
  <2>1. \A i \in 1 .. n : f[i - 1] \in Nat
    <3>1. \A i \in 1 .. n : i - 1 \in 0 .. n
      OBVIOUS
    <3>2. QED
      BY <1>3, <3>1
  <2>2. f[0] = 1 /\ \A i \in 1 .. n : f[i] = 10 * f[i - 1]
    <3> HIDE DEF g
    <3>1. QED
      BY <1>1, <1>3, <2>1 DEF Follows
  <2>3. \A i \in 0 .. n : i = 0 \/ i \in 1 .. n
    OBVIOUS
  <2>4. \A i \in 0 .. n : f[i] = IF i = 0 THEN 1 ELSE 10 * f[i - 1]
    BY <2>2, <2>3
  <2>5. QED
    BY <1>3, <2>4
<1>5. place = [i \in 0 .. n |-> IF i = 0 THEN 1 ELSE 10 * place[i - 1]]
  BY <1>4
<1> HIDE DEF place
<1>6. place[0] = 1 /\ \A i \in 1 .. n : place[i] = 10 * place[i - 1]
  <2>1. 0 \in 0 .. n /\ \A i \in 1 .. n : i \in 0 .. n /\ i # 0
    OBVIOUS
  <2>2. QED
    BY <1>5, <2>1
<1>7. \A i \in 0 .. n : place[i] \in Nat
  <2>1. \A i \in 1 .. n : place[i - 1] \in Nat => place[i] \in Nat
    BY <1>6
  <2>2. 1 \in Nat
    OBVIOUS
  <2>3. QED
    BY <1>6, <2>1, <2>2, RecursionType
<1>8. QED
  BY <1>6, <1>7 DEF place

\* The sum of the digits by their places is what the parser would count up to.
LEMMA SumOfPlaces ==
  ASSUME NEW number \in Seq(Nat), NEW v \in [0 .. Len(number) -> Nat], Unwrapped(v, number)
  PROVE  DecimalNumber(number) = v[Len(number)]
<1> DEFINE n == Len(number)
           place[i \in 0 .. n] == IF i = 0 THEN 1 ELSE 10 * place[i - 1]
           g == [x \in Nat \X (1 .. n) |-> x[1] + number[x[2]] * place[n - x[2]]]
           sum[i \in 0 .. n] == IF i = 0 THEN 0 ELSE sum[i - 1] + number[i] * place[n - i]
<1>1. n \in Nat /\ \A i \in 1 .. n : number[i] \in Nat
  OBVIOUS
<1>2. DecimalNumber(number) = sum[n]
  BY DEF DecimalNumber
<1> HIDE DEF n
<1>3. /\ place[0] = 1
      /\ \A i \in 1 .. n : place[i] = 10 * place[i - 1]
      /\ \A i \in 0 .. n : place[i] \in Nat
  BY <1>1, Places
<1> HIDE DEF place
<1>4. \A i \in 1 .. n : number[i] * place[n - i] \in Nat
  <2>1. \A i \in 1 .. n : n - i \in 0 .. n
    BY <1>1
  <2>2. \A i \in 1 .. n : place[n - i] \in Nat
    BY <1>3, <2>1
  <2>3. \A a, b \in Nat : a * b \in Nat
    OBVIOUS
  <2>4. QED
    BY <1>1, <2>2, <2>3
<1>5. \A a \in Nat, i \in 1 .. n : g[<<a, i>>] = a + number[i] * place[n - i]
  OBVIOUS
<1> HIDE DEF g
<1>6. \A a \in Nat, i \in 1 .. n : g[<<a, i>>] \in Nat
  <2> DEFINE w(i) == number[i] * place[n - i]
  <2>1. \A i \in 1 .. n : w(i) \in Nat
    BY <1>4
  <2>2. \A a \in Nat, i \in 1 .. n : g[<<a, i>>] = a + w(i)
    BY <1>5
  <2> HIDE DEF w
  <2>3. \A a, b \in Nat : a + b \in Nat
    OBVIOUS
  <2>4. QED
    BY <2>1, <2>2, <2>3
<1>7. PICK f \in [0 .. n -> Nat] : Follows(f, n, 0, g)
  BY <1>1, <1>6, RecursionExists
<1>8. f = [i \in 0 .. n |-> IF i = 0 THEN 0 ELSE f[i - 1] + number[i] * place[n - i]]
  <2>1. \A i \in 1 .. n : f[i - 1] \in Nat
    <3>1. \A i \in 1 .. n : i - 1 \in 0 .. n
      BY <1>1
    <3>2. QED
      BY <1>7, <3>1
  <2>2. f[0] = 0 /\ \A i \in 1 .. n : f[i] = f[i - 1] + number[i] * place[n - i]
    BY <1>5, <1>7, <2>1 DEF Follows
  <2>3. \A i \in 0 .. n : i = 0 \/ i \in 1 .. n
    BY <1>1
  <2>4. \A i \in 0 .. n : f[i] = IF i = 0 THEN 0 ELSE f[i - 1] + number[i] * place[n - i]
    BY <2>2, <2>3
  <2>5. QED
    BY <1>7, <2>4
<1>9. sum = [i \in 0 .. n |-> IF i = 0 THEN 0 ELSE sum[i - 1] + number[i] * place[n - i]]
  BY <1>8
<1> HIDE DEF sum
<1>10. sum[0] = 0 /\ \A i \in 1 .. n : sum[i] = sum[i - 1] + number[i] * place[n - i]
  <2>1. 0 \in 0 .. n /\ \A i \in 1 .. n : i \in 0 .. n /\ i # 0
    BY <1>1
  <2>2. QED
    BY <1>9, <2>1
<1> DEFINE T == {i \in Nat : i <= n => sum[i] = v[i] * place[n - i]}
<1>11. 0 \in T
  <2>1. v[0] = 0 /\ n - 0 \in 0 .. n
    BY <1>1 DEF Unwrapped
  <2>2. place[n - 0] \in Nat
    BY <1>3, <2>1
  <2>3. sum[0] = v[0] * place[n - 0]
    BY <1>10, <2>1, <2>2
  <2>4. QED
    BY <2>3
<1>12. ASSUME NEW i \in Nat, i \in T, i + 1 <= n
       PROVE  sum[i + 1] = v[i + 1] * place[n - (i + 1)]
  <2> DEFINE d == number[i + 1]
             p == place[n - (i + 1)]
  <2>1. i \in 0 .. n /\ i <= n /\ i + 1 \in 1 .. n /\ (i + 1) - 1 = i
        /\ n - (i + 1) \in 0 .. n /\ n - i \in 1 .. n /\ (n - i) - 1 = n - (i + 1)
    BY <1>1, <1>12
  <2>2. v[i] \in Nat /\ d \in Nat /\ p \in Nat
    BY <1>1, <1>3, <2>1 DEF n
  <2>3. v[i + 1] = v[i] * 10 + d
    BY <2>1 DEF Unwrapped, n
  <2>4. place[n - i] = 10 * p
    BY <1>3, <2>1
  <2>5. sum[i] = v[i] * place[n - i]
    BY <1>12, <2>1
  <2>6. sum[i + 1] = sum[i] + d * p
    BY <1>10, <2>1
  <2> HIDE DEF d, p
  <2>7. \A a, b, c \in Nat : a * (10 * c) + b * c = (a * 10 + b) * c
    BY Z3
  <2>8. v[i] * (10 * p) + d * p = (v[i] * 10 + d) * p
    BY <2>2, <2>7
  <2>9. QED
    BY <2>3, <2>4, <2>5, <2>6, <2>8 DEF p
<1>13. \A i \in Nat : i \in T => i + 1 \in T
  BY <1>12
<1> HIDE DEF T
<1>14. \A i \in Nat : i \in T
  BY <1>11, <1>13, SetInduction
<1>15. sum[n] = v[n] * place[n - n]
  BY <1>1, <1>14 DEF T
<1>16. v[n] \in Nat /\ n - n = 0
  BY <1>1 DEF n
<1>17. QED
  BY <1>2, <1>3, <1>15, <1>16 DEF n

\* A --blob asks for the number of bytes that docs/CLI.md gives it, unless the number
\* of its bits is too large for the parser's 64 bits.
THEOREM ParsedAsDocumented ==
  \A b \in Strings :
    ~Malformed(b) /\ DocumentedBits(b) < Word => blob_bytes_from_string(b) = DocumentedSize(b)
<1> SUFFICES ASSUME NEW b \in Strings, DocumentedBits(b) < Word
             PROVE  blob_bytes_from_string(b) = DocumentedSize(b)
  OBVIOUS
<1> DEFINE number == b.number
           m == Multiplier(b)
<1>1. number \in Seq(Nat)
  BY DEF Strings
<1>2. m \in Nat \ {0}
  BY MultiplierType
<1>3. Word \in Nat \ {0}
  BY BlobAssumption
<1>4. Len(number) \in 0 .. Len(number)
  BY <1>1
<1> HIDE DEF number
<1>5. PICK v \in [0 .. Len(number) -> Nat] : Unwrapped(v, number)
  BY <1>1, UnwrappedExists
<1> DEFINE N == v[Len(number)]
<1>6. N \in Nat
  BY <1>4, <1>5
<1>7. DecimalNumber(number) = N
  BY <1>1, <1>5, SumOfPlaces
<1>8. DocumentedBits(b) = N * m
  BY <1>7 DEF DocumentedBits, number
<1> HIDE DEF m
<1>9. \A a \in Nat, c \in Nat \ {0} : a <= a * c /\ a * c \in Nat
  BY Z3
<1>10. N * m \in Nat /\ N * m < Word /\ N < Word
  <2> HIDE DEF N
  <2>1. N <= N * m /\ N * m \in Nat
    BY <1>2, <1>6, <1>9
  <2>2. QED
    BY <1>3, <1>6, <1>8, <2>1
<1>11. ParsedNumber(number) = N
  BY <1>1, <1>5, <1>10, ParsesWhatFits
<1> HIDE DEF N
<1>12. (N * m) % Word = N * m
  <2>1. \A a \in Nat : a < Word => a % Word = a
    BY <1>3, Z3
  <2>2. QED
    BY <1>10, <2>1
<1>13. QED
  BY <1>8, <1>11, <1>12 DEF blob_bytes_from_string, DocumentedSize, number, m

LEMMA RequestBound ==
  \A b \in Strings : ~Malformed(b) => blob_bytes_from_string(b) \in 0 .. Word \div 8
<1> SUFFICES ASSUME NEW b \in Strings PROVE blob_bytes_from_string(b) \in 0 .. Word \div 8
  OBVIOUS
<1>1. b.number \in Seq(Nat) /\ Word \in Nat \ {0}
  BY BlobAssumption DEF Strings
<1>2. ParsedNumber(b.number) \in Nat
  BY <1>1, ParsedType
<1>3. \A a, c \in Nat : (a * c) % Word \in 0 .. Word
  <2>1. \A a \in Nat : a % Word \in 0 .. Word
    BY <1>1, Z3
  <2>2. \A a, c \in Nat : a * c \in Nat
    OBVIOUS
  <2>3. QED
    BY <2>1, <2>2
<1>4. (ParsedNumber(b.number) * Multiplier(b)) % Word \in 0 .. Word
  BY <1>2, <1>3, MultiplierType
<1>5. \A a \in 0 .. Word : a \div 8 \in 0 .. Word \div 8
  BY <1>1, Z3
<1>6. QED
  BY <1>4, <1>5 DEF blob_bytes_from_string

-----------------------------------------------------------------------------
(***************************************************************************)
(* The inductive invariant.                                                *)
(***************************************************************************)

\* The mutex is held by the thread whose step says so.
LockInv ==
  /\ mutex = "main" <=> main = "check"
  /\ mutex = "worker" <=> worker \in {"set", "notify", "unlock"}

\* finish() runs after the connection is closed and before run_client can see done and
\* take the lock.
DoneInv ==
  /\ worker # "idle" \/ done = TRUE => connection = "closed"
  /\ worker \in {"lock", "set"} => done = FALSE
  /\ main = "start" => connection = "none"
  /\ main = "returned" <=> exit # 2
  /\ StateOutlivesCallbacks

\* There is a stream only in a connected connection, and a request in the streams that
\* are not being shut down.
StreamInv ==
  /\ connection = "none" => conn = "starting"
  /\ conn = "starting" => stream = "none" /\ written = FALSE
  /\ connection = "closed" => stream # "open"
  /\ stream # "complete"
  /\ stream = "open" /\ shutdown = FALSE => written = TRUE

\* What is requested and what comes back.
BytesInv ==
  /\ connection = "open" \/ written = TRUE =>
       ~Malformed(blob) /\ requested = blob_bytes_from_string(blob)
  /\ written = FALSE => sent = 0 /\ received = 0
  /\ received <= sent
  /\ ok = TRUE =>
       /\ written = TRUE /\ sentFin = TRUE
       /\ received = requested /\ received = sent

IInv == TypeOK /\ LockInv /\ DoneInv /\ StreamInv /\ BytesInv

LEMMA InitInv == Init => IInv
<1> SUFFICES ASSUME Init PROVE IInv
  OBVIOUS
<1>1. TypeOK
  <2>1. 0 \in 0 .. Word \div 8
    BY BlobAssumption, Z3
  <2>2. requested \in 0 .. Word \div 8 /\ received \in 0 .. reply
        /\ reply \in Replies /\ sent \in 0 .. reply
    BY <2>1, RepliesAssumption DEF Init
  <2>3. {ok, done, notified, shutdown, aborted, written, finished, sentFin} \subseteq BOOLEAN
    BY DEF Init
  <2>4. QED
    BY <2>2, <2>3 DEF Init, TypeOK
<1>2. LockInv /\ StreamInv /\ BytesInv
  BY DEF Init, LockInv, StreamInv, BytesInv
<1>3. DoneInv
  BY DEF Init, DoneInv, StateOutlivesCallbacks
<1>4. QED
  BY <1>1, <1>2, <1>3 DEF IInv

LEMMA Bounds ==
  ASSUME TypeOK
  PROVE  /\ requested \in Nat /\ received \in Nat /\ reply \in Nat /\ sent \in Nat
         /\ received <= reply /\ sent <= reply
<1>1. Word \div 8 \in Nat
  BY BlobAssumption, Z3
<1>2. QED
  BY <1>1, RepliesAssumption DEF TypeOK

-----------------------------------------------------------------------------
(***************************************************************************)
(* The steps of run_client.                                                *)
(***************************************************************************)
LEMMA StartStep ==
  ASSUME IInv, Start
  PROVE  IInv'
<1>1. UNCHANGED <<blob, exit, worker, received, ok, done, lockVars, stream, libVars, serverVars>>
      /\ main = "start" /\ main' = "lock" /\ connection' = "open"
      /\ ~Malformed(blob) /\ requested' = blob_bytes_from_string(blob)
  BY DEF Start
<1>2. connection = "none" /\ conn = "starting" /\ stream = "none" /\ written = FALSE
      /\ worker = "idle" /\ exit = 2
  BY <1>1 DEF IInv, DoneInv, StreamInv
<1>3. sent = 0 /\ received = 0 /\ ok = FALSE /\ done = FALSE
  <2>1. {ok, done} \subseteq BOOLEAN
    BY DEF IInv, TypeOK
  <2>2. sent = 0 /\ received = 0 /\ ok # TRUE /\ done # TRUE
    BY <1>2 DEF IInv, BytesInv, DoneInv
  <2>3. QED
    BY <2>1, <2>2
<1>4. requested' \in 0 .. Word \div 8
  BY <1>1, RequestBound, BlobsAssumption DEF IInv, TypeOK
<1>5. TypeOK'
  BY <1>1, <1>4 DEF IInv, TypeOK, lockVars, libVars, serverVars
<1>6. LockInv'
  BY <1>1 DEF IInv, LockInv, lockVars
<1>7. DoneInv'
  BY <1>1, <1>2, <1>3 DEF DoneInv, StateOutlivesCallbacks
<1>8. StreamInv'
  BY <1>1, <1>2 DEF StreamInv, libVars
<1>9. BytesInv'
  <2>1. ~Malformed(blob)' /\ requested' = blob_bytes_from_string(blob)'
    BY <1>1
  <2>2. sent' = 0 /\ received' = 0 /\ ok' = FALSE
    BY <1>1, <1>3 DEF serverVars
  <2>3. QED
    BY <2>1, <2>2 DEF BytesInv
<1>10. QED
  BY <1>5, <1>6, <1>7, <1>8, <1>9 DEF IInv

LEMMA StartFailsStep ==
  ASSUME IInv, StartFails
  PROVE  IInv'
<1>1. UNCHANGED <<blob, worker, stateVars, lockVars, stream, libVars, serverVars>>
      /\ main = "start" /\ main' = "returned" /\ exit' = 1 /\ connection' \in {"none", "closed"}
  BY DEF StartFails
<1>2. connection = "none" /\ conn = "starting" /\ stream = "none" /\ written = FALSE
      /\ worker = "idle"
  BY <1>1 DEF IInv, DoneInv, StreamInv
<1>3. done = FALSE
  <2>1. done \in BOOLEAN
    BY DEF IInv, TypeOK
  <2>2. done # TRUE
    BY <1>2 DEF IInv, DoneInv
  <2>3. QED
    BY <2>1, <2>2
<1>4. TypeOK'
  BY <1>1 DEF IInv, TypeOK, stateVars, lockVars, libVars, serverVars
<1>5. LockInv'
  BY <1>1 DEF IInv, LockInv, lockVars
<1>6. DoneInv'
  <2>1. worker' = "idle" /\ done' = FALSE /\ connection' # "open" /\ main' = "returned" /\ exit' = 1
    BY <1>1, <1>2, <1>3 DEF stateVars
  <2>2. QED
    BY <2>1 DEF DoneInv, StateOutlivesCallbacks
<1>7. StreamInv'
  BY <1>1, <1>2 DEF StreamInv, libVars
<1>8. BytesInv'
  BY <1>1, <1>2 DEF IInv, BytesInv, libVars, stateVars, serverVars
<1>9. QED
  BY <1>4, <1>5, <1>6, <1>7, <1>8 DEF IInv

LEMMA PortInvalidStep ==
  ASSUME IInv, PortInvalid
  PROVE  IInv'
<1>1. UNCHANGED <<blob, exit, worker, stateVars, lockVars, handleVars, libVars, serverVars>>
      /\ main = "start" /\ main' = "killed"
  BY DEF PortInvalid
<1>2. TypeOK'
  BY <1>1 DEF IInv, TypeOK, stateVars, lockVars, handleVars, libVars, serverVars
<1>3. LockInv' /\ StreamInv'
  BY <1>1 DEF IInv, LockInv, StreamInv, lockVars, handleVars, libVars
<1>4. DoneInv'
  BY <1>1 DEF IInv, DoneInv, StateOutlivesCallbacks, stateVars, handleVars
<1>5. BytesInv'
  BY <1>1 DEF IInv, BytesInv, stateVars, handleVars, libVars, serverVars
<1>6. QED
  BY <1>2, <1>3, <1>4, <1>5 DEF IInv

\* The waiting: only the lock and the place in run_client change.
LEMMA WaitStep ==
  ASSUME IInv, MainLocks \/ MainSleeps \/ (\E spurious \in BOOLEAN : MainWakes(spurious))
  PROVE  IInv'
<1>1. UNCHANGED <<blob, exit, worker, stateVars, handleVars, libVars, serverVars>>
  BY DEF MainLocks, MainSleeps, MainWakes, lockVars
<1>2. main \in {"lock", "check", "sleep"} /\ main' \in {"lock", "check", "sleep"}
  BY DEF MainLocks, MainSleeps, MainWakes
<1>3. TypeOK'
  <2>1. mutex' \in {"free", "main", "worker"} /\ notified' \in BOOLEAN
    BY DEF MainLocks, MainSleeps, MainWakes, lockVars, IInv, TypeOK
  <2>2. QED
    BY <1>1, <1>2, <2>1 DEF IInv, TypeOK, stateVars, handleVars, libVars, serverVars
<1>4. LockInv'
  BY <1>1 DEF MainLocks, MainSleeps, MainWakes, lockVars, IInv, LockInv
<1>5. DoneInv'
  BY <1>1, <1>2 DEF IInv, DoneInv, StateOutlivesCallbacks, stateVars, handleVars
<1>6. StreamInv' /\ BytesInv'
  BY <1>1 DEF IInv, StreamInv, BytesInv, stateVars, handleVars, libVars, serverVars
<1>7. QED
  BY <1>3, <1>4, <1>5, <1>6 DEF IInv

\* run_client holds the lock and sees done, so finish() has released it.
LEMMA MainReturnsStep ==
  ASSUME IInv, MainReturns
  PROVE  IInv'
<1>1. UNCHANGED <<blob, worker, stateVars, notified, handleVars, libVars, serverVars>>
      /\ main = "check" /\ main' = "returned" /\ mutex' = "free" /\ exit' \in {0, 1} /\ done
  BY DEF MainReturns, MustSleep
<1>2. mutex = "main" /\ done = TRUE
  BY <1>1 DEF IInv, LockInv, TypeOK
<1>3. worker = "idle" /\ connection = "closed"
  BY <1>2 DEF IInv, TypeOK, LockInv, DoneInv
<1>4. TypeOK'
  BY <1>1 DEF IInv, TypeOK, stateVars, handleVars, libVars, serverVars
<1>5. LockInv'
  BY <1>1, <1>3 DEF LockInv
<1>6. DoneInv'
  BY <1>1, <1>3 DEF DoneInv, StateOutlivesCallbacks, handleVars
<1>7. StreamInv' /\ BytesInv'
  BY <1>1 DEF IInv, StreamInv, BytesInv, stateVars, handleVars, libVars, serverVars
<1>8. QED
  BY <1>4, <1>5, <1>6, <1>7 DEF IInv

-----------------------------------------------------------------------------
(***************************************************************************)
(* The callbacks.                                                          *)
(***************************************************************************)

\* While callbacks come, run_client has not returned.
LEMMA CallbackState ==
  ASSUME IInv, Callback
  PROVE  /\ worker = "idle" /\ connection = "open" /\ done = FALSE /\ exit = 2
         /\ main \notin {"start", "returned"}
<1>1. worker = "idle" /\ connection = "open"
  BY DEF Callback
<1>2. done = FALSE
  <2>1. done \in BOOLEAN
    BY DEF IInv, TypeOK
  <2>2. done # TRUE
    BY <1>1 DEF IInv, DoneInv
  <2>3. QED
    BY <2>1, <2>2
<1>3. main \notin {"start", "returned"}
  BY <1>1 DEF IInv, DoneInv, StateOutlivesCallbacks
<1>4. QED
  BY <1>1, <1>2, <1>3 DEF IInv, DoneInv

\* A stream that is not being shut down carries the request.
LEMMA StreamEventsState ==
  ASSUME IInv, StreamEvents
  PROVE  Callback /\ written = TRUE /\ stream = "open" /\ shutdown = FALSE
<1>1. Callback /\ stream = "open" /\ shutdown = FALSE
  <2>1. shutdown \in BOOLEAN
    BY DEF IInv, TypeOK
  <2>2. QED
    BY <2>1 DEF StreamEvents
<1>2. QED
  BY <1>1 DEF IInv, StreamInv

LEMMA ConnectedStep ==
  ASSUME IInv, Connected
  PROVE  IInv'
<1>1. UNCHANGED <<mainVars, worker, stateVars, lockVars, connection, finished, serverVars>>
      /\ Callback /\ conn = "starting" /\ conn' = "connected"
  BY DEF Connected
<1>2. \/ stream' = "open" /\ written' = TRUE /\ UNCHANGED <<shutdown, aborted>>
      \/ stream' \in {"none", "closed"} /\ shutdown' = TRUE /\ UNCHANGED <<written, aborted>>
      \/ stream' = "open" /\ shutdown' = TRUE /\ aborted' = TRUE /\ UNCHANGED written
  BY DEF Connected
<1>3. connection = "open" /\ written = FALSE
  BY <1>1, CallbackState DEF IInv, StreamInv
<1>4. TypeOK'
  <2>1. stream' \in {"none", "open", "closed"} /\ {shutdown', aborted', written'} \subseteq BOOLEAN
    BY <1>2 DEF IInv, TypeOK
  <2>2. QED
    BY <1>1, <2>1 DEF IInv, TypeOK, mainVars, stateVars, lockVars, serverVars
<1>5. LockInv'
  BY <1>1 DEF IInv, LockInv, mainVars, lockVars
<1>6. DoneInv'
  BY <1>1 DEF IInv, DoneInv, StateOutlivesCallbacks, mainVars, stateVars
<1>7. StreamInv'
  BY <1>1, <1>2, <1>3 DEF StreamInv
<1>8. BytesInv'
  <2>1. ~Malformed(blob)' /\ requested' = blob_bytes_from_string(blob)'
    BY <1>1, <1>3 DEF IInv, BytesInv, mainVars, stateVars
  <2>2. sent' = 0 /\ received' = 0 /\ ok' = FALSE
    <3>1. ok \in BOOLEAN
      BY DEF IInv, TypeOK
    <3>2. sent = 0 /\ received = 0 /\ ok # TRUE
      BY <1>3 DEF IInv, BytesInv
    <3>3. QED
      BY <1>1, <3>1, <3>2 DEF stateVars, serverVars
  <2>3. QED
    BY <2>1, <2>2 DEF BytesInv
<1>9. QED
  BY <1>4, <1>5, <1>6, <1>7, <1>8 DEF IInv

LEMMA ReceiveStep ==
  ASSUME IInv, Receive
  PROVE  IInv'
<1>1. UNCHANGED <<mainVars, worker, requested, ok, done, lockVars, handleVars, libVars, serverVars>>
      /\ StreamEvents
  BY DEF Receive
<1>2. PICK n \in 1 .. sent - received : received' = received + n
  BY DEF Receive, Added
<1>3. requested \in Nat /\ received \in Nat /\ reply \in Nat /\ sent \in Nat
      /\ received <= reply /\ sent <= reply
  BY Bounds DEF IInv
<1>4. received' \in Nat /\ received < received' /\ received' <= sent
  BY <1>2, <1>3
<1>5. TypeOK'
  <2>1. received' \in 0 .. reply
    BY <1>3, <1>4
  <2>2. QED
    BY <1>1, <2>1 DEF IInv, TypeOK, mainVars, lockVars, handleVars, libVars, serverVars
<1>6. LockInv' /\ StreamInv'
  BY <1>1 DEF IInv, LockInv, StreamInv, mainVars, lockVars, handleVars, libVars
<1>7. DoneInv'
  BY <1>1 DEF IInv, DoneInv, StateOutlivesCallbacks, mainVars, handleVars
<1>8. BytesInv'
  <2>1. ~Malformed(blob)' /\ requested' = blob_bytes_from_string(blob)' /\ written' = TRUE
    BY <1>1, StreamEventsState DEF IInv, BytesInv, mainVars, libVars
  <2>2. received' <= sent'
    BY <1>1, <1>4 DEF serverVars
  <2>3. ok' = FALSE
    <3>1. ok \in BOOLEAN
      BY DEF IInv, TypeOK
    <3>2. ok # TRUE
      <4>1. received # sent
        BY <1>3, <1>4
      <4>2. QED
        BY <4>1 DEF IInv, BytesInv
    <3>3. QED
      BY <1>1, <3>1, <3>2
  <2>4. QED
    BY <2>1, <2>2, <2>3 DEF BytesInv
<1>9. QED
  BY <1>5, <1>6, <1>7, <1>8 DEF IInv

LEMMA PeerSendShutdownStep ==
  ASSUME IInv, PeerSendShutdown
  PROVE  IInv'
<1>1. UNCHANGED <<mainVars, worker, requested, received, done, lockVars, handleVars,
                  conn, shutdown, aborted, written, serverVars>>
      /\ StreamEvents /\ finished' = TRUE /\ ok' = (received = requested)
      /\ sentFin = TRUE /\ received = sent
  <2>1. sentFin \in BOOLEAN
    BY DEF IInv, TypeOK
  <2>2. QED
    BY <2>1 DEF PeerSendShutdown, Complete
<1>2. TypeOK'
  <2>1. ok' \in BOOLEAN /\ finished' \in BOOLEAN
    BY <1>1
  <2>2. QED
    BY <1>1, <2>1 DEF IInv, TypeOK, mainVars, lockVars, handleVars, serverVars
<1>3. LockInv' /\ StreamInv'
  BY <1>1 DEF IInv, LockInv, StreamInv, mainVars, lockVars, handleVars
<1>4. DoneInv'
  BY <1>1 DEF IInv, DoneInv, StateOutlivesCallbacks, mainVars, handleVars
<1>5. BytesInv'
  <2>1. ~Malformed(blob)' /\ requested' = blob_bytes_from_string(blob)' /\ written' = TRUE
    BY <1>1, StreamEventsState DEF IInv, BytesInv, mainVars
  <2>2. received' <= sent'
    BY <1>1 DEF IInv, BytesInv, serverVars
  <2>3. ok' = TRUE => received' = requested' /\ received' = sent' /\ sentFin' = TRUE
    BY <1>1 DEF serverVars
  <2>4. QED
    BY <2>1, <2>2, <2>3 DEF BytesInv
<1>6. QED
  BY <1>2, <1>3, <1>4, <1>5 DEF IInv

\* The end of the stream, of the connection, and what the server and the transport do.
LEMMA ShutdownSteps ==
  ASSUME IInv,
         \/ StreamShutdownComplete \/ TransportShutdown
         \/ ConnectionShutdownComplete \/ PeerAborts
  PROVE  IInv'
<1>1. UNCHANGED <<mainVars, stateVars, lockVars, written, finished, serverVars>>
  BY DEF StreamShutdownComplete, TransportShutdown, ConnectionShutdownComplete, PeerAborts,
         libVars, handleVars
<1>2. TypeOK'
  <2>1. /\ worker' \in {"idle", "lock", "set", "notify", "unlock"}
        /\ connection' \in {"none", "open", "closed"}
        /\ stream' \in {"none", "open", "complete", "closed"}
        /\ conn' \in {"starting", "connected", "down"}
    BY DEF StreamShutdownComplete, TransportShutdown, ConnectionShutdownComplete, PeerAborts,
           libVars, handleVars, StreamAfterwards, IInv, TypeOK
  <2>2. {shutdown', aborted'} \subseteq BOOLEAN
    BY DEF StreamShutdownComplete, TransportShutdown, ConnectionShutdownComplete, PeerAborts,
           libVars, IInv, TypeOK
  <2>3. QED
    BY <1>1, <2>1, <2>2 DEF IInv, TypeOK, mainVars, stateVars, lockVars, serverVars
<1>3. CASE ConnectionShutdownComplete
  <2>1. worker = "idle" /\ worker' = "lock" /\ connection = "open" /\ connection' = "closed"
        /\ stream # "open" /\ UNCHANGED <<stream, libVars>>
    BY <1>3 DEF ConnectionShutdownComplete, Callback
  <2>2. done = FALSE /\ main \notin {"start", "returned"}
    BY <1>3, CallbackState DEF ConnectionShutdownComplete
  <2>3. LockInv'
    BY <1>1, <2>1 DEF IInv, LockInv, mainVars, lockVars
  <2>4. DoneInv'
    BY <1>1, <2>1, <2>2 DEF IInv, DoneInv, StateOutlivesCallbacks, mainVars, stateVars
  <2>5. StreamInv' /\ BytesInv'
    BY <1>1, <2>1 DEF IInv, StreamInv, BytesInv, mainVars, stateVars, libVars, serverVars
  <2>6. QED
    BY <1>2, <2>3, <2>4, <2>5 DEF IInv
<1>4. CASE StreamShutdownComplete \/ TransportShutdown \/ PeerAborts
  <2>1. UNCHANGED <<worker, connection>>
    BY <1>4 DEF StreamShutdownComplete, TransportShutdown, PeerAborts, handleVars
  <2>2. LockInv'
    BY <1>1, <2>1 DEF IInv, LockInv, mainVars, lockVars
  <2>3. DoneInv'
    BY <1>1, <2>1 DEF IInv, DoneInv, StateOutlivesCallbacks, mainVars, stateVars
  <2>4. BytesInv'
    BY <1>1, <2>1 DEF IInv, BytesInv, mainVars, stateVars, serverVars
  <2>5. StreamInv'
    <3>1. CASE StreamShutdownComplete
      <4>1. stream = "open" /\ stream' = "closed" /\ UNCHANGED conn
        BY <3>1 DEF StreamShutdownComplete, StreamAfterwards
      <4>2. QED
        BY <1>1, <2>1, <4>1 DEF IInv, StreamInv
    <3>2. CASE TransportShutdown
      <4>1. UNCHANGED <<stream, shutdown>> /\ conn' = "down" /\ connection = "open"
        BY <3>2 DEF TransportShutdown, handleVars, Callback
      <4>2. QED
        BY <1>1, <2>1, <4>1 DEF IInv, StreamInv
    <3>3. CASE PeerAborts
      <4>1. UNCHANGED <<stream, shutdown, conn>>
        BY <3>3 DEF PeerAborts, handleVars
      <4>2. QED
        BY <1>1, <2>1, <4>1 DEF IInv, StreamInv
    <3>4. QED
      BY <1>4, <3>1, <3>2, <3>3
  <2>6. QED
    BY <1>2, <2>2, <2>3, <2>4, <2>5 DEF IInv
<1>5. QED
  BY <1>3, <1>4

\* finish(): only the lock, done and the notification change.
LEMMA FinishStep ==
  ASSUME IInv, Finish
  PROVE  IInv'
<1>1. UNCHANGED <<mainVars, requested, received, ok, handleVars, libVars, serverVars>>
  BY DEF Finish, WorkerLocks, WorkerSets, WorkerNotifies, WorkerUnlocks, stateVars
<1>2. worker # "idle" /\ connection = "closed"
  BY DEF Finish, WorkerLocks, WorkerSets, WorkerNotifies, WorkerUnlocks, IInv, DoneInv
<1>3. TypeOK'
  <2>1. /\ worker' \in {"idle", "lock", "set", "notify", "unlock"}
        /\ mutex' \in {"free", "main", "worker"}
    BY DEF Finish, WorkerLocks, WorkerSets, WorkerNotifies, WorkerUnlocks, lockVars, IInv, TypeOK
  <2>2. done' \in BOOLEAN /\ notified' \in BOOLEAN
    BY DEF Finish, WorkerLocks, WorkerSets, WorkerNotifies, WorkerUnlocks, lockVars, stateVars,
           IInv, TypeOK
  <2>3. QED
    BY <1>1, <2>1, <2>2 DEF IInv, TypeOK, mainVars, handleVars, libVars, serverVars
<1>4. LockInv'
  BY <1>1 DEF Finish, WorkerLocks, WorkerSets, WorkerNotifies, WorkerUnlocks, lockVars, mainVars,
              IInv, LockInv
<1>5. DoneInv'
  <2>1. main \notin {"start", "returned"}
    BY <1>2 DEF IInv, DoneInv, StateOutlivesCallbacks
  <2>2. worker' \in {"lock", "set"} => done' = FALSE
    BY DEF Finish, WorkerLocks, WorkerSets, WorkerNotifies, WorkerUnlocks, stateVars, IInv, DoneInv
  <2>3. QED
    BY <1>1, <1>2, <2>1, <2>2 DEF IInv, DoneInv, StateOutlivesCallbacks, mainVars, handleVars
<1>6. StreamInv' /\ BytesInv'
  BY <1>1 DEF IInv, StreamInv, BytesInv, mainVars, handleVars, libVars, serverVars
<1>7. QED
  BY <1>3, <1>4, <1>5, <1>6 DEF IInv

LEMMA RespondStep ==
  ASSUME IInv, NEW n \in sent .. reply, NEW fin \in BOOLEAN, Respond(n, fin)
  PROVE  IInv'
<1>1. UNCHANGED <<mainVars, worker, stateVars, lockVars, handleVars, libVars, reply>>
      /\ sent' = n /\ sentFin' = fin /\ written = TRUE /\ sentFin = FALSE
  <2>1. {written, sentFin} \subseteq BOOLEAN
    BY DEF IInv, TypeOK
  <2>2. QED
    BY <2>1 DEF Respond
<1>2. requested \in Nat /\ received \in Nat /\ reply \in Nat /\ sent \in Nat
      /\ received <= sent /\ sent <= reply
  BY Bounds DEF IInv, BytesInv
<1>3. n \in 0 .. reply /\ received <= n
  BY <1>2
<1>4. TypeOK'
  BY <1>1, <1>3 DEF IInv, TypeOK, mainVars, stateVars, lockVars, handleVars, libVars
<1>5. LockInv' /\ StreamInv'
  BY <1>1 DEF IInv, LockInv, StreamInv, mainVars, lockVars, handleVars, libVars
<1>6. DoneInv'
  BY <1>1 DEF IInv, DoneInv, StateOutlivesCallbacks, mainVars, stateVars, handleVars
<1>7. BytesInv'
  BY <1>1, <1>3 DEF IInv, BytesInv, mainVars, stateVars, handleVars, libVars
<1>8. QED
  BY <1>4, <1>5, <1>6, <1>7 DEF IInv

LEMMA StepInv == IInv /\ [Next]_vars => IInv'
<1> SUFFICES ASSUME IInv, [Next]_vars PROVE IInv'
  OBVIOUS
<1>1. CASE MainThread \/ StartFails \/ PortInvalid \/ MainWakes(TRUE)
  BY <1>1, StartStep, StartFailsStep, PortInvalidStep, WaitStep, MainReturnsStep DEF MainThread
<1>2. CASE Callbacks \/ TransportShutdown \/ PeerAborts
  BY <1>2, ConnectedStep, ReceiveStep, PeerSendShutdownStep, ShutdownSteps DEF Callbacks
<1>3. CASE Finish
  BY <1>3, FinishStep
<1>4. CASE \E n \in sent .. reply, fin \in BOOLEAN : Respond(n, fin)
  BY <1>4, RespondStep
<1>5. CASE UNCHANGED vars
  <2>1. TypeOK' /\ LockInv' /\ StreamInv'
    BY <1>5 DEF vars, mainVars, stateVars, lockVars, handleVars, libVars, serverVars,
                IInv, TypeOK, LockInv, StreamInv
  <2>2. DoneInv' /\ BytesInv'
    BY <1>5 DEF vars, mainVars, stateVars, lockVars, handleVars, libVars, serverVars,
                IInv, DoneInv, StateOutlivesCallbacks, BytesInv
  <2>3. QED
    BY <2>1, <2>2 DEF IInv
<1>6. QED
  BY <1>1, <1>2, <1>3, <1>4, <1>5 DEF Next

LEMMA Invariance == Spec => []IInv
BY InitInv, StepInv, PTL DEF Spec

-----------------------------------------------------------------------------
(***************************************************************************)
(* The theorems.                                                           *)
(***************************************************************************)

\* The threads, ClientState, the handles and the library keep their types: received
\* never passes what the server has sent.
THEOREM TypeCorrect == Spec => []TypeOK
<1>1. IInv => TypeOK
  BY DEF IInv
<1>2. QED
  BY <1>1, Invariance, PTL

\* ClientState, which is on run_client's stack, is gone only when no callback runs or
\* can come: the lock that finish() notifies under, and the order of its callbacks.
THEOREM StateLives == Spec => []StateOutlivesCallbacks
<1>1. IInv => StateOutlivesCallbacks
  BY DEF IInv, DoneInv
<1>2. QED
  BY <1>1, Invariance, PTL

\* When run_client returns, successful or not, its connection and stream are closed.
THEOREM AllClosed == Spec => []NothingLeftOpen
<1>1. ASSUME IInv PROVE NothingLeftOpen
  <2> SUFFICES ASSUME main = "returned"
               PROVE  connection # "open" /\ stream \in {"none", "closed"}
    BY DEF NothingLeftOpen
  <2>1. connection \in {"none", "closed"}
    BY <1>1 DEF IInv, TypeOK, DoneInv, StateOutlivesCallbacks
  <2>2. stream \in {"none", "closed"}
    BY <1>1, <2>1 DEF IInv, TypeOK, StreamInv
  <2>3. QED
    BY <2>1, <2>2
<1>2. QED
  BY <1>1, Invariance, PTL

-----------------------------------------------------------------------------
(***************************************************************************)
(* The refinement of PerfExchange.                                         *)
(***************************************************************************)

\* What a client in an exchange has requested is what the documents say.
LEMMA RequestDocumented ==
  ASSUME IInv, connection = "open" \/ written = TRUE
  PROVE  DocumentedRequest = requested
<1>1. ~Malformed(blob) /\ requested = blob_bytes_from_string(blob)
  BY DEF IInv, BytesInv
<1>2. blob \in Strings
  BY BlobsAssumption DEF IInv, TypeOK
<1>3. CASE DocumentedBits(blob) < Word
  <2>1. blob_bytes_from_string(blob) = DocumentedSize(blob)
    BY <1>1, <1>2, <1>3, ParsedAsDocumented
  <2>2. QED
    BY <1>1, <1>3, <2>1 DEF DocumentedRequest
<1>4. CASE ~(DocumentedBits(blob) < Word)
  BY <1>4 DEF DocumentedRequest
<1>5. QED
  BY <1>3, <1>4

\* After the start, what the request depends on stays.
LEMMA RequestStays == UNCHANGED <<blob, requested>> => DocumentedRequest' = DocumentedRequest
BY DEF DocumentedRequest

LEMMA OverrunStays == UNCHANGED <<requested, received>> => Overrun' = Overrun
BY DEF Overrun

\* Before the request is sent, and in a run that succeeds, nothing is too long.
LEMMA NotOverrun ==
  ASSUME IInv, written = FALSE \/ ok = TRUE
  PROVE  ~Overrun
BY Bounds DEF IInv, BytesInv, Overrun

\* What concerns the handles, the lock and the server is not seen.
LEMMA UnseenSteps ==
  ASSUME IInv, IInv',
         \/ Start \/ StartFails \/ PortInvalid \/ MainLocks \/ MainSleeps
         \/ \E spurious \in BOOLEAN : MainWakes(spurious)
         \/ StreamShutdownComplete \/ PeerSendShutdown \/ ConnectionShutdownComplete
         \/ TransportShutdown \/ Finish \/ PeerAborts
         \/ \E n \in sent .. reply, fin \in BOOLEAN : Respond(n, fin)
         \/ UNCHANGED vars
  PROVE  UNCHANGED Exchange!vars
<1>1. CASE Start \/ StartFails
  <2>1. written = FALSE
    BY <1>1 DEF Start, StartFails, IInv, DoneInv, StreamInv
  <2>2. written' = FALSE /\ received' = received
    BY <1>1, <2>1 DEF Start, StartFails, libVars, stateVars
  <2>3. exit # 0 /\ exit' # 0
    BY <1>1 DEF Start, StartFails, IInv, DoneInv
  <2>4. ~Overrun
    BY <2>1, NotOverrun
  <2>5. ~Overrun'
    <3>1. received' = 0
      BY <2>2 DEF IInv, BytesInv
    <3>2. requested' \in Nat
      <4>1. Word \div 8 \in Nat
        BY BlobAssumption, Z3
      <4>2. QED
        BY <4>1 DEF IInv, TypeOK
    <3>3. QED
      BY <3>1, <3>2 DEF Overrun
  <2>6. QED
    BY <2>1, <2>2, <2>3, <2>4, <2>5 DEF Exchange!vars
<1>2. CASE ~(Start \/ StartFails)
  <2>1. UNCHANGED <<blob, requested, exit, written, received>>
    BY <1>2 DEF PortInvalid, MainLocks, MainSleeps, MainWakes, StreamShutdownComplete,
            PeerSendShutdown, ConnectionShutdownComplete, TransportShutdown, Finish, WorkerLocks,
            WorkerSets, WorkerNotifies, WorkerUnlocks, PeerAborts, Respond, vars, mainVars,
            stateVars, libVars
  <2>2. DocumentedRequest' = DocumentedRequest /\ Overrun' = Overrun
    BY <2>1, RequestStays, OverrunStays
  <2>3. QED
    BY <2>1, <2>2 DEF Exchange!vars
<1>3. QED
  BY <1>1, <1>2

\* The request is handed to the stream when the connection is up.
LEMMA ConnectedSeen ==
  ASSUME IInv, Connected
  PROVE  Exchange!Request("client") \/ UNCHANGED Exchange!vars
<1>1. UNCHANGED <<blob, requested, received, exit>> /\ Callback /\ conn = "starting"
  BY DEF Connected, mainVars, stateVars
<1>2. exit = 2 /\ connection = "open" /\ written = FALSE
      /\ ~Overrun /\ ~Overrun'
  <2>1. exit = 2 /\ connection = "open" /\ written = FALSE
    BY <1>1, CallbackState DEF IInv, StreamInv
  <2>2. ~Overrun
    BY <2>1, NotOverrun
  <2>3. ~Overrun'
    BY <1>1, <2>2 DEF Overrun
  <2>4. QED
    BY <2>1, <2>2, <2>3
<1>3. written' = TRUE \/ written' = FALSE
  BY <1>2 DEF Connected
<1>4. CASE written' = TRUE
  <2>1. DocumentedRequest' \in 0 .. Word \div 8
    <3>1. DocumentedRequest' = requested'
      BY <1>1, <1>2, RequestDocumented, RequestStays
    <3>2. requested' \in 0 .. Word \div 8
      BY <1>1 DEF IInv, TypeOK
    <3>3. QED
      BY <3>1, <3>2
  <2>2. Exchange!Request("client")
    BY <1>1, <1>2, <1>4, <2>1 DEF Exchange!Request
  <2>3. QED
    BY <2>2
<1>5. CASE written' = FALSE
  BY <1>1, <1>2, <1>5 DEF Exchange!vars
<1>6. QED
  BY <1>3, <1>4, <1>5

\* The exchange is open, and run_client has more of the blob or returns 0 with all of it.
LEMMA SeenDeliver ==
  ASSUME UNCHANGED <<blob, requested, written>>, written = TRUE, exit = 2, exit' \in {0, 2},
         ~Overrun, ~Overrun',
         DocumentedRequest = requested, received' \in received .. requested,
         exit' = 0 => received' = requested
  PROVE  Exchange!Deliver("client")
<1> DEFINE p == [c \in {"client"} |->
                   IF ~written THEN "idle"
                   ELSE IF exit = 1 \/ Overrun THEN "lost" ELSE "open"]
           q == [c \in {"client"} |-> IF written THEN DocumentedRequest ELSE 0]
           d == [c \in {"client"} |-> IF Overrun THEN DocumentedRequest ELSE received]
           f == [c \in {"client"} |-> exit = 0]
<1>1. DocumentedRequest' = DocumentedRequest
  BY RequestStays
<1>2. p["client"] = "open" /\ p' = p
  OBVIOUS
<1>3. q["client"] = requested /\ q' = q
  BY <1>1
<1>4. d["client"] = received /\ d' = [d EXCEPT !["client"] = received']
  OBVIOUS
<1>5. ~f["client"]
  <2>1. exit # 0
    OBVIOUS
  <2>2. QED
    BY <2>1, Zenon
<1>6. f' = f \/ (received' = requested /\ f' = [f EXCEPT !["client"] = TRUE])
  <2>1. CASE exit' = 2
    BY <2>1
  <2>2. CASE exit' = 0
    <3>1. f' = [c \in {"client"} |-> TRUE]
      BY <2>2
    <3>2. QED
      BY <2>2, <3>1
  <2>3. QED
    BY <2>1, <2>2
<1>7. QED
  <2>1. /\ p["client"] = "open" /\ ~f["client"]
        /\ \E n \in d["client"] .. q["client"] :
             /\ d' = [d EXCEPT !["client"] = n]
             /\ \/ UNCHANGED f
                \/ n = q["client"] /\ f' = [f EXCEPT !["client"] = TRUE]
        /\ UNCHANGED <<p, q>>
    <3> HIDE DEF p, q, d, f
    <3>1. QED
      BY <1>2, <1>3, <1>4, <1>5, <1>6
  <2>2. QED
    BY <2>1, Zenon DEF Exchange!Deliver

\* The exchange ends unsuccessfully: run_client returns 1, or the response is too long.
LEMMA SeenLose ==
  ASSUME UNCHANGED <<blob, requested, written>>, written = TRUE, exit = 2, exit' \in {1, 2},
         ~Overrun, exit' = 1 \/ Overrun',
         DocumentedRequest = requested,
         NEW n \in received .. requested, n = IF Overrun' THEN requested ELSE received'
  PROVE  Exchange!Lose("client")
<1> DEFINE p == [c \in {"client"} |->
                   IF ~written THEN "idle"
                   ELSE IF exit = 1 \/ Overrun THEN "lost" ELSE "open"]
           q == [c \in {"client"} |-> IF written THEN DocumentedRequest ELSE 0]
           d == [c \in {"client"} |-> IF Overrun THEN DocumentedRequest ELSE received]
           f == [c \in {"client"} |-> exit = 0]
<1>1. DocumentedRequest' = DocumentedRequest
  BY RequestStays
<1>2. p["client"] = "open" /\ p' = [p EXCEPT !["client"] = "lost"]
  OBVIOUS
<1>3. q["client"] = requested /\ q' = q
  BY <1>1
<1>4. d["client"] = received /\ d' = [d EXCEPT !["client"] = n]
  BY <1>1
<1>5. f' = f
  OBVIOUS
<1>6. QED
  <2>1. /\ p["client"] = "open" /\ p' = [p EXCEPT !["client"] = "lost"]
        /\ \E i \in d["client"] .. q["client"] : d' = [d EXCEPT !["client"] = i]
        /\ UNCHANGED <<q, f>>
    <3> HIDE DEF p, q, d, f
    <3>1. QED
      BY <1>2, <1>3, <1>4, <1>5
  <2>2. QED
    BY <2>1, Zenon DEF Exchange!Lose

\* More of the blob, or the byte that is too many.
LEMMA ReceiveSeen ==
  ASSUME IInv, IInv', Receive
  PROVE  \/ Exchange!Deliver("client") \/ Exchange!Lose("client")
         \/ UNCHANGED Exchange!vars
<1>1. UNCHANGED <<blob, requested, exit, written>> /\ written = TRUE /\ exit = 2
  BY StreamEventsState, CallbackState DEF Receive, mainVars, libVars
<1>2. DocumentedRequest' = DocumentedRequest /\ DocumentedRequest = requested
  BY <1>1, RequestStays, RequestDocumented
<1>3. /\ requested \in Nat /\ received \in Nat /\ received' \in Nat
      /\ received <= received'
  <2>1. requested \in Nat /\ received \in Nat /\ sent \in Nat
    BY Bounds DEF IInv
  <2>2. \E n \in 1 .. sent - received : received' = received + n
    BY DEF Receive, Added
  <2>3. QED
    BY <2>1, <2>2
<1>4. (Overrun <=> received > requested) /\ (Overrun' <=> received' > requested)
  BY <1>1 DEF Overrun
<1>5. CASE received' <= requested
  <2>1. ~Overrun /\ ~Overrun' /\ received' \in received .. requested
    BY <1>3, <1>4, <1>5
  <2>2. QED
    BY <1>1, <1>2, <2>1, SeenDeliver
<1>6. CASE received <= requested /\ received' > requested
  <2>1. ~Overrun /\ Overrun' /\ requested \in received .. requested
    BY <1>3, <1>4, <1>6
  <2>2. QED
    BY <1>1, <1>2, <2>1, SeenLose
<1>7. CASE received > requested
  <2>1. Overrun /\ Overrun'
    BY <1>3, <1>4, <1>7
  <2>2. QED
    BY <1>1, <1>2, <2>1 DEF Exchange!vars
<1>8. QED
  BY <1>3, <1>5, <1>6, <1>7

\* run_client returns 0 only to a client that has all that it requested, and no more.
LEMMA MainReturnsSeen ==
  ASSUME IInv, MainReturns
  PROVE  Exchange!Deliver("client") \/ Exchange!Lose("client") \/ UNCHANGED Exchange!vars
<1>1. UNCHANGED <<blob, requested, received, written, ok>> /\ exit' = (IF ok THEN 0 ELSE 1)
      /\ main = "check"
  BY DEF MainReturns, stateVars, libVars
<1>2. exit = 2 /\ ok \in BOOLEAN /\ written \in BOOLEAN
  BY <1>1 DEF IInv, TypeOK, DoneInv
<1>3. DocumentedRequest' = DocumentedRequest /\ Overrun' = Overrun
  BY <1>1, RequestStays, OverrunStays
<1>4. requested \in Nat /\ received \in Nat
  BY Bounds DEF IInv
<1>5. CASE ok = TRUE
  <2>1. written = TRUE /\ received = requested
    BY <1>5 DEF IInv, BytesInv
  <2>2. DocumentedRequest = requested
    BY <2>1, RequestDocumented
  <2>3. exit' = 0 /\ ~Overrun
    BY <1>1, <1>5, NotOverrun
  <2>4. QED
    BY <1>1, <1>2, <1>3, <1>4, <2>1, <2>2, <2>3, SeenDeliver
<1>6. CASE ok = FALSE /\ written = TRUE /\ ~Overrun
  <2>1. DocumentedRequest = requested
    BY <1>6, RequestDocumented
  <2>2. exit' = 1 /\ ~Overrun /\ ~Overrun'
    BY <1>1, <1>3, <1>6
  <2>3. received \in received .. requested /\ received' = received
    BY <1>1, <1>4, <1>6 DEF Overrun
  <2>4. QED
    BY <1>1, <1>2, <1>6, <2>1, <2>2, <2>3, SeenLose
<1>7. CASE ok = FALSE /\ (written = FALSE \/ Overrun)
  <2>1. exit' = 1
    BY <1>1, <1>7
  <2>2. Overrun \in BOOLEAN
    BY DEF Overrun
  <2>3. QED
    BY <1>1, <1>2, <1>3, <1>7, <2>1, <2>2 DEF Exchange!vars
<1>8. QED
  BY <1>2, <1>5, <1>6, <1>7

\* Whatever the threads, the library and the server do between each other's steps, a
\* client is handed the blob that the documents give its --blob, and is told that it
\* succeeded only with all of it and nothing more.
THEOREM Refinement == Spec => ImplementsExchange
<1>1. ASSUME Init PROVE Exchange!Init
  <2>1. written = FALSE /\ exit = 2 /\ received = 0 /\ ~Overrun
    BY <1>1 DEF Init, Overrun
  <2>2. [c \in {"client"} |-> exit = 0] = [c \in {"client"} |-> FALSE]
    <3>1. (exit = 0) = FALSE
      BY <2>1
    <3>2. QED
      BY <3>1, Zenon
  <2>3. QED
    BY <2>1, <2>2 DEF Exchange!Init
<1>2. IInv /\ IInv' /\ [Next]_vars => [Exchange!Next]_Exchange!vars
  <2> SUFFICES ASSUME IInv, IInv', [Next]_vars PROVE [Exchange!Next]_Exchange!vars
    OBVIOUS
  <2>1. Exchange!Request("client") \/ Exchange!Deliver("client") \/ Exchange!Lose("client")
          => Exchange!Next
    BY DEF Exchange!Next
  <2>2. CASE \/ Start \/ StartFails \/ PortInvalid
             \/ MainLocks \/ MainSleeps \/ MainWakes(FALSE) \/ MainWakes(TRUE)
             \/ StreamShutdownComplete \/ PeerSendShutdown \/ ConnectionShutdownComplete
             \/ TransportShutdown \/ Finish \/ PeerAborts
             \/ \E n \in sent .. reply, fin \in BOOLEAN : Respond(n, fin)
             \/ UNCHANGED vars
    BY <2>2, UnseenSteps
  <2>3. CASE Connected \/ Receive \/ MainReturns
    BY <2>1, <2>3, ConnectedSeen, ReceiveSeen, MainReturnsSeen
  <2>4. QED
    BY <2>2, <2>3 DEF Next, MainThread, Callbacks
<1>3. QED
  BY <1>1, <1>2, Invariance, PTL DEF Spec, Exchange!Spec, ImplementsExchange
=============================================================================
