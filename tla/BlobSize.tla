-------------------------------- MODULE BlobSize --------------------------------
(***************************************************************************)
(* The value of --blob as the msquic client parses it                      *)
(* (blob_bytes_from_string, iut/msquic/src/protocol.h), and the size that  *)
(* docs/CLI.md gives it.                                                   *)
(*                                                                         *)
(* A string is a record of its number, a sequence of characters that are   *)
(* digits or 10 for any other; its unit, "" where a digit stands before  *)
(* "bit"; and whether it ends in "bit".                                    *)
(***************************************************************************)
EXTENDS Naturals, Sequences

CONSTANTS
  Kilo,   \* 1000
  Word    \* 2^64, where a uint64_t wraps

ASSUME BlobAssumption == {Kilo, Word} \subseteq Nat \ {0}

Units == {"", "K", "M", "G", "other"}

Strings == [number : Seq(0 .. 10), unit : Units, bit : BOOLEAN]

Multiplier(blob) ==
  CASE blob.unit = "K" -> Kilo
    [] blob.unit = "M" -> Kilo * Kilo
    [] blob.unit = "G" -> Kilo * Kilo * Kilo
    [] OTHER -> 1

Malformed(blob) ==
  \/ ~blob.bit \/ blob.unit = "other"
  \/ blob.number = <<>> \/ \E i \in DOMAIN blob.number : blob.number[i] = 10

\* uint64_t arithmetic.
AppendDigit(n, c) == (n * 10 + c) % Word

\* n after the loop over the digits of a string that is not malformed.
ParsedNumber(number) ==
  LET n[i \in 0 .. Len(number)] == IF i = 0 THEN 0 ELSE AppendDigit(n[i - 1], number[i])
  IN n[Len(number)]

blob_bytes_from_string(blob) ==
  ((ParsedNumber(blob.number) * Multiplier(blob)) % Word) \div 8

-----------------------------------------------------------------------------
\* The digits of a decimal number by their places.
DecimalNumber(number) ==
  LET n == Len(number)
      place[i \in 0 .. n] == IF i = 0 THEN 1 ELSE 10 * place[i - 1]
      sum[i \in 0 .. n] == IF i = 0 THEN 0 ELSE sum[i - 1] + number[i] * place[n - i]
  IN sum[n]

DocumentedBits(blob) == DecimalNumber(blob.number) * Multiplier(blob)

\* "The byte size sent on the wire is `bits / 8` (integer division)."
DocumentedSize(blob) == DocumentedBits(blob) \div 8
=============================================================================
