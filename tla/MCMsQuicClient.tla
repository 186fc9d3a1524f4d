----------------------------- MODULE MCMsQuicClient -----------------------------
\* The values of --blob of the run of MsQuicClient.
EXTENDS MsQuicClient

Blob(number, unit) == [number |-> number, unit |-> unit, bit |-> TRUE]

\* 7bit, 24bit, 1Kbit; 5Kbit wraps; Mbit, 2x4bit, 8Tbit and 24 are malformed.
BlobStrings ==
  {Blob(<<7>>, ""), Blob(<<2, 4>>, ""), Blob(<<1>>, "K"), Blob(<<5>>, "K"),
   Blob(<<>>, "M"), Blob(<<2, 10, 4>>, ""), Blob(<<8>>, "other"),
   [number |-> <<2, 4>>, unit |-> "", bit |-> FALSE]}
=============================================================================
