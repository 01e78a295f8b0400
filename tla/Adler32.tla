------------------------------ MODULE Adler32 ------------------------------
(***************************************************************************)
(* The checksum at the end of a compressed stream.                         *)
(***************************************************************************)
EXTENDS Integers, SequencesExt

\* The checksum of the bytes, with its two halves apart: s1 is 1 and the sum of
\* the bytes, s2 the sum of s1 after each of them, which adds byte i as often as
\* bytes remain from it on.  The code reduces the sums after every 5552 bytes,
\* before they leave 32 bits.
mz_adler32(bytes) ==
    [s1 |-> (1 + MapThenSumSet(LAMBDA i : bytes[i], DOMAIN bytes)) % 65521,
     s2 |-> (Len(bytes) + MapThenSumSet(LAMBDA i : (Len(bytes) + 1 - i) * bytes[i], DOMAIN bytes)) % 65521]
=============================================================================
