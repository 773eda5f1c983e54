-------------------------- MODULE WrappingIntegers --------------------------
(***************************************************************************)
(* libsponge/wrapping_integers.{hh,cc}: the conversion between the 64-bit  *)
(* absolute sequence numbers TCPSender and TCPReceiver count with and the  *)
(* 32-bit ones, starting at a random ISN, that travel in a TCP header.     *)
(* SeqMod is 2^32.                                                         *)
(***************************************************************************)
EXTENDS UInt64

CONSTANT SeqMod

ASSUME SeqModAssumption ==
    /\ SeqMod \in Nat \ {0}
    /\ SeqMod % 2 = 0
    /\ SeqMod < AbsMod
    /\ AbsMod % SeqMod = 0

HalfSeq == SeqMod \div 2

\* The values of a WrappingInt32.
WrappingInt32 == 0..(SeqMod - 1)

\* wrap(): truncate to 32 bits and add the ISN modulo 2^32.
wrap(n, isn) == (isn + (n % SeqMod)) % SeqMod

\* operator-(WrappingInt32, WrappingInt32): the signed 32-bit distance.
distance32(a, b) ==
    LET d == (a - b) % SeqMod IN IF d < HalfSeq THEN d ELSE d - SeqMod

\* An unwrap that takes the distance for unsigned.
unwrap_unsigned(n, isn, checkpoint) ==
    add64(checkpoint, (n - wrap(checkpoint, isn)) % SeqMod)

\* An unwrap that returns a negative result as the uint64_t with its bits.
unwrap_uncorrected(n, isn, checkpoint) ==
    add64(checkpoint, distance32(n, wrap(checkpoint, isn)))

\* unwrap(): move the checkpoint by the signed distance between n and the
\* wrapped checkpoint, and once round when that looks negative as an int64_t.
unwrap(n, isn, checkpoint) ==
    LET result == int64(add64(checkpoint, distance32(n, wrap(checkpoint, isn))))
    IN  IF result < 0 THEN add64(result, SeqMod) ELSE result

=============================================================================
