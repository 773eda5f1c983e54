-------------------------------- MODULE UInt64 --------------------------------
(***************************************************************************)
(* The width of absolute sequence numbers and stream indexes, uint64_t and *)
(* size_t in the code.  AbsMod is 2^64; a smaller even number keeps the    *)
(* wrap-around within reach of a small instance.                           *)
(***************************************************************************)
EXTENDS Integers

CONSTANT AbsMod

ASSUME AbsModAssumption == AbsMod \in Nat \ {0} /\ AbsMod % 2 = 0

HalfAbs == AbsMod \div 2

\* uint64_t addition and subtraction.
add64(a, b) == (a + b) % AbsMod
sub64(a, b) == (a - b) % AbsMod

\* The int64_t with the same bits.
int64(a) == IF a < HalfAbs THEN a ELSE a - AbsMod

=============================================================================
