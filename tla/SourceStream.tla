----------------------------- MODULE SourceStream -----------------------------
(***************************************************************************)
(* The stream of bytes that one end of a connection sends to the other:    *)
(* what the specifications of the sender, of the reassembler, of the       *)
(* receiver and of the whole transfer are about.                           *)
(***************************************************************************)
EXTENDS Integers, Sequences

CONSTANTS
    Byte,       \* the values of a byte
    Source      \* the stream

N == Len(Source)

=============================================================================
