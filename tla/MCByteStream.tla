---------------------------- MODULE MCByteStream ----------------------------
(* Model-checking instances of ByteStreamSpec. *)
EXTENDS ByteStreamSpec
=============================================================================
