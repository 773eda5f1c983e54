---------------------------- MODULE MCReassembler ----------------------------
(* Model-checking instances of ReassemblerSpec. *)
EXTENDS ReassemblerSpec

MCSource7 == <<1, 2, 3, 4, 5, 6, 7>>
=============================================================================
