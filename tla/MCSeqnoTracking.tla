--------------------------- MODULE MCSeqnoTracking ---------------------------
(* Model-checking instances of SeqnoTracking. *)
EXTENDS SeqnoTracking
=============================================================================
