----------------------------- MODULE MCTransfer -----------------------------
(* Model-checking instances of TCPTransfer. *)
EXTENDS TCPTransfer

MCSource2 == <<1, 2>>
MCSource3 == <<1, 2, 3>>
MCSource4 == <<1, 2, 3, 4>>
=============================================================================
