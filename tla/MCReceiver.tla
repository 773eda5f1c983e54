----------------------------- MODULE MCReceiver -----------------------------
(* Model-checking instances of TCPReceiverSpec. *)
EXTENDS TCPReceiverSpec

MCSource7 == <<1, 2, 3, 4, 5, 6, 7>>
=============================================================================
