------------------------------ MODULE MCSender ------------------------------
(* Model-checking instances of TCPSenderSpec. *)
EXTENDS TCPSenderSpec

MCSource5 == <<1, 2, 3, 4, 5>>
=============================================================================
