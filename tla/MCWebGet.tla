------------------------------ MODULE MCWebGet ------------------------------
(* Model-checking instances of FileDescriptor, Socket and WebGet. *)
EXTENDS WebGet

CONSTANT another   \* a second wrapper

\* The four writes of get_URL(), each byte of the request a number of its own.
MCRequest == <<1, 2, 3, 4, 5, 6, 7>>
MCEnds == <<3, 5, 6, 7>>
=============================================================================
