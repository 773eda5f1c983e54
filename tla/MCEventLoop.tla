----------------------------- MODULE MCEventLoop -----------------------------
(* Model-checking instances of EventLoop. *)
EXTENDS EventLoop

CONSTANTS r1, r2, f1, f2

\* One rule for each direction, each on a descriptor of its own.
MCfd == [r \in Rule |-> IF r = r1 THEN f1 ELSE f2]
MCdirection == [r \in Rule |-> IF r = r1 THEN "In" ELSE "Out"]
=============================================================================
