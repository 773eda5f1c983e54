---------------------------- MODULE SlidingWindow ----------------------------
(***************************************************************************)
(* What a sender promises, without segments, timers and 32-bit numbers:    *)
(* the stream is sent from its beginning in pieces that fit the window     *)
(* the receiver has last announced, and what is sent again is always the   *)
(* oldest piece that has not been acknowledged.                            *)
(*                                                                         *)
(* A window that is taken back may leave more in flight than it allows.    *)
(* Nothing is promised then (see FullWindowRespected in TCPTransfer).      *)
(***************************************************************************)
EXTENDS Integers, Sequences

CONSTANT Stream   \* all there is to send, the SYN and the FIN included

VARIABLES
    available,   \* how much of Stream the application has provided
    una, nxt,    \* how much of it is acknowledged, and how much has been sent
    window,      \* what the receiver has last announced
    wire         \* the pieces that wait to be taken to the network

windowVars == <<available, una, nxt, window, wire>>

WindowInit ==
    /\ available = 1 /\ una = 0 /\ nxt = 0 /\ window = 1
    /\ wire = <<>>

Piece(from, to) == [from |-> from, what |-> SubSeq(Stream, from + 1, to)]

\* A closed window counts as one, so that its opening is found out.
Room == IF window = 0 THEN 1 ELSE window

Provide(n) ==
    /\ n \in available..Len(Stream)
    /\ available' = n
    /\ UNCHANGED <<una, nxt, window, wire>>

SendNew(to) ==
    /\ to \in (nxt + 1)..available
    /\ nxt - una <= Room => to - una <= Room
    /\ nxt' = to
    /\ wire' = Append(wire, Piece(nxt, to))
    /\ UNCHANGED <<available, una, window>>

SendAgain(to) ==
    /\ to \in (una + 1)..nxt
    /\ wire' = Append(wire, Piece(una, to))
    /\ UNCHANGED <<available, una, nxt, window>>

SendEmpty ==
    /\ wire' = Append(wire, Piece(nxt, nxt))
    /\ UNCHANGED <<available, una, nxt, window>>

Acknowledge(upto) ==
    /\ upto \in una..nxt
    /\ una' = upto /\ window' \in Nat
    /\ UNCHANGED <<available, nxt, wire>>

Take ==
    /\ wire # <<>>
    /\ wire' = Tail(wire)
    /\ UNCHANGED <<available, una, nxt, window>>

WindowNext ==
    \/ \E n \in 0..Len(Stream) : Provide(n) \/ SendNew(n) \/ SendAgain(n) \/ Acknowledge(n)
    \/ SendEmpty \/ Take

WindowSpec == WindowInit /\ [][WindowNext]_windowVars

=============================================================================
