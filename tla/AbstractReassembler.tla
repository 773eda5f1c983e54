------------------------- MODULE AbstractReassembler -------------------------
(***************************************************************************)
(* What a StreamReassembler of a given capacity promises about a stream of *)
(* N bytes, in terms of indexes only: it keeps exactly those bytes it is   *)
(* given that lie within capacity of the first byte not yet read           *)
(* (stream_reassembler.hh: "both the bytes that have been reassembled, and *)
(* those that have not yet been reassembled"), passes on a byte as soon as *)
(* every byte before it has been passed on, and ends the output when it    *)
(* knows where the stream ends and has passed on everything before that.   *)
(***************************************************************************)
EXTENDS Integers

CONSTANTS N, Capacity

VARIABLES
    consumed,   \* how many bytes have been read from the output
    assembled,  \* how many bytes have been passed to the output
    held,       \* the indexes of the bytes kept for later
    knowsEnd,   \* a push has said where the stream ends
    ended       \* the output has been ended

absVars == <<consumed, assembled, held, knowsEnd, ended>>

AbsInit ==
    /\ consumed = 0 /\ assembled = 0 /\ held = {}
    /\ knowsEnd = FALSE /\ ended = FALSE

\* The bytes i..j-1 of the stream arrive; last says that the stream ends at j.
AbsReceive(i, j, last) ==
    LET kept  == held \cup ((i..(j - 1)) \cap (assembled..(consumed + Capacity - 1)))
        front == CHOOSE w \in assembled..N :
                     w \notin kept /\ \A k \in assembled..(w - 1) : k \in kept
    IN  /\ last => j = N
        /\ assembled' = front
        /\ held' = {k \in kept : k >= front}
        /\ knowsEnd' = (knowsEnd \/ last)
        /\ ended' = (knowsEnd' /\ front = N)
        /\ UNCHANGED consumed

AbsRead(n) ==
    /\ consumed + n <= assembled
    /\ consumed' = consumed + n
    /\ UNCHANGED <<assembled, held, knowsEnd, ended>>

AbsNext ==
    \/ \E i, j \in 0..N, last \in BOOLEAN : AbsReceive(i, j, last)
    \/ \E n \in 1..Capacity : AbsRead(n)

AbsSpec == AbsInit /\ [][AbsNext]_absVars

=============================================================================
