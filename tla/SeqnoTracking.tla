---------------------------- MODULE SeqnoTracking ----------------------------
(***************************************************************************)
(* How TCPSender and TCPReceiver use wrap() and unwrap(): one side counts  *)
(* with an absolute number, the other side sees only its wrapped form and  *)
(* recovers the number with the last one it recovered as the checkpoint.   *)
(* The number may move forwards and backwards (retransmissions, old ACKs), *)
(* by less than half the 32-bit space at a time.                           *)
(***************************************************************************)
EXTENDS WrappingIntegers

CONSTANT AbsLimit   \* the numbers stay below AbsLimit

ASSUME AbsLimitAssumption == AbsLimit \in 1..AbsMod

VARIABLES sent_isn, value, tracked

trackVars == <<sent_isn, value, tracked>>

TrackInit ==
    /\ sent_isn \in WrappingInt32
    /\ value = 0
    /\ tracked = 0

Move(x) ==
    /\ x - value \in (-HalfSeq)..(HalfSeq - 1)
    /\ value' = x
    /\ tracked' = unwrap(wrap(x, sent_isn), sent_isn, tracked)
    /\ UNCHANGED sent_isn

TrackNext == \E x \in 0..(AbsLimit - 1) : Move(x)

TrackSpec == TrackInit /\ [][TrackNext]_trackVars

-----------------------------------------------------------------------------
\* Both counts keep their widths: the recovered number stays a 64-bit one.
TrackTypeOK ==
    /\ sent_isn \in WrappingInt32
    /\ value \in 0..(AbsLimit - 1)
    /\ tracked \in 0..(AbsMod - 1)

\* The number recovered from 32 bits is the number that was sent, across any
\* number of wrap-arounds of the 32-bit space and whatever the ISN: the two
\* sides never drift apart.
Tracks == tracked = value

\* unwrap() returns "the absolute sequence number that wraps to `n' and is
\* closest to `checkpoint'" (wrapping_integers.hh), for every n and with the
\* current number as the checkpoint.
UnwrapIsClosest ==
    \A n \in WrappingInt32 :
        LET r        == unwrap(n, sent_isn, value)
            away(x)  == IF x >= value THEN x - value ELSE value - x
        IN  /\ wrap(r, sent_isn) = n
            /\ \A x \in 0..(AbsMod - 1) : wrap(x, sent_isn) = n => away(r) <= away(x)

=============================================================================
