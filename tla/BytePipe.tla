------------------------------ MODULE BytePipe ------------------------------
(***************************************************************************)
(* What a reliable byte stream promises, whatever carries it: the bytes    *)
(* the writer sent come out in order, once each, with none lost in the     *)
(* middle and none invented; the writer may close the stream, after which  *)
(* it sends no more; and the reader sees the end only after it has had     *)
(* every byte that was sent.                                               *)
(*                                                                         *)
(* A ByteStream implements this inside one process (ByteStreamSpec), and   *)
(* a TCPSender and a TCPReceiver with a network between them implement it  *)
(* end to end (TCPTransfer).                                               *)
(***************************************************************************)
EXTENDS Integers, Sequences

VARIABLES
    sent,      \* every byte the writer has put in, in order
    closed,    \* the writer has closed the stream
    received,  \* every byte that has come out, in order
    ended      \* the reader has been told that the stream is over

pipeVars == <<sent, closed, received, ended>>

StartsWith(s, prefix) ==
    Len(prefix) <= Len(s) /\ \A i \in 1..Len(prefix) : s[i] = prefix[i]

PipeInit ==
    sent = <<>> /\ closed = FALSE /\ received = <<>> /\ ended = FALSE

Send ==
    /\ ~closed
    /\ StartsWith(sent', sent)
    /\ UNCHANGED <<closed, received, ended>>

Close ==
    /\ closed' = TRUE
    /\ ended' \in {ended, received = sent}
    /\ UNCHANGED <<sent, received>>

Deliver ==
    /\ StartsWith(received', received)
    /\ StartsWith(sent, received')
    /\ ended' \in BOOLEAN
    /\ ended => ended' /\ received' = received
    /\ ended' => closed /\ received' = sent
    /\ UNCHANGED <<sent, closed>>

PipeNext == Send \/ Close \/ Deliver

PipeSpec == PipeInit /\ [][PipeNext]_pipeVars

=============================================================================
