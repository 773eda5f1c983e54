------------------------- MODULE RetransmissionTimer -------------------------
(***************************************************************************)
(* libsponge/retransmission_timer.{hh,cc}: the timer of a TCPSender.  It   *)
(* knows the time only through the milliseconds passed to check_timeout(). *)
(***************************************************************************)
EXTENDS Integers

TimerType ==
    [is_running : BOOLEAN, accumulate_time : Nat, rto : Nat, init_rto : Nat]

NewRetransmissionTimer(retx_timeout) ==
    [is_running |-> FALSE, accumulate_time |-> 0,
     rto |-> retx_timeout, init_rto |-> retx_timeout]

\* A running timer is left alone.
start_timer(t) ==
    IF t.is_running THEN t
    ELSE [t EXCEPT !.is_running = TRUE, !.rto = t.init_rto, !.accumulate_time = 0]

stop_timer(t) == [t EXCEPT !.is_running = FALSE]

\* Exponential backoff.
handle_timeout(t) == [t EXCEPT !.rto = 2 * @, !.accumulate_time = 0]

set_timeout(t, rto_time) == [t EXCEPT !.rto = rto_time]

set_accumulate_time(t, time) == [t EXCEPT !.accumulate_time = time]

\* check_timeout(ms): what it does to the timer, and what it returns.
accumulate(t, ms) == IF t.is_running THEN [t EXCEPT !.accumulate_time = @ + ms] ELSE t

check_timeout(t, ms) == t.is_running /\ t.accumulate_time + ms >= t.rto

=============================================================================
