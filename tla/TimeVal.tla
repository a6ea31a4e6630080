------------------------------ MODULE TimeVal -------------------------------
(***************************************************************************)
(* The arithmetic Loop does on struct timeval.  LoopProofs shows that it   *)
(* is arithmetic on microseconds: Loop therefore counts time in one number.*)
(***************************************************************************)
EXTENDS Integers

USEC == 1000000

TimeVal == [tv_sec : Nat, tv_usec : 0 .. USEC - 1]

Micros(t) == t.tv_sec * USEC + t.tv_usec

\* std::less<struct timeval>
Less(t1, t2) == IF t1.tv_sec = t2.tv_sec THEN t1.tv_usec < t2.tv_usec
                                         ELSE t1.tv_sec < t2.tv_sec

\* The key defer() gives to an action: now + seconds with one carry.
When(now, seconds) ==
    LET sec == now.tv_sec + seconds.tv_sec
        usec == now.tv_usec + seconds.tv_usec
    IN  IF usec >= USEC THEN [tv_sec |-> sec + 1, tv_usec |-> usec - USEC]
                        ELSE [tv_sec |-> sec, tv_usec |-> usec]

\* set_next_break() borrows a second for the earliest key t when its microseconds do not exceed now's.
Borrowed(t, now) ==
    IF t.tv_usec <= now.tv_usec THEN [tv_sec |-> t.tv_sec - 1, tv_usec |-> t.tv_usec + USEC]
                                ELSE t

\* Its two tests: break out of the loop at once?
IsDue(t, now) == \/ t.tv_usec <= now.tv_usec /\ t.tv_sec <= now.tv_sec
                 \/ Borrowed(t, now).tv_sec < now.tv_sec

\* Otherwise the interval it gives to event_base_loopexit().
Wait(t, now) == [tv_sec  |-> Borrowed(t, now).tv_sec - now.tv_sec,
                 tv_usec |-> Borrowed(t, now).tv_usec - now.tv_usec]
=============================================================================
