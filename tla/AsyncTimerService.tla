------------------------- MODULE AsyncTimerService -------------------------
(***************************************************************************)
(* The timer wheel implements the timer service, as long as no deadline     *)
(* wraps around the int field `resource'.                                   *)
(***************************************************************************)
EXTENDS AsyncTimer

ASSUME NoWrapAssumption == \A d \in Delays \cup {1} : MaxTime + d <= INT_MAX

\* The service's state, seen through the wheel's: the armed timers are the
\* handles, and a callback is running while the walk waits for its return.
Service == INSTANCE TimerService WITH
    Timer    <- CB,
    None     <- NULL,
    armed    <- held,
    due      <- deadline,
    now      <- current_offset,
    updating <- pc # "idle",
    firing   <- IF pc = "callback" THEN cb ELSE NULL

\* Every behaviour of the wheel, walked slot by slot and purged afterwards, is
\* one of the service: update_time fires exactly the armed timers that are due
\* and then returns.
ImplementsService == Service!ServiceSpec
=============================================================================
