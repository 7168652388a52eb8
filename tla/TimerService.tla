--------------------------- MODULE TimerService ---------------------------
(***************************************************************************)
(* What the timer half of the event library promises its clients, with no   *)
(* wheel, no queues and no structures to manage: a set of armed timers, and *)
(* a clock.  When the clock is moved, every armed timer whose time has come *)
(* is called back, each once, one at a time, in no promised order, and the  *)
(* call that moves the clock does not return before.  Timers may be set and *)
(* cancelled between these calls and from within the callbacks; a cancelled *)
(* timer is not called back, and one set from a callback is for later.      *)
(***************************************************************************)
EXTENDS Naturals

CONSTANTS Timer, None, Delays, MaxTime

VARIABLES armed, due, now, updating, firing

tvars == <<armed, due, now, updating, firing>>

ServiceInit ==
    /\ armed = {}
    /\ due = [c \in Timer |-> 0]
    /\ now = 0
    /\ updating = FALSE
    /\ firing = None

ClientMayCall == ~updating \/ firing # None

SetTimer(c, d) ==
    /\ ClientMayCall
    /\ c \notin armed \cup {firing}
    /\ armed' = armed \cup {c}
    /\ due' = [due EXCEPT ![c] = now + (IF d = 0 THEN 1 ELSE d)]
    /\ UNCHANGED <<now, updating, firing>>

CancelTimer(c) ==
    /\ ClientMayCall
    /\ c \in armed
    /\ armed' = armed \ {c}
    /\ UNCHANGED <<due, now, updating, firing>>

Advance(t) ==
    /\ ~updating
    /\ t >= now
    /\ now' = t
    /\ updating' = TRUE
    /\ UNCHANGED <<armed, due, firing>>

FireTimer(c) ==
    /\ updating
    /\ firing = None
    /\ c \in armed
    /\ due[c] <= now
    /\ firing' = c
    /\ UNCHANGED <<armed, due, now, updating>>

CallbackReturns ==
    /\ firing # None
    /\ armed' = armed \ {firing}
    /\ firing' = None
    /\ UNCHANGED <<due, now, updating>>

AdvanceReturns ==
    /\ updating
    /\ firing = None
    /\ \A c \in armed : due[c] > now
    /\ updating' = FALSE
    /\ UNCHANGED <<armed, due, now, firing>>

ServiceStep == (\E c \in Timer : FireTimer(c)) \/ CallbackReturns \/ AdvanceReturns

ServiceNext ==
    \/ \E c \in Timer, d \in Delays : SetTimer(c, d)
    \/ \E c \in Timer : CancelTimer(c)
    \/ \E t \in 0..MaxTime : Advance(t)
    \/ ServiceStep

ServiceSafety == ServiceInit /\ [][ServiceNext]_tvars

\* A call that has moved the clock gets through its timers.
ServiceSpec == ServiceSafety /\ WF_tvars(ServiceStep)
=============================================================================
