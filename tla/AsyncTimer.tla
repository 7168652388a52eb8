---------------------------- MODULE AsyncTimer ----------------------------
(***************************************************************************)
(* The timer wheel of src/src/event/async_timer.c.                          *)
(*                                                                          *)
(* Timers hang in the slots of a wheel, the timer for offset x in slot      *)
(* x mod WHEEL_SIZE.  NR_async_timer_update_time walks every slot between   *)
(* the old and the new time and calls back the timers that are due.  The    *)
(* code is single-threaded, but a callback may itself set and cancel        *)
(* timers, on the very queue that is being walked: the walk is therefore    *)
(* one action per loop iteration, and the client's calls are interleaved    *)
(* with it wherever a callback is running.                                  *)
(*                                                                          *)
(* Time is counted in wheel entries (MS_PER_ENTRY = 1 ms) since first_time. *)
(***************************************************************************)
EXTENDS Integers, FiniteSets, CallbackQueue

CONSTANTS
    CB,          \* the callback structures malloc can return
    NULL,        \* the null pointer
    WHEEL_SIZE,  \* number of slots (4096 in the code)
    INT_RANGE,   \* number of values of a C int (2^32 in the code)
    Delays,      \* the delays (ms) that clients ask for
    MaxTime      \* bound: the clock is not followed past this offset

ASSUME NullAssumption  == NULL \notin CB \cup (0 .. WHEEL_SIZE - 1)
ASSUME WheelAssumption == WHEEL_SIZE \in Nat \ {0}
ASSUME IntAssumption   == INT_RANGE \in Nat \ {0} /\ INT_RANGE % 2 = 0
ASSUME DelayAssumption == Delays \subseteq Nat
ASSUME TimeAssumption  == MaxTime \in Nat

VARIABLES
    callwheel,           \* slot -> queue of callback structures
    live,                \* c -> is c->cb a function (TRUE) or 0?
    resource,            \* c -> c->resource, an int
    backptr,             \* c -> the slot whose queue c->backptr points to
    free_q,              \* the pool of destroyed structures
    timers_set,
    working_entry,       \* the slot being walked, or NULL
    pending_deactivates,
    first_time,          \* has update_time been called yet?
    current_offset,
    pc,                  \* where update_time is; "idle" outside it
    offset, cb, cb2,     \* the locals of update_time
    held,                \* client: the handles it may still cancel
    deadline             \* client: when it wants c, at full width

structVars == <<live, resource, backptr>>
walkVars   == <<pc, offset, cb, cb2>>
clockVars  == <<first_time, current_offset>>
vars == <<callwheel, structVars, free_q, timers_set, working_entry,
          pending_deactivates, clockVars, walkVars, held, deadline>>

Slots == 0 .. WHEEL_SIZE - 1
\* Mutant: the offset is not reduced to the size of the wheel.
Slot_Unreduced(x) == x

Slot(x) == x % WHEEL_SIZE

\* Every structure linked in the wheel.
Scheduled == UNION {Members(callwheel[s]) : s \in Slots}
\* Structures that malloc has not handed out.
Fresh == CB \ (Scheduled \cup Members(free_q))

(***************************************************************************)
(* The conversion of a 64-bit offset to the int field `resource', and its   *)
(* comparison with the unsigned 64-bit current_offset: a negative int       *)
(* becomes a huge unsigned number and is never <= current_offset.           *)
(***************************************************************************)
INT_MAX == INT_RANGE \div 2 - 1
ToInt(x) == LET m == x % INT_RANGE
            IN  IF m <= INT_MAX THEN m ELSE m - INT_RANGE

\* Mutant: a timer that is due exactly now is left for the next turn.
IsDue_Strict(c) == 0 <= resource[c] /\ resource[c] < current_offset

\* Mutant: everything in the slot is fired, whatever turn it is for.
IsDue_AnyTurn(c) == TRUE

IsDue(c) == 0 <= resource[c] /\ resource[c] <= current_offset

-----------------------------------------------------------------------------
\* NR_async_timer_init, run before anything else by every entry point.
Init ==
    /\ callwheel = [s \in Slots |-> <<>>]
    /\ live = [c \in CB |-> FALSE]
    /\ resource = [c \in CB |-> 0]
    /\ backptr = [c \in CB |-> 0]
    /\ free_q = <<>>
    /\ timers_set = 0
    /\ working_entry = NULL
    /\ pending_deactivates = FALSE
    /\ first_time = FALSE
    /\ current_offset = 0
    /\ pc = "idle"
    /\ offset = 0
    /\ cb = NULL
    /\ cb2 = NULL
    /\ held = {}
    /\ deadline = [c \in CB |-> 0]

(***************************************************************************)
(* The client's calls: from outside update_time, or from a callback.        *)
(***************************************************************************)
ClientRuns == pc \in {"idle", "callback"}

\* Mutant: a zero delay is not rounded up to one entry.
WheelOffset_Zero(delay_ms) == delay_ms

\* The number of entries a delay amounts to, at least one.
WheelOffset(delay_ms) == IF delay_ms = 0 THEN 1 ELSE delay_ms

\* NR_async_timer_set(delay_ms, ...), which returns c as the handle.
Set(delay_ms, c) ==
    LET when == current_offset + WheelOffset(delay_ms)
    IN  /\ ClientRuns
        /\ c \in Available(free_q, Fresh)
        /\ free_q' = TakeFrom(free_q, c)
        /\ live' = [live EXCEPT ![c] = TRUE]
        /\ resource' = [resource EXCEPT ![c] = ToInt(when)]
        /\ callwheel' = [callwheel EXCEPT ![Slot(when)] = Append(@, c)]
        /\ backptr' = [backptr EXCEPT ![c] = Slot(when)]
        /\ timers_set' = timers_set + 1
        /\ held' = held \cup {c}
        /\ deadline' = [deadline EXCEPT ![c] = when]
        /\ UNCHANGED <<working_entry, pending_deactivates, clockVars, walkVars>>

\* Mutant: cancel does not look at which queue is being walked.
OnWorkingQueue_Never(c) == FALSE

\* Is c on the queue that update_time is walking?
OnWorkingQueue(c) == backptr[c] = working_entry

\* NR_async_timer_cancel on a timer whose callback is the one now running.
CancelSelf(c) ==
    /\ ~live[c]
    /\ UNCHANGED <<callwheel, structVars, free_q, timers_set, pending_deactivates>>

\* ... on a timer of the queue being walked: only marked, purged later.
CancelMark(c) ==
    /\ live[c]
    /\ OnWorkingQueue(c)
    /\ live' = [live EXCEPT ![c] = FALSE]
    /\ pending_deactivates' = TRUE
    /\ UNCHANGED <<callwheel, resource, backptr, free_q, timers_set>>

\* ... on any other timer: unlinked and destroyed at once.
CancelUnlink(c) ==
    /\ live[c]
    /\ ~OnWorkingQueue(c)
    /\ callwheel' = [callwheel EXCEPT ![backptr[c]] = Unlink(@, c)]
    /\ timers_set' = timers_set - 1
    /\ free_q' = GiveBack(free_q, c)
    /\ UNCHANGED <<structVars, pending_deactivates>>

\* NR_async_timer_cancel(c).  A client cancels a handle at most once, and not
\* after its callback has returned.
Cancel(c) ==
    /\ ClientRuns
    /\ c \in held
    /\ CancelSelf(c) \/ CancelMark(c) \/ CancelUnlink(c)
    /\ held' = held \ {c}
    /\ UNCHANGED <<working_entry, clockVars, walkVars, deadline>>

(***************************************************************************)
(* NR_async_timer_update_time(tv).                                          *)
(***************************************************************************)

\* The first call only records the time that offsets are relative to.
FirstUpdate ==
    /\ pc = "idle"
    /\ ~first_time
    /\ first_time' = TRUE
    /\ UNCHANGED <<callwheel, structVars, free_q, timers_set, working_entry,
                   pending_deactivates, current_offset, walkVars, held, deadline>>

\* A later call, new_offset entries after the first.  A call with an earlier
\* time returns at once and changes nothing.
StartUpdate(new_offset) ==
    /\ pc = "idle"
    /\ first_time
    /\ new_offset >= current_offset
    /\ offset' = current_offset + 1
    /\ current_offset' = new_offset
    /\ pc' = "slot"
    /\ UNCHANGED <<callwheel, structVars, free_q, timers_set, working_entry,
                   pending_deactivates, first_time, cb, cb2, held, deadline>>

\* The head of the for loop: the next slot, or the end of the call.
EnterSlot ==
    /\ pc = "slot"
    /\ offset <= current_offset
    /\ working_entry' = Slot(offset)
    /\ pending_deactivates' = FALSE
    /\ cb' = First(callwheel[Slot(offset)], NULL)
    /\ pc' = "walk"
    /\ UNCHANGED <<callwheel, structVars, free_q, timers_set, clockVars, offset,
                   cb2, held, deadline>>

FinishUpdate ==
    /\ pc = "slot"
    /\ offset > current_offset
    /\ working_entry' = NULL
    /\ pc' = "idle"
    /\ offset' = 0 /\ cb' = NULL /\ cb2' = NULL
    /\ UNCHANGED <<callwheel, structVars, free_q, timers_set,
                   pending_deactivates, clockVars, held, deadline>>

\* Mutant: the count of timers is not brought down.
Discard_Uncounted(next) ==
    /\ timers_set' = timers_set
    /\ callwheel' = [callwheel EXCEPT ![Slot(offset)] = Unlink(@, cb)]
    /\ free_q' = GiveBack(free_q, cb)
    /\ cb' = next

\* Unlink and destroy the structure the walk stands on, and move to `next'.
Discard(next) ==
    /\ timers_set' = timers_set - 1
    /\ callwheel' = [callwheel EXCEPT ![Slot(offset)] = Unlink(@, cb)]
    /\ free_q' = GiveBack(free_q, cb)
    /\ cb' = next

\* What follows cb in the queue being walked.
Following == NextIn(callwheel[Slot(offset)], cb, NULL)

\* A timer that is not due yet, one for a later turn of the wheel.
VisitLater ==
    /\ pc = "walk" /\ cb # NULL
    /\ ~IsDue(cb)
    /\ cb' = Following
    /\ UNCHANGED <<callwheel, structVars, free_q, timers_set, working_entry,
                   pending_deactivates, clockVars, pc, offset, cb2, held, deadline>>

\* Mutant: the walk forgets that a marked timer was cancelled.
Fires_Marked(c) == TRUE

\* Only a timer that still has its function is called back.
Fires(c) == live[c]

\* A due timer that a callback of this walk has cancelled.
VisitCancelled ==
    /\ pc = "walk" /\ cb # NULL
    /\ IsDue(cb) /\ ~Fires(cb)
    /\ Discard(Following)
    /\ UNCHANGED <<structVars, working_entry, pending_deactivates, clockVars, pc,
                   offset, cb2, held, deadline>>

\* A due timer: cb2 is read, c->cb is zeroed, the callback is entered ...
Fire ==
    /\ pc = "walk" /\ cb # NULL
    /\ IsDue(cb) /\ Fires(cb)
    /\ cb2' = Following
    /\ live' = [live EXCEPT ![cb] = FALSE]
    /\ pc' = "callback"
    /\ UNCHANGED <<callwheel, resource, backptr, free_q, timers_set, working_entry,
                   pending_deactivates, clockVars, offset, cb, held, deadline>>

\* ... and returns: the walk goes on with the cb2 it read before the call.
Return ==
    /\ pc = "callback"
    /\ Discard(cb2)
    /\ cb2' = NULL
    /\ held' = held \ {cb}
    /\ pc' = "walk"
    /\ UNCHANGED <<structVars, working_entry, pending_deactivates, clockVars,
                   offset, deadline>>

\* Mutant: the purge pass is left out.
MustPurge_Never == FALSE

\* Did a callback mark an entry of this queue?
MustPurge == pending_deactivates

\* The end of the walk, without and with entries to purge.
LeaveSlot ==
    /\ pc = "walk" /\ cb = NULL
    /\ ~MustPurge
    /\ offset' = offset + 1
    /\ pc' = "slot"
    /\ UNCHANGED <<callwheel, structVars, free_q, timers_set, working_entry,
                   pending_deactivates, clockVars, cb, cb2, held, deadline>>

StartPurge ==
    /\ pc = "walk" /\ cb = NULL
    /\ MustPurge
    /\ cb' = First(callwheel[Slot(offset)], NULL)
    /\ pc' = "purge"
    /\ UNCHANGED <<callwheel, structVars, free_q, timers_set, working_entry,
                   pending_deactivates, clockVars, offset, cb2, held, deadline>>

PurgeKeep ==
    /\ pc = "purge" /\ cb # NULL
    /\ live[cb]
    /\ cb' = Following
    /\ UNCHANGED <<callwheel, structVars, free_q, timers_set, working_entry,
                   pending_deactivates, clockVars, pc, offset, cb2, held, deadline>>

PurgeDiscard ==
    /\ pc = "purge" /\ cb # NULL
    /\ ~live[cb]
    /\ Discard(Following)
    /\ UNCHANGED <<structVars, working_entry, pending_deactivates, clockVars, pc,
                   offset, cb2, held, deadline>>

EndPurge ==
    /\ pc = "purge" /\ cb = NULL
    /\ offset' = offset + 1
    /\ pc' = "slot"
    /\ UNCHANGED <<callwheel, structVars, free_q, timers_set, working_entry,
                   pending_deactivates, clockVars, cb, cb2, held, deadline>>

-----------------------------------------------------------------------------
ClientStep ==
    \/ \E delay_ms \in Delays, c \in CB : Set(delay_ms, c)
    \/ \E c \in CB : Cancel(c)

\* The steps of update_time once it has been called, callbacks' returns included.
WalkStep ==
    \/ EnterSlot \/ FinishUpdate
    \/ VisitLater \/ VisitCancelled \/ Fire \/ Return
    \/ LeaveSlot \/ StartPurge \/ PurgeKeep \/ PurgeDiscard \/ EndPurge

ClockStep == FirstUpdate \/ \E t \in 0..MaxTime : StartUpdate(t)

Next == ClientStep \/ ClockStep \/ WalkStep

Spec == Init /\ [][Next]_vars

(***************************************************************************)
(* Fairness.  update_time runs to its end: it never blocks, and a callback  *)
(* returns.  The main loop keeps calling update_time and the real clock     *)
(* moves on, so that not all of its calls can come with the same time:      *)
(* strong fairness, since calls with an unchanged time come in between.     *)
(***************************************************************************)
TimeMovesOn == \E t \in 0..MaxTime : t > current_offset /\ StartUpdate(t)

FairSpec == Spec /\ WF_vars(WalkStep) /\ SF_vars(FirstUpdate \/ TimeMovesOn)

(***************************************************************************)
(* NR_async_timer_next_timeout: NULL for R_NOT_FOUND.                       *)
(***************************************************************************)
\* Mutant: only the first timer of each slot is looked at.
Candidates_Heads == {callwheel[s][1] : s \in {x \in Slots : callwheel[x] # <<>>}}

Candidates == {c \in Scheduled : live[c]}

NextTimeout ==
    LET delays == {ToInt(resource[c] - current_offset) : c \in Candidates}
    IN  IF delays \ {INT_MAX} = {} THEN NULL
        ELSE CHOOSE d \in delays : \A e \in delays : d <= e

-----------------------------------------------------------------------------
TypeOK ==
    /\ callwheel \in [Slots -> Seq(CB)]
    /\ live \in [CB -> BOOLEAN]
    /\ resource \in [CB -> Int]
    /\ backptr \in [CB -> Slots]
    /\ free_q \in Seq(CB)
    /\ timers_set \in Int
    /\ working_entry \in Slots \cup {NULL}
    /\ pending_deactivates \in BOOLEAN
    /\ first_time \in BOOLEAN
    /\ current_offset \in 0..MaxTime
    /\ pc \in {"idle", "slot", "walk", "callback", "purge"}
    /\ offset \in 0..MaxTime + 1
    /\ cb \in CB \cup {NULL}
    /\ cb2 \in CB \cup {NULL}
    /\ held \subseteq CB
    /\ deadline \in [CB -> Nat]

(***************************************************************************)
(* Safety.                                                                  *)
(***************************************************************************)
\* A handle's time survives the conversion to int (24.8 days in the code).
FitsInt(x) == x <= INT_MAX

\* The callback structures are never shared or linked twice: a structure is in
\* at most one place of one slot, the slot its backptr says, or once in the
\* pool, whatever callbacks set and cancel while a queue is being walked.
LinkedOnce ==
    /\ \A s \in Slots : NoRepeats(callwheel[s])
    /\ \A s \in Slots : \A c \in Members(callwheel[s]) : backptr[c] = s
    /\ NoRepeats(free_q)
    /\ Scheduled \cap Members(free_q) = {}

\* timers_set is the number of structures in the wheel, marked ones included.
CountIsExact == timers_set = Cardinality(Scheduled)

\* The pointers that update_time keeps across a callback do not dangle: cb is
\* still linked in the queue being walked, and cb2, read before the call, is
\* still what follows it, although the callback may have cancelled cb2.
WalkPointersValid ==
    /\ pc \in {"walk", "callback", "purge"} => working_entry = Slot(offset)
    /\ pc \in {"walk", "callback", "purge"} /\ cb # NULL =>
           cb \in Members(callwheel[Slot(offset)])
    /\ pc = "callback" => cb # NULL
    /\ pc = "callback" /\ cb2 # NULL => cb2 = Following

\* What the client may cancel is what is armed: a handle stays in the wheel
\* with its function until it is cancelled or its callback returns, and once
\* update_time is over the wheel holds nothing else (so that
\* NR_async_timer_sanity_check_for_cb_deleted cannot find a cancelled one).
HandlesAreArmed ==
    /\ {c \in Scheduled : live[c]} = held \ (IF pc = "callback" THEN {cb} ELSE {})
    /\ pc = "idle" => Scheduled = held

\* When update_time is over, every timer whose time has come has been fired,
\* however far the clock jumped and whatever the callbacks set or cancelled.
Punctual ==
    pc = "idle" => \A c \in held : FitsInt(deadline[c]) => deadline[c] > current_offset

\* Between two calls of update_time, next_timeout gives exactly the time to the
\* first deadline, and R_NOT_FOUND only if nothing is armed.
NextTimeoutExact ==
    pc = "idle" /\ (\A c \in held : FitsInt(deadline[c]) /\ deadline[c] - current_offset < INT_MAX) =>
        IF held = {} THEN NextTimeout = NULL
        ELSE /\ \A c \in held : current_offset + NextTimeout <= deadline[c]
             /\ \E c \in held : current_offset + NextTimeout = deadline[c]

(***************************************************************************)
(* Action properties.                                                       *)
(***************************************************************************)
CallbackStarts == pc # "callback" /\ pc' = "callback"

\* A timer that was cancelled, even by a callback of the same walk, or that has
\* already fired, is never called back.
FiresOnlyHeld == [][CallbackStarts => cb \in held]_vars

\* No callback before its time, however many turns of the wheel that is away,
\* as long as the time has not wrapped around the int field.
NeverEarly ==
    [][CallbackStarts /\ deadline[cb] < INT_RANGE => deadline[cb] <= current_offset]_vars

(***************************************************************************)
(* Liveness.                                                                *)
(***************************************************************************)
\* update_time returns: callbacks that set new timers, on the queue being
\* walked too, cannot keep it in its loop.
UpdateTerminates == (pc # "idle") ~> (pc = "idle")

\* A timer that is not cancelled fires once the clock passes its time.
TimerFires ==
    \A c \in CB : (c \in held /\ deadline[c] <= MaxTime /\ FitsInt(deadline[c])) ~> (c \notin held)
=============================================================================
