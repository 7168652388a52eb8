----------------------------- MODULE AsyncWait -----------------------------
(***************************************************************************)
(* The event queue of src/src/event/async_wait.c: callbacks that wait for a *)
(* socket (NR_async_wait) or for the next round (NR_async_schedule), and    *)
(* NR_async_event_wait2, which polls the sockets, queues the callbacks that *)
(* are due and fires them one after the other.                              *)
(*                                                                          *)
(* The code is single-threaded; what interleaves is the calls that a        *)
(* callback makes with the rest of the round that called it.  The file has  *)
(* two builds, with select and with epoll (USE_EPOLL), which differ in when *)
(* a round returns without firing and in what the kernel is told.           *)
(***************************************************************************)
EXTENDS Integers, FiniteSets, CallbackQueue

CONSTANTS
    CB,       \* the callback structures malloc can return
    NULL,     \* the null pointer
    NSOCKS,   \* sockets are 0 .. NSOCKS-1 (SOCKET_VEC_SIZE = 20000 in the code)
    Builds    \* the builds to look at: a subset of {"select", "epoll"}

ASSUME NullAssumption  == NULL \notin CB
ASSUME SocksAssumption == NSOCKS \in Nat
ASSUME BuildAssumption == Builds \subseteq {"select", "epoll"}

Socks == 0 .. NSOCKS - 1
READ  == 0
WRITE == 1
How   == {READ, WRITE}
Conditions == Socks \X How
NoSock == -1   \* resource and how of a callback that waits for no socket

VARIABLES
    build,        \* which build this is
    socket_vec,   \* <<sock, how>> -> the structure waiting for it, or NULL
    q_head,       \* the callbacks of the next round
    w_q,          \* what is left of the round being fired; w_q_n1 is its head
    free_q,       \* the pool of destroyed structures
    leaked,       \* structures that no queue and no variable refers to
    live,         \* c -> is c->cb a function (TRUE) or 0?
    waits,        \* c -> <<c->resource, c->how>>
    epoll_set,    \* the descriptors the kernel's epoll instance watches
    pc,           \* where event_wait2 is; "idle" outside it
    ready,        \* what the poll reported and the round has not collected yet
    status,       \* what event_wait2 returned last
    reads,        \* epoll build: has a read callback been queued this round?
    want,         \* client: the callbacks it counts on
    atCall        \* what was queued when event_wait2 was called, and not dealt with

poolVars  == <<free_q, leaked>>
roundVars == <<pc, ready, status, reads, atCall>>
vars == <<build, socket_vec, q_head, w_q, poolVars, live, waits, epoll_set,
          roundVars, want>>

\* The structures registered for a socket.
Registered == {socket_vec[k] : k \in Conditions} \ {NULL}
\* Structures that malloc has not handed out.
Fresh == CB \ (Registered \cup Members(q_head) \cup Members(w_q) \cup Members(free_q) \cup leaked)

-----------------------------------------------------------------------------
\* NR_async_wait_init.
Init ==
    /\ build \in Builds
    /\ socket_vec = [k \in Conditions |-> NULL]
    /\ q_head = <<>>
    /\ w_q = <<>>
    /\ free_q = <<>>
    /\ leaked = {}
    /\ live = [c \in CB |-> FALSE]
    /\ waits = [c \in CB |-> <<NoSock, NoSock>>]
    /\ epoll_set = {}
    /\ pc = "idle"
    /\ ready = {}
    /\ status = "ok"
    /\ reads = FALSE
    /\ want = {}
    /\ atCall = {}

(***************************************************************************)
(* The client's calls: between rounds, or from a callback.                  *)
(***************************************************************************)
ClientRuns == pc \in {"idle", "callback"}

\* The pool once the callback registered for k, if any, has been destroyed.
PoolWithout(k) ==
    IF socket_vec[k] = NULL THEN free_q ELSE GiveBack(free_q, socket_vec[k])

\* The structures malloc may return then.
FreshFor(k) == IF PoolWithout(k) = <<>> THEN Fresh ELSE {}

\* NR_async_wait(sock, how, ...): replaces the registration for this condition.
\* (A bad socket or `how' is refused and changes nothing.)
Wait(k, c) ==
    /\ ClientRuns
    /\ c \in Available(PoolWithout(k), FreshFor(k))
    /\ free_q' = TakeFrom(PoolWithout(k), c)
    /\ live' = [live EXCEPT ![c] = TRUE]
    /\ waits' = [waits EXCEPT ![c] = k]
    /\ socket_vec' = [socket_vec EXCEPT ![k] = c]
    /\ epoll_set' = IF build = "epoll" THEN epoll_set \cup {k[1]} ELSE epoll_set
    /\ want' = (want \ {socket_vec[k]}) \cup {c}
    /\ UNCHANGED <<build, q_head, w_q, leaked, roundVars>>

\* ... when the kernel refuses the descriptor: the old registration is gone
\* and nothing refers to the new structure.
WaitRefused(k, c) ==
    /\ build = "epoll"
    /\ ClientRuns
    /\ k[1] \notin epoll_set
    /\ c \in Available(PoolWithout(k), FreshFor(k))
    /\ free_q' = TakeFrom(PoolWithout(k), c)
    /\ live' = [live EXCEPT ![c] = TRUE]
    /\ waits' = [waits EXCEPT ![c] = k]
    /\ leaked' = leaked \cup {c}
    /\ socket_vec' = [socket_vec EXCEPT ![k] = NULL]
    /\ want' = want \ {socket_vec[k]}
    /\ UNCHANGED <<build, q_head, w_q, epoll_set, roundVars>>

\* Mutant: the condition is not looked at, only the socket.
Queued_AnyHow(k) == {i \in 2..Len(w_q) : waits[w_q[i]][1] = k[1]}

\* Mutant: only the registration is cancelled.
Queued_None(k) == {}

\* The entries for k in the round being fired, after the running callback's.
Queued(k) == {i \in 2..Len(w_q) : waits[w_q[i]] = k}

\* The first of them loses its function.
CancelQueued(k) ==
    IF pc = "callback" /\ Queued(k) # {}
    THEN LET i == CHOOSE i \in Queued(k) : \A j \in Queued(k) : i <= j
         IN  [live EXCEPT ![w_q[i]] = FALSE]
    ELSE live

\* NR_async_cancel(sock, how).
Cancel(k) ==
    /\ ClientRuns
    /\ free_q' = PoolWithout(k)
    /\ socket_vec' = [socket_vec EXCEPT ![k] = NULL]
    /\ epoll_set' = IF build = "epoll" THEN epoll_set \ {k[1]} ELSE epoll_set
    /\ live' = CancelQueued(k)
    /\ want' = {c \in want : waits[c] # k}
    /\ UNCHANGED <<build, q_head, w_q, leaked, waits, roundVars>>

\* ... when the kernel reports an error other than ENOENT (the descriptor was
\* closed before): it returns before it has looked at the queue.
CancelRefused(k) ==
    /\ build = "epoll"
    /\ ClientRuns
    /\ free_q' = PoolWithout(k)
    /\ socket_vec' = [socket_vec EXCEPT ![k] = NULL]
    /\ epoll_set' = epoll_set \ {k[1]}
    /\ want' = want \ {socket_vec[k]}
    /\ UNCHANGED <<build, q_head, w_q, leaked, live, waits, roundVars>>

\* Mutant: a callback scheduled from a callback joins the round being fired.
NextRound_Joined(c) ==
    IF pc = "callback" THEN q_head' = q_head /\ w_q' = Append(w_q, c)
                       ELSE q_head' = Append(q_head, c) /\ w_q' = w_q

\* A scheduled callback is for the next round.
NextRound(c) == q_head' = Append(q_head, c) /\ w_q' = w_q

\* NR_async_schedule.
Schedule(c) ==
    /\ ClientRuns
    /\ c \in Available(free_q, Fresh)
    /\ free_q' = TakeFrom(free_q, c)
    /\ live' = [live EXCEPT ![c] = TRUE]
    /\ waits' = [waits EXCEPT ![c] = <<NoSock, NoSock>>]
    /\ NextRound(c)
    /\ want' = want \cup {c}
    /\ UNCHANGED <<build, socket_vec, leaked, epoll_set, roundVars>>

(***************************************************************************)
(* NR_async_event_wait2.                                                    *)
(***************************************************************************)
StartRound ==
    /\ pc = "idle"
    /\ atCall' = Members(q_head)
    /\ status' = "running"
    /\ UNCHANGED reads

\* It returns without having touched the queue.
ReturnEarly(s) ==
    /\ pc = "idle"
    /\ status' = s
    /\ atCall' = Members(q_head)
    /\ UNCHANGED <<build, socket_vec, q_head, w_q, poolVars, live, waits, epoll_set,
                   pc, ready, reads, want>>

\* Mutant: callbacks that are only scheduled are not looked at.
NothingQueued_Ignored == TRUE

NothingQueued == q_head = <<>>

\* select build: nothing to wait for at all.
NothingToDo ==
    /\ build = "select"
    /\ Registered = {} /\ NothingQueued
    /\ ReturnEarly("R_EOD")

\* select build: the time given by the caller is over.
TimedOut ==
    /\ build = "select"
    /\ Registered # {} /\ NothingQueued
    /\ ReturnEarly("R_WOULDBLOCK")

\* The poll fails: select with an error other than EINTR, epoll_wait with any.
PollFails ==
    /\ build = "select" => Registered # {}
    /\ ReturnEarly("R_INTERNAL")

\* epoll build: no descriptor had an event in time.
NoEvents ==
    /\ build = "epoll"
    /\ ReturnEarly("R_EOD")

\* The conditions that a poll can report.
Pollable ==
    IF build = "select" THEN {k \in Conditions : socket_vec[k] # NULL}
                        ELSE epoll_set \X How

\* Mutant: a poll that reports nothing does not start a round.
SelectReports_Some(r) == build = "select" /\ r # {} /\ r \subseteq Pollable

\* select build: r is the number of conditions reported, 0 after a time-out or
\* a signal; a round without registrations does not poll.
SelectReports(r) ==
    /\ build = "select"
    /\ Registered # {} \/ q_head # <<>>
    /\ r \subseteq Pollable

\* epoll build: at least one event.
EpollReports(r) ==
    /\ build = "epoll"
    /\ r # {} /\ r \subseteq Pollable

Poll(r) ==
    /\ StartRound
    /\ SelectReports(r) \/ EpollReports(r)
    /\ ready' = r
    /\ pc' = "collect"
    /\ UNCHANGED <<build, socket_vec, q_head, w_q, poolVars, live, waits, epoll_set, want>>

\* Mutant: the registration is not checked.
Collected_Unchecked(k) == IF k \in ready THEN <<socket_vec[k]>> ELSE <<>>

\* The queue entry for condition k, if it was reported and somebody waits for it.
Collected(k) == IF k \in ready /\ socket_vec[k] # NULL THEN <<socket_vec[k]>> ELSE <<>>

\* Mutant: the registration is kept when its callback is queued.
ClearCollected_Kept(s) == socket_vec

\* The registrations of socket s once those reported have been queued.
ClearCollected(s) ==
    [k \in Conditions |-> IF k[1] = s /\ k \in ready THEN NULL ELSE socket_vec[k]]

\* One iteration: socket s's read callback, then its write callback.  select
\* goes through the sockets in order, epoll in the order of the kernel's events.
Collect(s) ==
    /\ pc = "collect"
    /\ \E k \in ready : k[1] = s
    /\ build = "select" => \A k \in ready : s <= k[1]
    /\ q_head' = q_head \o Collected(<<s, READ>>) \o Collected(<<s, WRITE>>)
    /\ socket_vec' = ClearCollected(s)
    /\ reads' = (reads \/ Collected(<<s, READ>>) # <<>>)
    /\ ready' = {k \in ready : k[1] # s}
    /\ UNCHANGED <<build, w_q, poolVars, live, waits, epoll_set, pc, status, atCall, want>>

\* The queue becomes the round, and the next round's queue is empty.
BeginFiring ==
    /\ pc = "collect" /\ ready = {}
    /\ w_q' = q_head
    /\ q_head' = <<>>
    /\ pc' = "fire"
    /\ UNCHANGED <<build, socket_vec, poolVars, live, waits, epoll_set, ready, status,
                   reads, atCall, want>>

\* An entry that was cancelled since it was queued.
SkipCancelled ==
    /\ pc = "fire" /\ w_q # <<>>
    /\ ~live[Head(w_q)]
    /\ w_q' = Tail(w_q)
    /\ free_q' = GiveBack(free_q, Head(w_q))
    /\ atCall' = atCall \ {Head(w_q)}
    /\ UNCHANGED <<build, socket_vec, q_head, leaked, live, waits, epoll_set, pc, ready,
                   status, reads, want>>

\* A callback is called ...
Fire ==
    /\ pc = "fire" /\ w_q # <<>>
    /\ live[Head(w_q)]
    /\ pc' = "callback"
    /\ want' = want \ {Head(w_q)}
    /\ UNCHANGED <<build, socket_vec, q_head, w_q, poolVars, live, waits, epoll_set,
                   ready, status, reads, atCall>>

\* ... and returns.
Return ==
    /\ pc = "callback"
    /\ w_q' = Tail(w_q)
    /\ free_q' = GiveBack(free_q, Head(w_q))
    /\ atCall' = atCall \ {Head(w_q)}
    /\ pc' = "fire"
    /\ UNCHANGED <<build, socket_vec, q_head, leaked, live, waits, epoll_set, ready,
                   status, reads, want>>

\* The round is over.
EndRound ==
    /\ pc = "fire" /\ w_q = <<>>
    /\ pc' = "idle"
    /\ status' = IF build = "epoll" /\ ~reads THEN "R_EOD" ELSE "ok"
    /\ reads' = FALSE
    /\ UNCHANGED <<build, socket_vec, q_head, w_q, poolVars, live, waits, epoll_set,
                   ready, atCall, want>>

-----------------------------------------------------------------------------
ClientStep ==
    \/ \E k \in Conditions, c \in CB : Wait(k, c) \/ WaitRefused(k, c)
    \/ \E k \in Conditions : Cancel(k) \/ CancelRefused(k)
    \/ \E c \in CB : Schedule(c)

PollStep == NothingToDo \/ TimedOut \/ PollFails \/ NoEvents
            \/ \E r \in SUBSET Conditions : Poll(r)

RoundStep ==
    \/ \E s \in Socks : Collect(s)
    \/ BeginFiring \/ SkipCancelled \/ Fire \/ Return \/ EndRound

Next == ClientStep \/ PollStep \/ RoundStep

Spec == Init /\ [][Next]_vars

(***************************************************************************)
(* Fairness.  A round runs to its end, since nothing in it blocks and the   *)
(* callbacks return; the main loop calls event_wait2 again and again, and   *)
(* the poll does not fail every time.                                       *)
(***************************************************************************)
PollSucceeds == \E r \in SUBSET Conditions : Poll(r)

FairSpec == Spec /\ WF_vars(RoundStep) /\ SF_vars(PollSucceeds)

-----------------------------------------------------------------------------
TypeOK ==
    /\ build \in Builds
    /\ socket_vec \in [Conditions -> CB \cup {NULL}]
    /\ q_head \in Seq(CB) /\ w_q \in Seq(CB) /\ free_q \in Seq(CB)
    /\ leaked \subseteq CB
    /\ live \in [CB -> BOOLEAN]
    /\ waits \in [CB -> Conditions \cup {<<NoSock, NoSock>>}]
    /\ epoll_set \subseteq Socks
    /\ pc \in {"idle", "collect", "fire", "callback"}
    /\ ready \subseteq Conditions
    /\ status \in {"ok", "running", "R_EOD", "R_WOULDBLOCK", "R_INTERNAL"}
    /\ reads \in BOOLEAN
    /\ want \subseteq CB
    /\ atCall \subseteq CB

(***************************************************************************)
(* Safety.                                                                  *)
(***************************************************************************)
\* A structure is in at most one place: registered for one condition, in one of
\* the three queues, once, or leaked; so that no callback can be fired twice or
\* recycled while something still refers to it.
OnePlace ==
    /\ \A k, l \in Conditions : socket_vec[k] = socket_vec[l] /\ socket_vec[k] # NULL => k = l
    /\ NoRepeats(q_head \o w_q \o free_q)
    /\ Registered \cap Members(q_head \o w_q \o free_q) = {}
    /\ leaked \cap (Registered \cup Members(q_head \o w_q \o free_q)) = {}

\* Nothing is lost and nothing lingers: the callbacks the client counts on are
\* exactly those that are registered, queued, or armed in the round being fired.
NothingLost ==
    want = (Registered \cup Members(q_head) \cup {c \in Members(w_q) : live[c]})
           \ (IF pc = "callback" THEN {Head(w_q)} ELSE {})

\* When event_wait2 returns, and its poll did not fail, everything that was
\* queued when it was called has been dealt with.
QueueIsDrained == pc = "idle" /\ status # "R_INTERNAL" => atCall = {}

\* A callback that was cancelled is not fired, even when its event was already
\* queued and the call came from another callback of the same round; nor is one
\* that a new NR_async_wait replaced before its event was queued.
FiresOnlyWanted == [][pc = "fire" /\ pc' = "callback" => Head(w_q) \in want]_vars

(***************************************************************************)
(* Liveness.                                                                *)
(***************************************************************************)
\* A round ends: callbacks that schedule callbacks cannot keep it going.
RoundEnds == (pc # "idle") ~> (pc = "idle")

\* A scheduled callback is fired in the end, whatever the sockets do.
ScheduledFires ==
    \A c \in CB : (c \in want /\ waits[c] = <<NoSock, NoSock>>) ~> (c \notin want)
=============================================================================
