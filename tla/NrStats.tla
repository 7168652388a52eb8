------------------------------ MODULE NrStats -------------------------------
(***************************************************************************)
(* Statistics (stats/nrstats.c): programs keep named counters in one shared *)
(* memory segment, so that they outlive the program and a tool can read     *)
(* them.  The processes are modelled between their accesses to the segment; *)
(* NR_stats_get takes no lock.  A process may die at any point.             *)
(*                                                                          *)
(* A statistic is known by its type; all processes run the same program, so *)
(* the name compute_name makes is the type's.  Headers lie one behind the   *)
(* other, and are numbered.                                                 *)
(***************************************************************************)
EXTENDS Integers, FiniteSets

CONSTANTS
    Programs,           \* the processes
    StatTypes,          \* the types, "app" and "memory" among them
    NR_MAX_STATS_SHMS,  \* bound of nshms (64 in the code)
    SegmentRoom,        \* headers that lie in the segment as a whole (39)
    SegmentCt           \* bound: segments created in one behaviour

NoName == "noname"

ASSUME StatsAssumption ==
    /\ {"app", "memory"} \subseteq StatTypes /\ NoName \notin StatTypes
    /\ NR_MAX_STATS_SHMS \in Nat /\ SegmentRoom \in Nat /\ SegmentCt \in Nat

Slots  == 1..(NR_MAX_STATS_SHMS + 1)

VARIABLES
    shmKey,    \* the segment that SHMKEY names, 0 when there is none
    made,      \* segments created so far
    nshms,     \* segment -> shm_info.nshms
    header,    \* segment -> slot -> the name in the header
    buffer,    \* segment -> slot -> "zero" or "used"
    prog,      \* process -> [pc, seg, want, slot, read]
    stats,     \* process -> type -> the slot it holds a pointer to, 0 for none
    types,     \* process -> the registered types
    lockedBy,  \* who holds the flock on stats.lock
    raced      \* two processes were in the middle of a change at once

statsVars == <<shmKey, made, nshms, header, buffer, prog, stats, types, lockedBy, raced>>
segment == <<shmKey, made, nshms, header, buffer>>

Off == [pc |-> "off", seg |-> 0, want |-> NoName, slot |-> 0, read |-> 0]
NoStats == [t \in StatTypes |-> 0]
Nobody == "nobody"

-----------------------------------------------------------------------------
\* find_stats: the first header with the name among those that are counted.
FindStats(s, name) ==
    LET hits == {i \in 1..nshms[s] : i \in Slots /\ header[s][i] = name}
    IN  IF hits = {} THEN 0 ELSE CHOOSE i \in hits : \A j \in hits : i <= j

\* sanity_check: the name in the header leads back to it.
Sane(s, i) == FindStats(s, header[s][i]) = i

\* NR_stats_get_names
GetNames(s) == [i \in 1..nshms[s] |-> header[s][i]]

\* A process that starts to change the segment while another one is at it.
Busy(q) == prog[q].pc \notin {"off", "idle"}
Enters(p) == raced' = (raced \/ \E q \in Programs \ {p} : Busy(q))

-----------------------------------------------------------------------------
StatsInit ==
    /\ shmKey = 0 /\ made = 0
    /\ nshms  = [s \in 1..SegmentCt |-> 0]
    /\ header = [s \in 1..SegmentCt |-> [i \in Slots |-> NoName]]
    /\ buffer = [s \in 1..SegmentCt |-> [i \in Slots |-> "zero"]]
    /\ prog  = [p \in Programs |-> Off]
    /\ stats = [p \in Programs |-> NoStats]
    /\ types = [p \in Programs |-> {}]
    /\ lockedBy = Nobody
    /\ raced = FALSE

\* NR_stats_startup, with a segment: attach and register the two types.
StartupAttach(p) ==
    /\ prog[p].pc = "off" /\ shmKey # 0
    /\ prog' = [prog EXCEPT ![p].pc = "idle", ![p].seg = shmKey]
    /\ types' = [types EXCEPT ![p] = @ \cup {"app", "memory"}]
    /\ UNCHANGED <<segment, stats, lockedBy, raced>>

\* NR_stats_startup without one: shmget says ENOENT,
StartupMissing(p) ==
    /\ prog[p].pc = "off" /\ shmKey = 0 /\ made < SegmentCt
    /\ prog' = [prog EXCEPT ![p].pc = "create"]
    /\ Enters(p)
    /\ UNCHANGED <<segment, stats, types, lockedBy>>

\* is asked to create it, and gives the one that another process has created meanwhile;
StartupCreate(p) ==
    /\ prog[p].pc = "create"
    /\ shmKey = 0 => made < SegmentCt
    /\ made' = IF shmKey = 0 THEN made + 1 ELSE made
    /\ shmKey' = IF shmKey = 0 THEN made + 1 ELSE shmKey
    /\ prog' = [prog EXCEPT ![p].pc = "zero", ![p].seg = shmKey']
    /\ UNCHANGED <<nshms, header, buffer, stats, types, lockedBy, raced>>

\* the number of headers is set to 0.
StartupZero(p) ==
    /\ prog[p].pc = "zero"
    /\ nshms' = [nshms EXCEPT ![prog[p].seg] = 0]
    /\ prog' = [prog EXCEPT ![p].pc = "idle"]
    /\ types' = [types EXCEPT ![p] = @ \cup {"app", "memory"}]
    /\ UNCHANGED <<shmKey, made, header, buffer, stats, lockedBy, raced>>

\* NR_stats_get(.., NR_STATS_CREATE): a statistic that is there,
GetFound(p, t) ==
    /\ prog[p].pc = "idle" /\ FindStats(prog[p].seg, t) # 0
    /\ stats' = [stats EXCEPT ![p][t] = FindStats(prog[p].seg, t)]
    /\ types' = [types EXCEPT ![p] = @ \cup {t}]
    /\ UNCHANGED <<segment, prog, lockedBy, raced>>

\* and one that is not: alloc_stats finds the place behind the last header,
GetMissing(p, t) ==
    /\ prog[p].pc = "idle" /\ FindStats(prog[p].seg, t) = 0
    /\ types' = [types EXCEPT ![p] = @ \cup {t}]
    /\ prog' = [prog EXCEPT ![p].pc = "alloc", ![p].want = t]
    /\ Enters(p)
    /\ UNCHANGED <<segment, stats, lockedBy>>

\* or that there is no more of it: too many headers, or the place lies behind the end.
AllocPlace(p) ==
    /\ prog[p].pc = "alloc"
    /\ LET n    == nshms[prog[p].seg]
           full == n >= NR_MAX_STATS_SHMS \/ n > SegmentRoom
       IN  prog' = [prog EXCEPT ![p].pc = IF full THEN "idle" ELSE "write",
                                ![p].slot = IF full THEN 0 ELSE n + 1]
    /\ UNCHANGED <<segment, stats, types, lockedBy, raced>>

\* Mutant: the header counts before it is written.
AllocWrite_Early(p) ==
    /\ prog[p].pc = "write" /\ prog[p].slot <= SegmentRoom
    /\ nshms' = [nshms EXCEPT ![prog[p].seg] = @ + 1]
    /\ prog' = [prog EXCEPT ![p].pc = "count"]
    /\ UNCHANGED <<shmKey, made, header, buffer, stats, types, lockedBy, raced>>

\* The header is written; the first one that does not fit kills the process.
AllocWrite(p) ==
    /\ prog[p].pc = "write" /\ prog[p].slot <= SegmentRoom
    /\ header' = [header EXCEPT ![prog[p].seg][prog[p].slot] = prog[p].want]
    /\ prog' = [prog EXCEPT ![p].pc = "count"]
    /\ UNCHANGED <<shmKey, made, nshms, buffer, stats, types, lockedBy, raced>>

\* ++nshms: the number is read,
AllocRead(p) ==
    /\ prog[p].pc = "count"
    /\ prog' = [prog EXCEPT ![p].pc = "store", ![p].read = nshms[prog[p].seg]]
    /\ UNCHANGED <<segment, stats, types, lockedBy, raced>>

\* and written.
AllocStore(p) ==
    /\ prog[p].pc = "store"
    /\ nshms' = [nshms EXCEPT ![prog[p].seg] = prog[p].read + 1]
    /\ prog' = [prog EXCEPT ![p].pc = "check", ![p].read = 0]
    /\ UNCHANGED <<shmKey, made, header, buffer, stats, types, lockedBy, raced>>

\* The end of NR_stats_get: an assertion, and the pointer.
AllocCheck(p) ==
    /\ prog[p].pc = "check" /\ Sane(prog[p].seg, prog[p].slot)
    /\ stats' = [stats EXCEPT ![p][prog[p].want] = prog[p].slot]
    /\ prog' = [prog EXCEPT ![p] = [Off EXCEPT !.pc = "idle", !.seg = prog[p].seg]]
    /\ UNCHANGED <<segment, types, lockedBy, raced>>

\* NR_stats_acquire_mutex and NR_stats_release_mutex: an flock, which the kernel drops
\* with the process.
Acquire(p) ==
    /\ prog[p].pc = "idle" /\ lockedBy = Nobody
    /\ \E t \in StatTypes : stats[p][t] # 0
    /\ lockedBy' = p
    /\ UNCHANGED <<segment, prog, stats, types, raced>>
Release(p) ==
    /\ lockedBy = p /\ prog[p].pc = "idle"
    /\ lockedBy' = Nobody
    /\ UNCHANGED <<segment, prog, stats, types, raced>>

\* NR_stats_get_by_name: the pointer, without the type.  NR_stats_register: the reverse.
GetByName(p, t) ==
    /\ prog[p].pc = "idle" /\ FindStats(prog[p].seg, t) # 0
    /\ stats' = [stats EXCEPT ![p][t] = FindStats(prog[p].seg, t)]
    /\ UNCHANGED <<segment, prog, types, lockedBy, raced>>
RegisterType(p, t) ==
    /\ prog[p].pc = "idle"
    /\ types' = [types EXCEPT ![p] = @ \cup {t}]
    /\ UNCHANGED <<segment, prog, stats, lockedBy, raced>>

\* A process writes to the buffer of a statistic that it has.
Writes(p, t, v) ==
    /\ prog[p].pc = "idle" /\ stats[p][t] # 0
    /\ buffer' = [buffer EXCEPT ![prog[p].seg][stats[p][t]] = v]
    /\ UNCHANGED <<shmKey, made, nshms, header, prog, stats, types, lockedBy, raced>>

\* NR_INCREMENT_STAT and NR_UPDATE_STAT.
Counts(p, t) == Writes(p, t, "used")

\* NR_stats_reset, which needs the type that the name says and writes what its reset function
\* likes; NR_stats_clear, which fills the buffer with zeros before it calls that.
Reset(p, t) ==
    /\ stats[p][t] # 0 /\ Sane(prog[p].seg, stats[p][t])
    /\ header[prog[p].seg][stats[p][t]] \in types[p]
    /\ Writes(p, t, "used")
Clear(p, t) ==
    /\ stats[p][t] # 0 /\ Sane(prog[p].seg, stats[p][t])
    /\ Writes(p, t, IF header[prog[p].seg][stats[p][t]] \in types[p] THEN "used" ELSE "zero")

\* NR_stats_shutdown: the registered types stay.
Shutdown(p) ==
    /\ prog[p].pc = "idle"
    /\ prog' = [prog EXCEPT ![p] = Off]
    /\ stats' = [stats EXCEPT ![p] = NoStats]
    /\ lockedBy' = IF lockedBy = p THEN Nobody ELSE lockedBy
    /\ UNCHANGED <<segment, types, raced>>

\* A process dies where it stands, which is also what a failed assertion and a header
\* outside the segment come to.
Dies(p) ==
    /\ prog[p].pc # "off"
    /\ prog' = [prog EXCEPT ![p] = Off]
    /\ stats' = [stats EXCEPT ![p] = NoStats]
    /\ types' = [types EXCEPT ![p] = {}]
    /\ lockedBy' = IF lockedBy = p THEN Nobody ELSE lockedBy
    /\ UNCHANGED <<segment, raced>>

\* NR_stats_rmids, refused to a process that is attached itself: who else is attached keeps
\* the segment, but nobody will find it any more; without anybody it is gone.
RmIds(p) ==
    /\ prog[p].pc = "off" /\ shmKey # 0
    /\ shmKey' = 0
    /\ LET gone == \A q \in Programs : prog[q].seg # shmKey
       IN  /\ nshms'  = IF gone THEN [nshms EXCEPT ![shmKey] = 0] ELSE nshms
           /\ header' = IF gone THEN [header EXCEPT ![shmKey] = [i \in Slots |-> NoName]] ELSE header
           /\ buffer' = IF gone THEN [buffer EXCEPT ![shmKey] = [i \in Slots |-> "zero"]] ELSE buffer
    /\ UNCHANGED <<made, prog, stats, types, lockedBy, raced>>

\* Bound: a behaviour is followed up to the first race.
StatsNext ==
    /\ ~raced
    /\ \E p \in Programs :
           \/ StartupAttach(p) \/ StartupMissing(p) \/ StartupCreate(p) \/ StartupZero(p)
           \/ AllocPlace(p) \/ AllocWrite(p) \/ AllocRead(p) \/ AllocStore(p) \/ AllocCheck(p)
           \/ Acquire(p) \/ Release(p) \/ Shutdown(p) \/ Dies(p) \/ RmIds(p)
           \/ \E t \in StatTypes :
                 \/ GetFound(p, t) \/ GetMissing(p, t) \/ GetByName(p, t)
                 \/ RegisterType(p, t) \/ Counts(p, t) \/ Reset(p, t) \/ Clear(p, t)

StatsSpec == StatsInit /\ [][StatsNext]_statsVars

-----------------------------------------------------------------------------
\* Unless two processes change the segment at once, every pointer that NR_stats_get gave
\* out is to the statistic that was asked for, its assertion holds, each name is listed
\* once, so a program that is started again finds its own counters, and a new statistic
\* starts from zero: whatever processes die in the middle of, and whoever removes the
\* segment under them.
OwnStatistics ==
    ~raced =>
        /\ \A p \in Programs : prog[p].pc = "check" => Sane(prog[p].seg, prog[p].slot)
        /\ \A p \in Programs, t \in StatTypes :
              stats[p][t] # 0 => FindStats(prog[p].seg, t) = stats[p][t]
        /\ \A s \in 1..SegmentCt :
              /\ nshms[s] <= NR_MAX_STATS_SHMS
              /\ \A i, j \in DOMAIN GetNames(s) : GetNames(s)[i] = GetNames(s)[j] => i = j
              /\ \A i \in Slots : i > nshms[s] => buffer[s][i] = "zero"
=============================================================================
