---------------------------- MODULE ProcessProofs ---------------------------
(***************************************************************************)
(* Proofs about what threads and processes share: the count of threads that *)
(* r_thread_wait_last waits for, for any set of threads, and the statistics *)
(* in shared memory, for any number of processes, types, headers and        *)
(* segments.  The two do not interact; each has an invariant of its own.    *)
(***************************************************************************)
EXTENDS RThread, NrStats, FiniteSetTheorems, TLAPS

-----------------------------------------------------------------------------
(* Threads. *)
States == {"unborn", "forked", "counting", "running", "uncounting", "ended",
           "init", "make", "flag", "lock", "held", "asleep"}

ThreadTypeOK ==
    /\ pc \in [Threads \cup {Main} -> States \cup {"forking", "waiting", "waited"}]
    /\ \A t \in Threads : pc[t] \in States
    /\ threadCount \in Int
    /\ loadedCount \in [Threads -> Int]

\* The threads whose thread_count++ is done and whose thread_count-- is not.
Counted == {t \in Threads : pc[t] \notin {"unborn", "forked", "counting", "ended"}}

\* Unless two threads were changing it at once, the count is right, and the one
\* thread that is changing it has read it as it is.
CountInv ==
    /\ IsFiniteSet(Counted)
    /\ ~lostCount =>
          /\ threadCount = Cardinality(Counted)
          /\ \A t, u \in Threads : Changing(t) /\ Changing(u) => t = u
          /\ \A t \in Threads : Changing(t) => loadedCount[t] = threadCount

\* The mutex is used only once it is initialised, and who is between lock and
\* unlock owns it, unless it was initialised again.
MutexInv ==
    /\ \A t \in Threads : pc[t] \in {"lock", "held", "asleep"} => condInited
    /\ ~initedTwice => \A t \in Threads : pc[t] = "held" => mutexOwner = t

IndInv == ThreadTypeOK /\ CountInv /\ MutexInv

-----------------------------------------------------------------------------
\* The invariant holds initially.
LEMMA InitIndInv == ThreadInit => IndInv
<1> SUFFICES ASSUME ThreadInit PROVE IndInv
  OBVIOUS
<1> USE DEF ThreadInit
<1>1. \A t \in Threads : t # Main /\ pc[t] = "unborn"
  BY ThreadAssumption
<1>2. ThreadTypeOK
  BY <1>1 DEF ThreadTypeOK, States
<1>3. Counted = {}
  BY <1>1 DEF Counted
<1>4. CountInv
  BY <1>1, <1>3, FS_EmptySet DEF CountInv, Changing
<1>5. MutexInv
  BY <1>1 DEF MutexInv
<1> QED
  BY <1>2, <1>4, <1>5 DEF IndInv

\* A step of one thread, or of the main thread, that is counted or not as before.
LEMMA QuietCount ==
    ASSUME IndInv, NEW t \in Threads \cup {Main}, NEW to,
           pc' = [pc EXCEPT ![t] = to],
           t \in Threads => /\ to \in States
                            /\ t \in Counted <=> to \notin {"unborn", "forked", "counting", "ended"}
                            /\ to \notin {"counting", "uncounting"},
           t = Main => to \in {"forking", "waiting", "waited"},
           UNCHANGED <<threadCount, loadedCount, lostCount>>
    PROVE  ThreadTypeOK' /\ CountInv'
<1>1. \A u \in Threads \cup {Main} : pc'[u] = IF u = t THEN to ELSE pc[u]
  BY DEF IndInv, ThreadTypeOK
<1>2. \A u \in Threads : u # Main
  BY ThreadAssumption
<1>3. ThreadTypeOK'
  <2>1. \A u \in Threads : pc'[u] \in States
    BY <1>1 DEF IndInv, ThreadTypeOK
  <2>2. pc' \in [Threads \cup {Main} -> States \cup {"forking", "waiting", "waited"}]
    BY <1>1 DEF IndInv, ThreadTypeOK
  <2> QED
    BY <2>1, <2>2 DEF IndInv, ThreadTypeOK
<1>4. Counted' = Counted
  BY <1>1, <1>2 DEF Counted
<1>5. \A u \in Threads : Changing(u)' => Changing(u)
  BY <1>1, <1>2 DEF Changing
<1>6. CountInv'
  BY <1>4, <1>5 DEF IndInv, CountInv
<1> QED
  BY <1>3, <1>6

\* thread_count++ or thread_count-- reads the count.
LEMMA ReadStep ==
    ASSUME IndInv, NEW t \in Threads, NEW to \in {"counting", "uncounting"}, ReadCount(t, to),
           t \in Counted <=> to = "uncounting"
    PROVE  IndInv'
<1> USE DEF IndInv
<1>w. /\ pc' = [pc EXCEPT ![t] = to]
      /\ loadedCount' = [loadedCount EXCEPT ![t] = threadCount]
      /\ lostCount' = (lostCount \/ \E u \in Threads \ {t} : Changing(u))
      /\ UNCHANGED <<threadCount, condInited, mutexOwner, initedTwice>>
  BY DEF ReadCount, ThreadGoes
<1>1. \A u \in Threads \cup {Main} : pc'[u] = IF u = t THEN to ELSE pc[u]
  BY <1>w DEF ThreadTypeOK
<1>2. ThreadTypeOK'
  BY <1>w, <1>1 DEF ThreadTypeOK, States
<1>3. Counted' = Counted
  BY <1>1 DEF Counted
<1>4. \A u \in Threads : Changing(u)' <=> u = t \/ Changing(u)
  BY <1>1 DEF Changing
<1>5. CountInv'
  <2> SUFFICES ASSUME ~lostCount'
               PROVE  /\ threadCount' = Cardinality(Counted')
                      /\ \A v, u \in Threads : Changing(v)' /\ Changing(u)' => v = u
                      /\ \A u \in Threads : Changing(u)' => loadedCount'[u] = threadCount'
    BY <1>3 DEF CountInv
  <2>1. ~lostCount /\ \A u \in Threads : Changing(u) => u = t
    BY <1>w
  <2>2. \A u \in Threads : Changing(u)' => u = t
    BY <1>4, <2>1
  <2>3. loadedCount'[t] = threadCount
    BY <1>w DEF ThreadTypeOK
  <2> QED
    BY <1>w, <1>3, <2>1, <2>2, <2>3 DEF CountInv
<1>6. MutexInv'
  BY <1>w, <1>1 DEF MutexInv
<1> QED
  BY <1>2, <1>5, <1>6

\* ... and writes it, one more or one less.
LEMMA CountWriteStep ==
    ASSUME IndInv, NEW t \in Threads,
           \/ pc[t] = "counting" /\ WriteCount(t, loadedCount[t] + 1, "running")
           \/ pc[t] = "uncounting" /\ WriteCount(t, loadedCount[t] - 1, "ended")
    PROVE  IndInv'
<1> USE DEF IndInv
<1> DEFINE up == pc[t] = "counting"
           to == IF up THEN "running" ELSE "ended"
<1>w. /\ pc[t] \in {"counting", "uncounting"}
      /\ pc' = [pc EXCEPT ![t] = to]
      /\ threadCount' = IF up THEN loadedCount[t] + 1 ELSE loadedCount[t] - 1
      /\ UNCHANGED <<loadedCount, condInited, mutexOwner, lostCount, initedTwice>>
  BY DEF WriteCount, ThreadGoes
<1>1. \A u \in Threads \cup {Main} : pc'[u] = IF u = t THEN to ELSE pc[u]
  BY <1>w DEF ThreadTypeOK
<1>2. ThreadTypeOK'
  <2>1. threadCount' \in Int
    BY <1>w DEF ThreadTypeOK
  <2> QED
    BY <1>w, <1>1, <2>1 DEF ThreadTypeOK, States
<1>3. Counted' = IF up THEN Counted \cup {t} ELSE Counted \ {t}
  BY <1>w, <1>1 DEF Counted
<1>4. (up => t \notin Counted) /\ (~up => t \in Counted)
  BY <1>w DEF Counted
<1>5. IsFiniteSet(Counted)
  BY DEF CountInv
<1>6. /\ IsFiniteSet(Counted')
      /\ Cardinality(Counted') = IF up THEN Cardinality(Counted) + 1 ELSE Cardinality(Counted) - 1
  BY <1>3, <1>4, <1>5, FS_AddElement, FS_RemoveElement
<1>7. \A u \in Threads : Changing(u)' <=> u # t /\ Changing(u)
  BY <1>1 DEF Changing
<1>8. CountInv'
  <2> SUFFICES ASSUME ~lostCount
               PROVE  /\ threadCount' = Cardinality(Counted')
                      /\ \A u \in Threads : ~Changing(u)'
    BY <1>w, <1>6 DEF CountInv
  <2>1. Changing(t)
    BY <1>w DEF Changing
  <2>2. loadedCount[t] = Cardinality(Counted) /\ \A u \in Threads : Changing(u) => u = t
    BY <2>1 DEF CountInv
  <2> QED
    BY <1>w, <1>6, <1>7, <2>2
<1>9. MutexInv'
  BY <1>w, <1>1 DEF MutexInv
<1> QED
  BY <1>2, <1>8, <1>9

\* The uses of the condition variable keep the mutex.
LEMMA CondStep ==
    ASSUME IndInv, NEW t \in Threads,
           \/ \E how \in {"wait", "signal"} : CondEnter(t, how)
           \/ InitLook(t) \/ InitMutex(t) \/ InitFlag(t) \/ CondLock(t)
           \/ CondSleep(t) \/ CondSpurious(t) \/ CondLeave(t)
    PROVE  IndInv'
<1> USE DEF IndInv
<1>w. \E to \in {"init", "make", "flag", "lock", "held", "asleep", "running"} :
         pc' = [pc EXCEPT ![t] = to]
  BY DEF CondEnter, InitLook, InitMutex, InitFlag, CondLock, CondSleep, CondSpurious,
         CondLeave, ThreadGoes
<1>1. PICK to \in {"init", "make", "flag", "lock", "held", "asleep", "running"} :
         pc' = [pc EXCEPT ![t] = to]
  BY <1>w
<1>2. UNCHANGED <<threadCount, loadedCount, lostCount>>
  BY DEF CondEnter, InitLook, InitMutex, InitFlag, CondLock, CondSleep, CondSpurious, CondLeave
<1>3. t \in Counted /\ t # Main
  BY ThreadAssumption DEF CondEnter, InitLook, InitMutex, InitFlag, CondLock, CondSleep,
     CondSpurious, CondLeave, Counted
<1>4. ThreadTypeOK' /\ CountInv'
  BY <1>1, <1>2, <1>3, QuietCount DEF States
<1>5. \A u \in Threads : pc'[u] = IF u = t THEN to ELSE pc[u]
  BY <1>1 DEF ThreadTypeOK
<1>6. pc'[t] = to
  BY <1>5
<1>7. t # Free
  BY ThreadAssumption
<1>8. MutexInv'
  <2>1. CASE \E how \in {"wait", "signal"} : CondEnter(t, how)
    BY <1>5, <1>6, <2>1 DEF CondEnter, ThreadGoes, MutexInv, ThreadTypeOK
  <2>2. CASE InitLook(t)
    BY <1>5, <1>6, <2>2 DEF InitLook, ThreadGoes, MutexInv, ThreadTypeOK
  <2>3. CASE InitMutex(t)
    BY <1>5, <1>6, <2>3 DEF InitMutex, ThreadGoes, MutexInv, ThreadTypeOK
  <2>4. CASE InitFlag(t)
    BY <1>5, <1>6, <2>4 DEF InitFlag, ThreadGoes, MutexInv, ThreadTypeOK
  <2>5. CASE CondLock(t)
    BY <1>5, <1>6, <1>7, ThreadAssumption, <2>5 DEF CondLock, ThreadGoes, MutexInv, ThreadTypeOK
  <2>6. CASE CondSleep(t)
    BY <1>5, <1>6, <2>6 DEF CondSleep, ThreadGoes, MutexInv, ThreadTypeOK
  <2>7. CASE CondSpurious(t)
    BY <1>5, <1>6, <2>7 DEF CondSpurious, ThreadGoes, MutexInv, ThreadTypeOK
  <2>8. CASE CondLeave(t)
    BY <1>5, <1>6, <2>8 DEF CondLeave, ThreadGoes, MutexInv, ThreadTypeOK
  <2> QED
    BY <2>1, <2>2, <2>3, <2>4, <2>5, <2>6, <2>7, <2>8
<1> QED
  BY <1>4, <1>8

\* A signal wakes up one sleeper, or is lost.
LEMMA SignalStep ==
    ASSUME IndInv, NEW t \in Threads, CondSignal(t)
    PROVE  IndInv'
<1> USE DEF IndInv
<1>w. /\ UNCHANGED <<threadCount, loadedCount, condInited, mutexOwner, lostCount, initedTwice>>
      /\ \/ pc' = pc
         \/ \E u \in Threads : pc[u] = "asleep" /\ pc' = [pc EXCEPT ![u] = "lock"]
  BY DEF CondSignal, ThreadGoes
<1>1. CASE pc' = pc
  BY <1>w, <1>1 DEF ThreadTypeOK, CountInv, MutexInv, Counted, Changing
<1>2. CASE \E u \in Threads : pc[u] = "asleep" /\ pc' = [pc EXCEPT ![u] = "lock"]
  <2>1. PICK u \in Threads : pc[u] = "asleep" /\ pc' = [pc EXCEPT ![u] = "lock"]
    BY <1>2
  <2>2. u \in Counted /\ u # Main
    BY <2>1, ThreadAssumption DEF Counted
  <2>3. ThreadTypeOK' /\ CountInv'
    BY <1>w, <2>1, <2>2, QuietCount DEF States
  <2>4. \A v \in Threads : pc'[v] = IF v = u THEN "lock" ELSE pc[v]
    BY <2>1 DEF ThreadTypeOK
  <2>5. MutexInv'
    BY <1>w, <2>1, <2>4 DEF MutexInv
  <2> QED
    BY <2>3, <2>5
<1> QED
  BY <1>w, <1>1, <1>2

\* Forking and waiting for the last thread change nothing that is counted.
LEMMA MainStep ==
    ASSUME IndInv, WaitLast \/ \E t \in Threads : Fork(t)
    PROVE  IndInv'
<1> USE DEF IndInv
<1>1. CASE WaitLast
  <2>1. PICK to \in {"waiting", "waited"} : pc' = [pc EXCEPT ![Main] = to]
    BY <1>1 DEF WaitLast, ThreadGoes
  <2>2. UNCHANGED <<threadCount, loadedCount, condInited, mutexOwner, lostCount, initedTwice>>
    BY <1>1 DEF WaitLast
  <2>3. Main \notin Threads
    BY ThreadAssumption
  <2>4. ThreadTypeOK' /\ CountInv'
    BY <2>1, <2>2, <2>3, QuietCount
  <2>5. \A u \in Threads : pc'[u] = pc[u]
    BY <2>1, <2>3 DEF ThreadTypeOK
  <2>6. MutexInv'
    BY <2>2, <2>5 DEF MutexInv
  <2> QED
    BY <2>4, <2>6
<1>2. CASE \E t \in Threads : Fork(t)
  <2>1. PICK t \in Threads : Fork(t)
    BY <1>2
  <2>2. /\ pc[t] = "unborn" /\ pc' = [pc EXCEPT ![t] = "forked"]
        /\ UNCHANGED <<threadCount, loadedCount, condInited, mutexOwner, lostCount, initedTwice>>
    BY <2>1 DEF Fork, ThreadGoes
  <2>3. t \notin Counted /\ t # Main
    BY <2>2, ThreadAssumption DEF Counted
  <2>4. ThreadTypeOK' /\ CountInv'
    BY <2>2, <2>3, QuietCount DEF States
  <2>5. \A u \in Threads : pc'[u] = IF u = t THEN "forked" ELSE pc[u]
    BY <2>2 DEF ThreadTypeOK
  <2>6. MutexInv'
    BY <2>2, <2>5 DEF MutexInv
  <2> QED
    BY <2>4, <2>6
<1> QED
  BY <1>1, <1>2

-----------------------------------------------------------------------------
\* Every step keeps the invariant.
LEMMA NextIndInv == IndInv /\ [ThreadNext]_threadVars => IndInv'
<1> SUFFICES ASSUME IndInv, [ThreadNext]_threadVars PROVE IndInv'
  OBVIOUS
<1>1. CASE WaitLast \/ \E t \in Threads : Fork(t)
  BY <1>1, MainStep
<1>2. ASSUME NEW t \in Threads, RealCreate(t) PROVE IndInv'
  <2>1. pc[t] = "forked" => t \notin Counted
    BY DEF Counted
  <2> QED
    BY <1>2, <2>1, ReadStep, CountWriteStep DEF RealCreate
<1>3. ASSUME NEW t \in Threads, ThreadEnds(t) PROVE IndInv'
  <2>1. pc[t] = "running" => t \in Counted
    BY DEF Counted
  <2> QED
    BY <1>3, <2>1, ReadStep, CountWriteStep DEF ThreadEnds
<1>4. CASE UNCHANGED threadVars
  BY <1>4 DEF threadVars, IndInv, ThreadTypeOK, CountInv, MutexInv, Counted, Changing
<1> QED
  BY <1>1, <1>2, <1>3, <1>4, CondStep, SignalStep DEF ThreadNext

\* The invariant holds in every reachable state.
THEOREM ThreadInvariance == ThreadSpec => []IndInv
BY InitIndInv, NextIndInv, PTL DEF ThreadSpec

\* r_thread_wait_last returns only when every thread that has begun has ended, if
\* no two were changing thread_count at once; and the mutex of the condition
\* variables excludes, if it was initialised once.
THEOREM ThreadsAreAwaited == ThreadSpec => []ThreadsAwaited
<1>1. ASSUME IndInv PROVE ThreadsAwaited
  <2>1. ASSUME threadCount = 0, ~lostCount
        PROVE  \A t \in Threads : pc[t] \in {"unborn", "forked", "counting", "ended"}
    <3>1. IsFiniteSet(Counted) /\ Cardinality(Counted) = 0
      BY <1>1, <2>1 DEF IndInv, CountInv
    <3>2. Counted = {}
      BY <3>1, FS_EmptySet
    <3> QED
      BY <3>2 DEF Counted
  <2>2. ASSUME ~initedTwice PROVE Cardinality({t \in Threads : pc[t] = "held"}) <= 1
    <3> DEFINE H == {t \in Threads : pc[t] = "held"}
    <3>1. H \subseteq {mutexOwner}
      BY <1>1, <2>2 DEF IndInv, MutexInv
    <3>2. IsFiniteSet({mutexOwner}) /\ Cardinality({mutexOwner}) = 1
      BY FS_Singleton
    <3> HIDE DEF H
    <3>3. Cardinality(H) <= 1
      BY <3>1, <3>2, FS_Subset
    <3> QED
      BY <3>3 DEF H
  <2> QED
    BY <2>1, <2>2 DEF ThreadsAwaited
<1> QED
  BY <1>1, ThreadInvariance, PTL

-----------------------------------------------------------------------------
(* Statistics. *)
Names == StatTypes \cup {NoName}
ProgStates == {"off", "idle", "create", "zero", "alloc", "write", "count", "store", "check"}

ProgRecords == [pc : ProgStates, seg : 0..SegmentCt, want : Names,
                slot : 0..NR_MAX_STATS_SHMS, read : 0..NR_MAX_STATS_SHMS]

StatsTypeOK ==
    /\ made \in 0..SegmentCt /\ shmKey \in 0..made
    /\ nshms  \in [1..SegmentCt -> 0..NR_MAX_STATS_SHMS]
    /\ header \in [1..SegmentCt -> [Slots -> Names]]
    /\ buffer \in [1..SegmentCt -> [Slots -> {"zero", "used"}]]
    /\ prog \in [Programs -> ProgRecords]
    /\ stats \in [Programs -> [StatTypes -> 0..NR_MAX_STATS_SHMS]]

\* The headers that count have different names, a buffer that nobody has is zero,
\* and a segment to come is empty.
SegmentInv ==
    \A s \in 1..SegmentCt :
        /\ \A i, j \in 1..nshms[s] : header[s][i] = header[s][j] => i = j
        /\ \A i \in Slots : i > nshms[s] => buffer[s][i] = "zero"
        /\ s > made => nshms[s] = 0

\* What a process knows, where it is in NR_stats_startup or in NR_stats_get, about
\* a segment with n headers h.
Knows(r, n, h) ==
    /\ r.pc = "zero" => n = 0
    /\ r.pc \in {"alloc", "write", "count", "store"} =>
          r.want \in StatTypes /\ \A i \in 1..n : h[i] # r.want
    /\ r.pc \in {"write", "count", "store"} => r.slot = n + 1
    /\ r.pc \in {"count", "store"} => h[r.slot] = r.want
    /\ r.pc = "store" => r.read = n
    /\ r.pc = "check" => n > 0 /\ r.slot = n /\ h[n] = r.want /\ r.want \in StatTypes

\* Its pointers are to headers that count and have the name that was asked for.
Points(ptrs, n, h) == \A t \in StatTypes : ptrs[t] # 0 => ptrs[t] \in 1..n /\ h[ptrs[t]] = t

ProgInv(p) ==
    /\ prog[p].pc \in {"off", "create"} => prog[p].seg = 0 /\ stats[p] = NoStats
    /\ prog[p].pc = "create" => shmKey = 0
    /\ prog[p].pc \notin {"off", "create"} =>
          /\ prog[p].seg \in 1..made
          /\ Knows(prog[p], nshms[prog[p].seg], header[prog[p].seg])
          /\ Points(stats[p], nshms[prog[p].seg], header[prog[p].seg])

OneBusy == \A p, q \in Programs : Busy(p) /\ Busy(q) => p = q

Unraced == StatsTypeOK /\ SegmentInv /\ OneBusy /\ \A p \in Programs : ProgInv(p)
StatsIndInv == ~raced => Unraced

-----------------------------------------------------------------------------
\* With different names, find_stats gives the header that has the name.
LEMMA FindLemma ==
    ASSUME StatsTypeOK, SegmentInv, NEW s \in 1..SegmentCt, NEW name
    PROVE  /\ \A i \in 1..nshms[s] : header[s][i] = name => FindStats(s, name) = i
           /\ FindStats(s, name) = 0 => \A i \in 1..nshms[s] : header[s][i] # name
           /\ FindStats(s, name) # 0 =>
                 FindStats(s, name) \in 1..nshms[s] /\ header[s][FindStats(s, name)] = name
<1> DEFINE hits == {i \in 1..nshms[s] : i \in Slots /\ header[s][i] = name}
<1>1. nshms[s] \in 0..NR_MAX_STATS_SHMS
  BY DEF StatsTypeOK
<1>2. \A i \in 1..nshms[s] : i \in Slots /\ i \in Nat /\ i # 0
  BY <1>1, StatsAssumption DEF Slots
<1>3. \A i, j \in hits : i = j
  BY DEF SegmentInv
<1>4. FindStats(s, name) = IF hits = {} THEN 0 ELSE CHOOSE i \in hits : \A j \in hits : i <= j
  BY DEF FindStats
<1>5. ASSUME NEW i \in hits PROVE FindStats(s, name) = i
  <2>1. \A j \in hits : i <= j
    BY <1>1, <1>3
  <2>2. (CHOOSE k \in hits : \A j \in hits : k <= j) \in hits
    BY <2>1
  <2> QED
    BY <1>3, <1>4, <2>2
<1>6. hits = {} => FindStats(s, name) = 0
  BY <1>4
<1>7. \A i \in 1..nshms[s] : header[s][i] = name => i \in hits
  BY <1>2
<1>8. CASE hits = {}
  BY <1>6, <1>7, <1>8
<1>9. CASE hits # {}
  <2>1. PICK i \in hits : TRUE
    BY <1>9
  <2>2. FindStats(s, name) = i
    BY <1>5, <2>1
  <2> QED
    BY <1>2, <1>5, <1>7, <2>1, <2>2
<1> QED
  BY <1>8, <1>9

\* A process that stands still, and whose segment does: what it knows stays true.
LEMMA StayLemma ==
    ASSUME NEW q \in Programs, StatsTypeOK, ProgInv(q),
           prog'[q] = prog[q], stats'[q] = stats[q], made' \in Nat, made <= made',
           prog[q].pc = "create" => shmKey' = 0,
           prog[q].pc \notin {"off", "create"} =>
              nshms'[prog[q].seg] = nshms[prog[q].seg] /\ header'[prog[q].seg] = header[prog[q].seg]
    PROVE  ProgInv(q)'
<1>1. made \in Nat
  BY StatsAssumption DEF StatsTypeOK
<1>2. prog[q].seg \in 1..made => prog[q].seg \in 1..made'
  BY <1>1
<1> QED
  BY <1>2 DEF ProgInv

\* A step in which one process moves, and no segment changes.
LEMMA OwnStep ==
    ASSUME Unraced, NEW p \in Programs, NEW r \in ProgRecords,
           NEW ptrs \in [StatTypes -> 0..NR_MAX_STATS_SHMS],
           prog' = [prog EXCEPT ![p] = r], stats' = [stats EXCEPT ![p] = ptrs],
           UNCHANGED <<nshms, header, buffer>>,
           made' \in 0..SegmentCt, made <= made', shmKey' \in 0..made',
           \A q \in Programs \ {p} : prog[q].pc = "create" => shmKey' = 0,
           r.pc \notin {"off", "idle"} => \A q \in Programs \ {p} : ~Busy(q),
           ProgInv(p)'
    PROVE  Unraced'
<1> USE DEF Unraced
<1>1. /\ prog'[p] = r /\ stats'[p] = ptrs
      /\ \A q \in Programs \ {p} : prog'[q] = prog[q] /\ stats'[q] = stats[q]
  BY DEF StatsTypeOK
<1>2. StatsTypeOK'
  BY DEF StatsTypeOK, ProgRecords
<1>3. SegmentInv'
  BY StatsAssumption DEF SegmentInv, StatsTypeOK
<1>4. OneBusy'
  BY <1>1 DEF OneBusy, Busy
<1>5. ASSUME NEW q \in Programs \ {p} PROVE ProgInv(q)'
  <2>1. made' \in Nat
    BY StatsAssumption
  <2> QED
    BY <1>1, <2>1, StayLemma
<1> QED
  BY <1>2, <1>3, <1>4, <1>5

\* What the invariant says of one process and of those that are not busy.
LEMMA ProgFacts ==
    ASSUME Unraced, NEW p \in Programs
    PROVE  /\ prog[p] \in ProgRecords /\ stats[p] \in [StatTypes -> 0..NR_MAX_STATS_SHMS]
           /\ stats = [stats EXCEPT ![p] = stats[p]]
           /\ made \in 0..SegmentCt /\ shmKey \in 0..made /\ shmKey \in 0..SegmentCt
           /\ SegmentCt \in Nat /\ NR_MAX_STATS_SHMS \in Nat
           /\ Busy(p) => \A q \in Programs \ {p} : ~Busy(q)
           /\ \A q \in Programs : prog[q].pc = "create" => Busy(q) /\ shmKey = 0
           /\ UNCHANGED <<shmKey, made>> =>
                 made' \in 0..SegmentCt /\ made <= made' /\ shmKey' \in 0..made'
           /\ UNCHANGED stats => stats' = [stats EXCEPT ![p] = stats[p]]
           /\ ProgInv(p)
<1> USE DEF Unraced
<1>1. /\ prog[p] \in ProgRecords /\ stats[p] \in [StatTypes -> 0..NR_MAX_STATS_SHMS]
      /\ stats = [stats EXCEPT ![p] = stats[p]]
      /\ made \in 0..SegmentCt /\ shmKey \in 0..made /\ SegmentCt \in Nat
      /\ NR_MAX_STATS_SHMS \in Nat
  BY StatsAssumption DEF StatsTypeOK
<1>2. Busy(p) => \A q \in Programs \ {p} : ~Busy(q)
  BY DEF OneBusy
<1>3. \A q \in Programs : prog[q].pc = "create" => Busy(q) /\ shmKey = 0
  BY DEF Busy, ProgInv
<1>4. /\ shmKey \in 0..SegmentCt
      /\ UNCHANGED <<shmKey, made>> =>
            made' \in 0..SegmentCt /\ made <= made' /\ shmKey' \in 0..made'
      /\ UNCHANGED stats => stats' = [stats EXCEPT ![p] = stats[p]]
  BY <1>1
<1> QED
  BY <1>1, <1>2, <1>3, <1>4

\* NR_stats_startup, up to the attached segment.
LEMMA StartupStep ==
    ASSUME Unraced, ~raced, ~raced', NEW p \in Programs,
           StartupAttach(p) \/ StartupMissing(p) \/ StartupCreate(p) \/ StartupZero(p)
    PROVE  Unraced'
<1> USE DEF Unraced
<1>1. CASE StartupAttach(p)
  <2> DEFINE r == [prog[p] EXCEPT !.pc = "idle", !.seg = shmKey]
  <2>1. /\ prog[p].pc = "off" /\ shmKey # 0 /\ prog' = [prog EXCEPT ![p] = r]
        /\ UNCHANGED <<shmKey, made, nshms, header, buffer, stats>>
    BY <1>1 DEF StartupAttach, segment, StatsTypeOK
  <2>2. r \in ProgRecords /\ r.pc = "idle" /\ r.seg = shmKey
    <3>1. prog[p] \in ProgRecords /\ shmKey \in 0..SegmentCt
      BY ProgFacts
    <3> QED
      BY <3>1 DEF ProgRecords, ProgStates
  <2>3. stats[p] = NoStats
    BY <2>1 DEF ProgInv
  <2>4. ProgInv(p)'
    <3>1. prog'[p] = r /\ stats'[p] = NoStats
      BY <2>1, <2>3 DEF StatsTypeOK
    <3>2. Knows(r, nshms[shmKey], header[shmKey]) /\ Points(NoStats, nshms[shmKey], header[shmKey])
      BY <2>2 DEF Knows, Points, NoStats
    <3> QED
      BY ProgFacts, <2>1, <2>2, <3>1, <3>2 DEF ProgInv
  <2> QED
    <3> HIDE DEF r
    <3> QED
      BY ProgFacts, <2>1, <2>2, <2>4, OwnStep
<1>2. CASE StartupMissing(p)
  <2> DEFINE r == [prog[p] EXCEPT !.pc = "create"]
  <2>1. /\ prog[p].pc = "off" /\ shmKey = 0 /\ prog' = [prog EXCEPT ![p] = r]
        /\ \A q \in Programs \ {p} : ~Busy(q)
        /\ UNCHANGED <<shmKey, made, nshms, header, buffer, stats>>
    BY <1>2 DEF StartupMissing, Enters, segment, StatsTypeOK
  <2>2. r \in ProgRecords /\ r.pc = "create" /\ r.seg = prog[p].seg
    BY ProgFacts DEF ProgRecords, ProgStates
  <2>3. stats[p] = NoStats /\ prog[p].seg = 0
    BY <2>1 DEF ProgInv
  <2>4. ProgInv(p)'
    <3>1. prog'[p] = r /\ stats'[p] = NoStats
      BY <2>1, <2>3 DEF StatsTypeOK
    <3> QED
      BY <2>1, <2>2, <2>3, <3>1 DEF ProgInv
  <2> QED
    <3> HIDE DEF r
    <3> QED
      BY ProgFacts, <2>1, <2>2, <2>4, OwnStep
<1>3. CASE StartupCreate(p)
  <2> DEFINE r == [prog[p] EXCEPT !.pc = "zero", !.seg = made + 1]
  <2>1. prog[p].pc = "create" /\ shmKey = 0 /\ Busy(p) /\ stats[p] = NoStats
    BY <1>3 DEF StartupCreate, Busy, ProgInv
  <2>2. /\ made < SegmentCt /\ made' = made + 1 /\ shmKey' = made + 1
        /\ prog' = [prog EXCEPT ![p] = r] /\ UNCHANGED <<nshms, header, buffer, stats>>
    BY <1>3, <2>1 DEF StartupCreate, StatsTypeOK
  <2>4. made + 1 \in 0..SegmentCt /\ made + 1 \in 1..SegmentCt /\ nshms[made + 1] = 0
    BY ProgFacts, <2>2 DEF SegmentInv
  <2>3. r \in ProgRecords /\ r.pc = "zero" /\ r.seg = made + 1
    BY ProgFacts, <2>4 DEF ProgRecords, ProgStates
  <2>5. ProgInv(p)'
    <3>1. prog'[p] = r /\ stats'[p] = NoStats
      BY <2>1, <2>2 DEF StatsTypeOK
    <3>2. Knows(r, nshms[made + 1], header[made + 1])
      BY <2>3, <2>4 DEF Knows
    <3>3. Points(NoStats, nshms[made + 1], header[made + 1])
      BY DEF Points, NoStats
    <3>4. made + 1 \in 1..made'
      BY ProgFacts, <2>2
    <3> QED
      BY <2>2, <2>3, <3>1, <3>2, <3>3, <3>4 DEF ProgInv
  <2>6. \A q \in Programs \ {p} : prog[q].pc # "create"
    BY ProgFacts, <2>1
  <2>7. made' \in 0..SegmentCt /\ made <= made' /\ shmKey' \in 0..made'
    BY ProgFacts, <2>2
  <2> QED
    <3> HIDE DEF r
    <3> QED
      BY ProgFacts, <2>1, <2>2, <2>3, <2>5, <2>6, <2>7, OwnStep
<1>4. CASE StartupZero(p)
  <2> DEFINE r == [prog[p] EXCEPT !.pc = "idle"]
  <2>1. /\ prog[p].pc = "zero" /\ prog' = [prog EXCEPT ![p] = r]
        /\ nshms' = [nshms EXCEPT ![prog[p].seg] = 0]
        /\ UNCHANGED <<shmKey, made, header, buffer, stats>>
    BY <1>4 DEF StartupZero, StatsTypeOK
  <2>2. /\ prog[p].seg \in 1..made /\ nshms[prog[p].seg] = 0
        /\ Points(stats[p], nshms[prog[p].seg], header[prog[p].seg])
    BY <2>1 DEF ProgInv, Knows
  <2>3. nshms' = nshms
    BY <2>1, <2>2 DEF StatsTypeOK
  <2>4. r \in ProgRecords /\ r.pc = "idle" /\ r.seg = prog[p].seg
    BY ProgFacts DEF ProgRecords, ProgStates
  <2>5. ProgInv(p)'
    <3>1. prog'[p] = r /\ stats'[p] = stats[p]
      BY <2>1 DEF StatsTypeOK
    <3>2. Knows(r, nshms[prog[p].seg], header[prog[p].seg])
      BY <2>4 DEF Knows
    <3> QED
      BY <2>1, <2>2, <2>3, <2>4, <3>1, <3>2 DEF ProgInv
  <2> QED
    <3> HIDE DEF r
    <3> QED
      BY ProgFacts, <2>1, <2>3, <2>4, <2>5, OwnStep
<1> QED
  BY <1>1, <1>2, <1>3, <1>4

\* A statistic that find_stats finds: the pointer is to it.
LEMMA FoundStep ==
    ASSUME Unraced, NEW p \in Programs, NEW t \in StatTypes, GetFound(p, t) \/ GetByName(p, t)
    PROVE  Unraced'
<1> USE DEF Unraced
<1> DEFINE s    == prog[p].seg
           i    == FindStats(s, t)
           ptrs == [stats[p] EXCEPT ![t] = i]
<1>1. /\ prog[p].pc = "idle" /\ i # 0 /\ stats' = [stats EXCEPT ![p] = ptrs]
      /\ UNCHANGED <<shmKey, made, nshms, header, buffer, prog>>
  BY DEF GetFound, GetByName, segment, StatsTypeOK
<1>2. s \in 1..made /\ Knows(prog[p], nshms[s], header[s]) /\ Points(stats[p], nshms[s], header[s])
  BY <1>1 DEF ProgInv
<1>3. s \in 1..SegmentCt /\ nshms[s] \in 0..NR_MAX_STATS_SHMS
  BY <1>2, ProgFacts DEF StatsTypeOK
<1> HIDE DEF s, i
<1>4. i \in 1..nshms[s] /\ header[s][i] = t
  BY <1>1, <1>3, FindLemma DEF i
<1>5. ptrs \in [StatTypes -> 0..NR_MAX_STATS_SHMS]
  <2>1. i \in 0..NR_MAX_STATS_SHMS
    BY <1>3, <1>4, ProgFacts
  <2> QED
    BY <2>1, ProgFacts
<1>6. Points(ptrs, nshms[s], header[s])
  BY <1>2, <1>4, ProgFacts DEF Points
<1> HIDE DEF ptrs
<1>7. prog' = [prog EXCEPT ![p] = prog[p]] /\ prog'[p] = prog[p] /\ stats'[p] = ptrs
  BY <1>1 DEF StatsTypeOK
<1>8. ProgInv(p)'
  BY <1>1, <1>2, <1>6, <1>7 DEF ProgInv, s
<1> QED
  BY <1>1, <1>5, <1>7, <1>8, ProgFacts, OwnStep

\* One that it does not find; a place for it; the count is read.
LEMMA AllocStep ==
    ASSUME Unraced, ~raced, ~raced', NEW p \in Programs,
           (\E t \in StatTypes : GetMissing(p, t)) \/ AllocPlace(p) \/ AllocRead(p)
    PROVE  Unraced'
<1> USE DEF Unraced
<1> DEFINE s == prog[p].seg
           n == nshms[s]
<1>1. /\ prog[p].pc \in {"idle", "alloc", "count"}
      /\ UNCHANGED <<shmKey, made, nshms, header, buffer, stats>>
  BY DEF GetMissing, AllocPlace, AllocRead, segment
<1>2. s \in 1..made /\ Knows(prog[p], n, header[s]) /\ Points(stats[p], n, header[s])
  BY <1>1 DEF ProgInv
<1>3. s \in 1..SegmentCt /\ n \in 0..NR_MAX_STATS_SHMS
  BY <1>2, ProgFacts DEF StatsTypeOK
<1>4. ASSUME NEW r \in ProgRecords, prog' = [prog EXCEPT ![p] = r], r.seg = s,
             r.pc \in {"idle", "alloc", "write", "store"}, Knows(r, n, header[s]),
             r.pc # "idle" => \A q \in Programs \ {p} : ~Busy(q)
      PROVE  Unraced'
  <2>1. prog'[p] = r /\ stats'[p] = stats[p]
    BY <1>1, <1>4 DEF StatsTypeOK
  <2>2. ProgInv(p)'
    BY <1>1, <1>2, <1>4, <2>1 DEF ProgInv
  <2> QED
    BY <1>1, <1>4, <2>2, ProgFacts, OwnStep
<1>5. ASSUME NEW t \in StatTypes, GetMissing(p, t) PROVE Unraced'
  <2> DEFINE r == [prog[p] EXCEPT !.pc = "alloc", !.want = t]
  <2>1. /\ prog' = [prog EXCEPT ![p] = r] /\ FindStats(s, t) = 0
        /\ \A q \in Programs \ {p} : ~Busy(q)
    BY <1>5 DEF GetMissing, Enters, StatsTypeOK
  <2>2. \A i \in 1..n : header[s][i] # t
    BY <1>3, <2>1, FindLemma
  <2>3. r \in ProgRecords /\ r.pc = "alloc" /\ r.want = t /\ r.seg = s
    <3>1. t \in Names /\ prog[p] \in ProgRecords
      BY ProgFacts DEF Names
    <3> QED
      BY <3>1 DEF ProgRecords, ProgStates
  <2> HIDE DEF r
  <2>4. Knows(r, n, header[s])
    BY <2>2, <2>3 DEF Knows
  <2> QED
    BY <1>4, <2>1, <2>3, <2>4
<1>6. CASE AllocPlace(p)
  <2> DEFINE full == n >= NR_MAX_STATS_SHMS \/ n > SegmentRoom
             r == [prog[p] EXCEPT !.pc = IF full THEN "idle" ELSE "write",
                                  !.slot = IF full THEN 0 ELSE n + 1]
  <2>1. prog' = [prog EXCEPT ![p] = r] /\ prog[p].pc = "alloc" /\ Busy(p)
    BY <1>6 DEF AllocPlace, StatsTypeOK, Busy
  <2>2. (IF full THEN 0 ELSE n + 1) \in 0..NR_MAX_STATS_SHMS
    BY <1>3, ProgFacts
  <2>3. /\ r \in ProgRecords /\ r.want = prog[p].want /\ r.seg = s
        /\ \/ r.pc = "idle"
           \/ r.pc = "write" /\ r.slot = n + 1
    <3>1. prog[p] \in ProgRecords /\ prog[p].seg = s
      BY ProgFacts
    <3> HIDE DEF full
    <3> QED
      BY <1>2, <2>2, <3>1 DEF ProgRecords, ProgStates
  <2>4. Knows(r, n, header[s])
    <3> HIDE DEF r
    <3> QED
      BY <1>2, <2>1, <2>3 DEF Knows
  <2> HIDE DEF r
  <2> QED
    BY <1>4, <2>1, <2>3, <2>4, ProgFacts
<1>7. CASE AllocRead(p)
  <2> DEFINE r == [prog[p] EXCEPT !.pc = "store", !.read = n]
  <2>1. prog' = [prog EXCEPT ![p] = r] /\ prog[p].pc = "count" /\ Busy(p)
    BY <1>7 DEF AllocRead, StatsTypeOK, Busy
  <2>3. /\ r \in ProgRecords /\ r.want = prog[p].want /\ r.seg = s /\ r.pc = "store"
        /\ r.read = n /\ r.slot = prog[p].slot
    <3>1. prog[p] \in ProgRecords
      BY ProgFacts
    <3> QED
      BY <1>3, <3>1 DEF ProgRecords, ProgStates
  <2> HIDE DEF r
  <2>4. Knows(r, n, header[s])
    BY <1>2, <2>1, <2>3 DEF Knows
  <2> QED
    BY <1>4, <2>1, <2>3, <2>4, ProgFacts
<1> QED
  BY <1>5, <1>6, <1>7

\* The end of NR_stats_get.
LEMMA CheckStep ==
    ASSUME Unraced, NEW p \in Programs, AllocCheck(p)
    PROVE  Unraced'
<1> USE DEF Unraced
<1> DEFINE s    == prog[p].seg
           n    == nshms[s]
           r    == [Off EXCEPT !.pc = "idle", !.seg = s]
           ptrs == [stats[p] EXCEPT ![prog[p].want] = prog[p].slot]
<1>1. /\ prog[p].pc = "check" /\ prog' = [prog EXCEPT ![p] = r]
      /\ stats' = [stats EXCEPT ![p] = ptrs]
      /\ UNCHANGED <<shmKey, made, nshms, header, buffer>>
  BY DEF AllocCheck, segment, StatsTypeOK
<1>2. s \in 1..made /\ Knows(prog[p], n, header[s]) /\ Points(stats[p], n, header[s])
  BY <1>1 DEF ProgInv
<1>3. s \in 1..SegmentCt /\ n \in 0..NR_MAX_STATS_SHMS /\ s \in 0..SegmentCt
  BY <1>2, ProgFacts DEF StatsTypeOK
<1>4. /\ prog[p].slot = n /\ n > 0 /\ header[s][n] = prog[p].want /\ prog[p].want \in StatTypes
  BY <1>1, <1>2 DEF Knows
<1>5. r \in ProgRecords /\ r.pc = "idle" /\ r.seg = s
  <2>1. NoName \in Names /\ 0 \in 0..NR_MAX_STATS_SHMS
    BY ProgFacts DEF Names
  <2> QED
    BY <1>3, <2>1 DEF ProgRecords, ProgStates, Off
<1>6. ptrs \in [StatTypes -> 0..NR_MAX_STATS_SHMS]
  BY <1>3, <1>4, ProgFacts
<1>7. Points(ptrs, n, header[s])
  <2>1. n \in 1..n
    BY <1>3, <1>4
  <2> QED
    BY <1>2, <1>4, <2>1, ProgFacts DEF Points
<1> HIDE DEF r, ptrs
<1>8. prog'[p] = r /\ stats'[p] = ptrs
  BY <1>1 DEF StatsTypeOK
<1>9. Knows(r, n, header[s])
  BY <1>5 DEF Knows
<1>10. ProgInv(p)'
  BY <1>1, <1>2, <1>5, <1>7, <1>8, <1>9 DEF ProgInv
<1> QED
  BY <1>1, <1>5, <1>6, <1>10, ProgFacts, OwnStep

\* A process that shuts its statistics down, or dies.
LEMMA EndStep ==
    ASSUME Unraced, NEW p \in Programs, Shutdown(p) \/ Dies(p)
    PROVE  Unraced'
<1> USE DEF Unraced
<1>1. /\ prog' = [prog EXCEPT ![p] = Off] /\ stats' = [stats EXCEPT ![p] = NoStats]
      /\ UNCHANGED <<shmKey, made, nshms, header, buffer>>
  BY DEF Shutdown, Dies, segment
<1>2. Off \in ProgRecords /\ Off.pc = "off" /\ Off.seg = 0
  <2>1. NoName \in Names /\ 0 \in 0..NR_MAX_STATS_SHMS /\ 0 \in 0..SegmentCt
    BY ProgFacts DEF Names
  <2> QED
    BY <2>1 DEF ProgRecords, ProgStates, Off
<1>3. NoStats \in [StatTypes -> 0..NR_MAX_STATS_SHMS]
  BY ProgFacts DEF NoStats
<1>4. prog'[p] = Off /\ stats'[p] = NoStats
  BY <1>1 DEF StatsTypeOK
<1>5. ProgInv(p)'
  BY <1>2, <1>4 DEF ProgInv
<1> QED
  BY <1>1, <1>2, <1>3, <1>5, ProgFacts, OwnStep

\* A process that changes the segment while no other one is busy: the headers that
\* count stay, so every other process keeps its pointers.
LEMMA GrowLemma ==
    ASSUME Unraced, NEW p \in Programs, NEW q \in Programs \ {p}, Busy(p),
           prog'[q] = prog[q], UNCHANGED <<shmKey, made, stats>>,
           \A s \in 1..SegmentCt :
              /\ nshms'[s] \in Nat /\ nshms[s] <= nshms'[s]
              /\ \A i \in 1..nshms[s] : header'[s][i] = header[s][i]
    PROVE  ProgInv(q)' /\ ~Busy(q)'
<1> USE DEF Unraced
<1>1. prog[q].pc \in {"off", "idle"}
  BY ProgFacts DEF Busy
<1>2. CASE prog[q].pc = "off"
  BY <1>2 DEF ProgInv, Busy
<1>3. CASE prog[q].pc = "idle"
  <2> DEFINE s == prog[q].seg
  <2>1. s \in 1..made /\ Points(stats[q], nshms[s], header[s])
    BY <1>3 DEF ProgInv
  <2>2. s \in 1..SegmentCt
    BY <2>1, ProgFacts
  <2>3. nshms[s] \in Nat /\ nshms'[s] \in Nat /\ nshms[s] <= nshms'[s]
    BY <2>2, ProgFacts DEF StatsTypeOK
  <2>4. Points(stats[q], nshms'[s], header'[s])
    BY <2>1, <2>2, <2>3 DEF Points
  <2>5. Knows(prog[q], nshms'[s], header'[s])
    BY <1>3 DEF Knows
  <2> QED
    BY <1>3, <2>1, <2>4, <2>5 DEF ProgInv, Busy
<1> QED
  BY <1>1, <1>2, <1>3

\* alloc_stats writes the header behind the last one.
LEMMA WriteStep ==
    ASSUME Unraced, NEW p \in Programs, AllocWrite(p)
    PROVE  Unraced'
<1> USE DEF Unraced
<1> DEFINE s == prog[p].seg
           n == nshms[s]
           r == [prog[p] EXCEPT !.pc = "count"]
<1>1. /\ prog[p].pc = "write" /\ prog' = [prog EXCEPT ![p] = r] /\ Busy(p)
      /\ header' = [header EXCEPT ![s][prog[p].slot] = prog[p].want]
      /\ UNCHANGED <<shmKey, made, nshms, buffer, stats>>
  BY DEF AllocWrite, Busy, StatsTypeOK
<1>2. s \in 1..made /\ Knows(prog[p], n, header[s]) /\ Points(stats[p], n, header[s])
  BY <1>1 DEF ProgInv
<1>3. s \in 1..SegmentCt /\ n \in 0..NR_MAX_STATS_SHMS /\ n + 1 \in Slots
  BY <1>2, ProgFacts, StatsAssumption DEF StatsTypeOK, Slots
<1>4. /\ prog[p].slot = n + 1 /\ prog[p].want \in StatTypes
      /\ \A i \in 1..n : header[s][i] # prog[p].want
  BY <1>1, <1>2 DEF Knows
<1>5. /\ r \in ProgRecords /\ r.pc = "count" /\ r.seg = s /\ r.want = prog[p].want
      /\ r.slot = prog[p].slot
  BY ProgFacts DEF ProgRecords, ProgStates
<1> HIDE DEF r
<1>6. \A u \in 1..SegmentCt, i \in Slots :
         header'[u][i] = IF u = s /\ i = n + 1 THEN prog[p].want ELSE header[u][i]
  BY <1>1, <1>3, <1>4 DEF StatsTypeOK
<1>7. \A u \in 1..SegmentCt : nshms[u] \in Nat /\ 1..nshms[u] \subseteq Slots
  BY StatsAssumption DEF StatsTypeOK, Slots
<1>8. \A u \in 1..SegmentCt : \A i \in 1..nshms[u] : header'[u][i] = header[u][i]
  BY <1>3, <1>6, <1>7
<1>9. StatsTypeOK'
  <2>1. header' \in [1..SegmentCt -> [Slots -> Names]]
    <3>1. prog[p].want \in Names /\ [header[s] EXCEPT ![n + 1] = prog[p].want] \in [Slots -> Names]
      BY <1>3, <1>4 DEF Names, StatsTypeOK
    <3> QED
      BY <1>1, <1>3, <1>4, <3>1 DEF StatsTypeOK
  <2> QED
    BY <1>1, <1>5, <2>1 DEF StatsTypeOK
<1>10. SegmentInv'
  BY <1>1, <1>8 DEF SegmentInv
<1>11. prog'[p] = r /\ \A q \in Programs \ {p} : prog'[q] = prog[q]
  BY <1>1 DEF StatsTypeOK
<1>12. \A q \in Programs \ {p} : ProgInv(q)' /\ ~Busy(q)'
  BY <1>1, <1>7, <1>8, <1>11, GrowLemma
<1>13. ProgInv(p)'
  <2>1. Knows(r, n, header'[s])
    BY <1>3, <1>4, <1>5, <1>6, <1>8 DEF Knows
  <2>2. Points(stats[p], n, header'[s])
    BY <1>2, <1>3, <1>8 DEF Points
  <2> QED
    BY <1>1, <1>2, <1>5, <1>11, <2>1, <2>2 DEF ProgInv
<1> QED
  BY <1>9, <1>10, <1>12, <1>13 DEF OneBusy

\* ++nshms, with nobody in between: the new header counts.
LEMMA StoreStep ==
    ASSUME Unraced, NEW p \in Programs, AllocStore(p)
    PROVE  Unraced'
<1> USE DEF Unraced
<1> DEFINE s == prog[p].seg
           n == nshms[s]
           r == [prog[p] EXCEPT !.pc = "check", !.read = 0]
<1>1. /\ prog[p].pc = "store" /\ prog' = [prog EXCEPT ![p] = r] /\ Busy(p)
      /\ nshms' = [nshms EXCEPT ![s] = prog[p].read + 1]
      /\ UNCHANGED <<shmKey, made, header, buffer, stats>>
  BY DEF AllocStore, Busy, StatsTypeOK
<1>2. s \in 1..made /\ Knows(prog[p], n, header[s]) /\ Points(stats[p], n, header[s])
  BY <1>1 DEF ProgInv
<1>3. s \in 1..SegmentCt /\ n \in 0..NR_MAX_STATS_SHMS
  BY <1>2, ProgFacts DEF StatsTypeOK
<1>4. /\ prog[p].slot = n + 1 /\ prog[p].read = n /\ header[s][n + 1] = prog[p].want
      /\ prog[p].want \in StatTypes /\ \A i \in 1..n : header[s][i] # prog[p].want
  BY <1>1, <1>2 DEF Knows
<1>5. /\ r \in ProgRecords /\ r.pc = "check" /\ r.seg = s /\ r.want = prog[p].want
      /\ r.slot = n + 1
  <2>1. 0 \in 0..NR_MAX_STATS_SHMS /\ prog[p] \in ProgRecords
    BY ProgFacts
  <2> QED
    BY <1>4, <2>1 DEF ProgRecords, ProgStates
<1> HIDE DEF r
<1>6. n + 1 \in 0..NR_MAX_STATS_SHMS
  <2>1. prog[p].slot \in 0..NR_MAX_STATS_SHMS
    BY ProgFacts DEF ProgRecords
  <2> QED
    BY <1>4, <2>1
<1>7. \A u \in 1..SegmentCt : nshms'[u] = IF u = s THEN n + 1 ELSE nshms[u]
  BY <1>1, <1>3, <1>4 DEF StatsTypeOK
<1>8. \A u \in 1..SegmentCt : nshms[u] \in Nat /\ nshms'[u] \in Nat /\ nshms[u] <= nshms'[u]
  BY <1>3, <1>7, StatsAssumption DEF StatsTypeOK
<1>9. StatsTypeOK'
  BY <1>1, <1>4, <1>5, <1>6 DEF StatsTypeOK
<1>10. SegmentInv'
  <2> SUFFICES ASSUME NEW u \in 1..SegmentCt
               PROVE  /\ \A i, j \in 1..nshms'[u] : header[u][i] = header[u][j] => i = j
                      /\ \A i \in Slots : i > nshms'[u] => buffer[u][i] = "zero"
                      /\ u > made => nshms'[u] = 0
    BY <1>1 DEF SegmentInv
  <2>1. /\ \A i, j \in 1..nshms[u] : header[u][i] = header[u][j] => i = j
        /\ \A i \in Slots : i > nshms[u] => buffer[u][i] = "zero"
        /\ u > made => nshms[u] = 0
    BY DEF SegmentInv
  <2>2. CASE u # s
    BY <1>7, <2>1, <2>2
  <2>3. CASE u = s
    <3>1. nshms'[u] = n + 1 /\ nshms[u] = n /\ ~(u > made)
      BY <1>2, <1>7, <2>3, ProgFacts
    <3>2. \A i \in 1..(n + 1) : i \in 1..n \/ i = n + 1
      BY <1>3
    <3>3. \A i \in 1..n : header[u][i] # header[u][n + 1]
      BY <1>4, <2>3
    <3>4. \A i, j \in 1..(n + 1) : header[u][i] = header[u][j] => i = j
      BY <2>1, <3>1, <3>2, <3>3
    <3>5. \A i \in Slots : i > n + 1 => i > n
      BY <1>3, StatsAssumption DEF Slots
    <3> QED
      BY <2>1, <3>1, <3>4, <3>5
  <2> QED
    BY <2>2, <2>3
<1>11. prog'[p] = r /\ \A q \in Programs \ {p} : prog'[q] = prog[q]
  BY <1>1 DEF StatsTypeOK
<1>12. \A q \in Programs \ {p} : ProgInv(q)' /\ ~Busy(q)'
  BY <1>1, <1>8, <1>11, GrowLemma
<1>13. ProgInv(p)'
  <2>1. nshms'[s] = n + 1 /\ n + 1 > 0
    BY <1>3, <1>7
  <2>2. Knows(r, n + 1, header[s])
    BY <1>4, <1>5, <2>1 DEF Knows
  <2>3. Points(stats[p], n + 1, header[s])
    <3>1. \A i \in 1..n : i \in 1..(n + 1)
      BY <1>3
    <3> QED
      BY <1>2, <3>1 DEF Points
  <2> QED
    BY <1>1, <1>2, <1>5, <1>11, <2>1, <2>2, <2>3 DEF ProgInv
<1> QED
  BY <1>9, <1>10, <1>12, <1>13 DEF OneBusy

\* A process writes to a buffer that it has a pointer to, so to one that counts.
LEMMA BufferStep ==
    ASSUME Unraced, NEW p \in Programs, NEW t \in StatTypes, NEW v \in {"zero", "used"},
           Writes(p, t, v)
    PROVE  Unraced'
<1> USE DEF Unraced
<1> DEFINE s == prog[p].seg
           k == stats[p][t]
<1>1. /\ prog[p].pc = "idle" /\ k # 0 /\ buffer' = [buffer EXCEPT ![s][k] = v]
      /\ UNCHANGED <<shmKey, made, nshms, header, prog, stats>>
  BY DEF Writes
<1>2. s \in 1..made /\ k \in 1..nshms[s]
  BY <1>1 DEF ProgInv, Points
<1>3. s \in 1..SegmentCt
  BY <1>2, ProgFacts
<1>4. k \in Slots /\ k <= nshms[s]
  BY <1>2, <1>3, ProgFacts DEF Slots, StatsTypeOK
<1> HIDE DEF s, k
<1>5. \A u \in 1..SegmentCt, i \in Slots :
         buffer'[u][i] = IF u = s /\ i = k THEN v ELSE buffer[u][i]
  BY <1>1, <1>3, <1>4 DEF StatsTypeOK
<1>6. StatsTypeOK'
  <2>1. [buffer[s] EXCEPT ![k] = v] \in [Slots -> {"zero", "used"}]
    BY <1>3, <1>4 DEF StatsTypeOK
  <2>2. buffer' \in [1..SegmentCt -> [Slots -> {"zero", "used"}]]
    BY <1>1, <1>3, <2>1 DEF StatsTypeOK
  <2> QED
    BY <1>1, <2>2 DEF StatsTypeOK
<1>7. SegmentInv'
  <2>1. \A u \in 1..SegmentCt, i \in Slots : i > nshms[u] => buffer'[u][i] = buffer[u][i]
    <3>1. nshms[s] \in Nat /\ k \in Nat
      BY <1>3, <1>4, StatsAssumption DEF StatsTypeOK, Slots
    <3>2. \A i \in Slots : i > nshms[s] => i # k
      BY <1>4, <3>1, StatsAssumption DEF Slots
    <3> QED
      BY <1>5, <3>2
  <2> QED
    BY <1>1, <2>1 DEF SegmentInv
<1>8. OneBusy' /\ \A q \in Programs : ProgInv(q)'
  BY <1>1 DEF OneBusy, Busy, ProgInv
<1> QED
  BY <1>6, <1>7, <1>8

\* NR_stats_rmids: a segment that somebody is attached to keeps its contents.
LEMMA RmIdsStep ==
    ASSUME Unraced, NEW p \in Programs, RmIds(p)
    PROVE  Unraced'
<1> USE DEF Unraced
<1> DEFINE gone == \A q \in Programs : prog[q].seg # shmKey
<1>1. /\ shmKey # 0 /\ shmKey' = 0 /\ UNCHANGED <<made, prog, stats>>
      /\ nshms'  = IF gone THEN [nshms EXCEPT ![shmKey] = 0] ELSE nshms
      /\ header' = IF gone THEN [header EXCEPT ![shmKey] = [i \in Slots |-> NoName]] ELSE header
      /\ buffer' = IF gone THEN [buffer EXCEPT ![shmKey] = [i \in Slots |-> "zero"]] ELSE buffer
  BY DEF RmIds
<1>2. /\ shmKey \in 1..SegmentCt /\ made' \in Nat /\ made <= made' /\ 0 \in 0..made'
      /\ 0 \in 0..NR_MAX_STATS_SHMS
  BY <1>1, ProgFacts
<1>3. \A u \in 1..SegmentCt :
         \/ nshms'[u] = nshms[u] /\ header'[u] = header[u] /\ buffer'[u] = buffer[u]
         \/ /\ gone /\ u = shmKey /\ nshms'[u] = 0
            /\ header'[u] = [i \in Slots |-> NoName] /\ buffer'[u] = [i \in Slots |-> "zero"]
  BY <1>1, <1>2 DEF StatsTypeOK
<1>4. StatsTypeOK'
  <2>1. nshms' \in [1..SegmentCt -> 0..NR_MAX_STATS_SHMS]
    BY <1>1, <1>2 DEF StatsTypeOK
  <2>2. [i \in Slots |-> NoName] \in [Slots -> Names]
    BY DEF Names
  <2>3. header' \in [1..SegmentCt -> [Slots -> Names]]
    BY <1>1, <1>2, <2>2 DEF StatsTypeOK
  <2>4. [i \in Slots |-> "zero"] \in [Slots -> {"zero", "used"}]
    OBVIOUS
  <2>5. buffer' \in [1..SegmentCt -> [Slots -> {"zero", "used"}]]
    BY <1>1, <1>2, <2>4 DEF StatsTypeOK
  <2> QED
    BY <1>1, <1>2, <2>1, <2>3, <2>5 DEF StatsTypeOK
<1>5. SegmentInv'
  <2> SUFFICES ASSUME NEW u \in 1..SegmentCt
               PROVE  /\ \A i, j \in 1..nshms'[u] : header'[u][i] = header'[u][j] => i = j
                      /\ \A i \in Slots : i > nshms'[u] => buffer'[u][i] = "zero"
                      /\ u > made' => nshms'[u] = 0
    BY DEF SegmentInv
  <2>1. CASE nshms'[u] = nshms[u] /\ header'[u] = header[u] /\ buffer'[u] = buffer[u]
    BY <1>1, <2>1 DEF SegmentInv
  <2>2. CASE nshms'[u] = 0 /\ buffer'[u] = [i \in Slots |-> "zero"]
    BY <2>2
  <2> QED
    BY <1>3, <2>1, <2>2
<1>6. OneBusy'
  BY <1>1 DEF OneBusy, Busy
<1>7. ASSUME NEW q \in Programs PROVE ProgInv(q)'
  <2>1. prog[q].pc \notin {"off", "create"} => prog[q].seg \in 1..SegmentCt
    BY ProgFacts DEF ProgInv
  <2>2. prog[q].pc \notin {"off", "create"} =>
           nshms'[prog[q].seg] = nshms[prog[q].seg] /\ header'[prog[q].seg] = header[prog[q].seg]
    BY <1>3, <2>1
  <2> QED
    BY <1>1, <1>2, <2>2, StayLemma
<1> QED
  BY <1>4, <1>5, <1>6, <1>7

-----------------------------------------------------------------------------
\* The invariant holds initially.
LEMMA InitStats == StatsInit => StatsIndInv
<1> SUFFICES ASSUME StatsInit PROVE Unraced
  BY DEF StatsIndInv
<1> USE DEF StatsInit
<1>0. 0 \in 0..SegmentCt /\ 0 \in 0..NR_MAX_STATS_SHMS /\ NoName \in Names
  BY StatsAssumption DEF Names
<1>1. Off \in ProgRecords /\ Off.pc = "off" /\ Off.seg = 0
  BY <1>0 DEF ProgRecords, ProgStates, Off
<1>2. StatsTypeOK
  BY <1>0, <1>1 DEF StatsTypeOK, NoStats
<1>3. SegmentInv
  BY DEF SegmentInv
<1>4. OneBusy /\ \A p \in Programs : ProgInv(p)
  BY <1>1 DEF OneBusy, Busy, ProgInv
<1> QED
  BY <1>2, <1>3, <1>4 DEF Unraced

\* Every step keeps it.
LEMMA NextStats == StatsIndInv /\ [StatsNext]_statsVars => StatsIndInv'
<1> SUFFICES ASSUME StatsIndInv, [StatsNext]_statsVars, ~raced' PROVE Unraced'
  BY DEF StatsIndInv
<1>1. CASE UNCHANGED statsVars
  BY <1>1 DEF StatsIndInv, statsVars, Unraced, StatsTypeOK, SegmentInv, OneBusy, Busy, ProgInv
<1>2. CASE StatsNext
  <2>0. ~raced /\ Unraced
    BY <1>2 DEF StatsNext, StatsIndInv
  <2>1. PICK p \in Programs :
           \/ StartupAttach(p) \/ StartupMissing(p) \/ StartupCreate(p) \/ StartupZero(p)
           \/ AllocPlace(p) \/ AllocWrite(p) \/ AllocRead(p) \/ AllocStore(p) \/ AllocCheck(p)
           \/ Acquire(p) \/ Release(p) \/ Shutdown(p) \/ Dies(p) \/ RmIds(p)
           \/ \E t \in StatTypes :
                 \/ GetFound(p, t) \/ GetMissing(p, t) \/ GetByName(p, t)
                 \/ RegisterType(p, t) \/ Counts(p, t) \/ Reset(p, t) \/ Clear(p, t)
    BY <1>2 DEF StatsNext
  <2>2. ASSUME Acquire(p) \/ Release(p) \/ \E t \in StatTypes : RegisterType(p, t)
        PROVE  Unraced'
    <3>1. UNCHANGED <<shmKey, made, nshms, header, buffer, prog, stats>>
      BY <2>2 DEF Acquire, Release, RegisterType, segment
    <3> QED
      BY <2>0, <3>1 DEF Unraced, StatsTypeOK, SegmentInv, OneBusy, Busy, ProgInv
  <2>3. ASSUME NEW t \in StatTypes, Counts(p, t) \/ Reset(p, t) \/ Clear(p, t)
        PROVE  Unraced'
    <3>1. Writes(p, t, "used") \/ Writes(p, t, "zero")
      BY <2>3 DEF Counts, Reset, Clear
    <3> QED
      BY <2>0, <3>1, BufferStep
  <2> QED
    BY <2>0, <2>1, <2>2, <2>3, StartupStep, FoundStep, AllocStep, CheckStep, EndStep,
       WriteStep, StoreStep, RmIdsStep
<1> QED
  BY <1>1, <1>2

\* The invariant holds in every reachable state.
THEOREM StatsInvariance == StatsSpec => []StatsIndInv
BY InitStats, NextStats, PTL DEF StatsSpec

\* Until two processes change the segment at once, a pointer that NR_stats_get gave
\* out is to the statistic that was asked for, its assertion holds, each name is
\* listed once, and a new statistic starts from zero: for any number of processes
\* that die anywhere and of removals of the segment.
THEOREM StatisticsAreOwn == StatsSpec => []OwnStatistics
<1>1. ASSUME StatsIndInv PROVE OwnStatistics
  <2> SUFFICES ASSUME ~raced
               PROVE  /\ \A p \in Programs : prog[p].pc = "check" => Sane(prog[p].seg, prog[p].slot)
                      /\ \A p \in Programs, t \in StatTypes :
                            stats[p][t] # 0 => FindStats(prog[p].seg, t) = stats[p][t]
                      /\ \A s \in 1..SegmentCt :
                            /\ nshms[s] <= NR_MAX_STATS_SHMS
                            /\ \A i, j \in DOMAIN GetNames(s) :
                                   GetNames(s)[i] = GetNames(s)[j] => i = j
                            /\ \A i \in Slots : i > nshms[s] => buffer[s][i] = "zero"
    BY DEF OwnStatistics
  <2>0. Unraced
    BY <1>1 DEF StatsIndInv
  <2> USE <2>0 DEF Unraced
  <2>1. ASSUME NEW p \in Programs, prog[p].pc \notin {"off", "create"}
        PROVE  prog[p].seg \in 1..SegmentCt
    BY <2>1, ProgFacts DEF ProgInv
  <2>2. ASSUME NEW p \in Programs, prog[p].pc = "check"
        PROVE  Sane(prog[p].seg, prog[p].slot)
    <3> DEFINE s == prog[p].seg
    <3>1. s \in 1..SegmentCt
      BY <2>1, <2>2
    <3>2. prog[p].slot = nshms[s] /\ nshms[s] > 0
      BY <2>2 DEF ProgInv, Knows
    <3>3. prog[p].slot \in 1..nshms[s]
      BY <3>1, <3>2, StatsAssumption DEF StatsTypeOK
    <3> QED
      BY <3>1, <3>3, FindLemma DEF Sane
  <2>3. ASSUME NEW p \in Programs, NEW t \in StatTypes, stats[p][t] # 0
        PROVE  FindStats(prog[p].seg, t) = stats[p][t]
    <3>1. prog[p].pc \notin {"off", "create"}
      BY <2>3 DEF ProgInv, NoStats
    <3>2. /\ prog[p].seg \in 1..SegmentCt /\ stats[p][t] \in 1..nshms[prog[p].seg]
          /\ header[prog[p].seg][stats[p][t]] = t
      BY <2>1, <2>3, <3>1 DEF ProgInv, Points
    <3> QED
      BY <3>2, FindLemma
  <2>4. ASSUME NEW s \in 1..SegmentCt
        PROVE  /\ nshms[s] <= NR_MAX_STATS_SHMS
               /\ \A i, j \in DOMAIN GetNames(s) : GetNames(s)[i] = GetNames(s)[j] => i = j
               /\ \A i \in Slots : i > nshms[s] => buffer[s][i] = "zero"
    BY StatsAssumption DEF StatsTypeOK, SegmentInv, GetNames
  <2> QED
    BY <2>2, <2>3, <2>4
<1> QED
  BY <1>1, StatsInvariance, PTL

=============================================================================
