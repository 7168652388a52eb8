------------------------------- MODULE RThread -------------------------------
(***************************************************************************)
(* Threads (util/libekr/threads/pthreads/pthread.c): a count of the threads *)
(* that run, which r_thread_wait_last polls, and condition variables over   *)
(* one mutex that the first user initialises.  Nothing protects the count   *)
(* or cond_mutex_inited; each access to them is a step.  pthread_mutex and  *)
(* pthread_cond are the library's: a wait gives the mutex back and takes it *)
(* again, and may return without a signal.                                  *)
(***************************************************************************)
EXTENDS Integers, FiniteSets

CONSTANTS
    Threads,   \* what the main thread forks
    CondUsers  \* those of them that use the condition variable

Main == "main"
Free == "free"

ASSUME ThreadAssumption == CondUsers \subseteq Threads /\ {Main, Free} \cap Threads = {}

VARIABLES
    pc,           \* thread -> where it is
    threadCount,  \* thread_count
    loadedCount,  \* thread -> the value that its ++ or -- has read
    use,          \* thread -> what it does with the condition variable
    condInited,   \* cond_mutex_inited
    mutexOwner,   \* who holds cond_mutex
    lostCount,    \* two threads were changing thread_count at once
    initedTwice   \* two threads initialised the mutex

threadVars == <<pc, threadCount, loadedCount, use, condInited, mutexOwner, lostCount, initedTwice>>

Changing(t) == pc[t] \in {"counting", "uncounting"}

-----------------------------------------------------------------------------
ThreadInit ==
    /\ pc = [t \in Threads \cup {Main} |-> IF t = Main THEN "forking" ELSE "unborn"]
    /\ threadCount = 0
    /\ loadedCount = [t \in Threads |-> 0]
    /\ use = [t \in Threads |-> "none"]
    /\ condInited = FALSE /\ mutexOwner = Free
    /\ lostCount = FALSE /\ initedTwice = FALSE

ThreadGoes(t, to) == pc' = [pc EXCEPT ![t] = to]

\* r_thread_fork, by the main thread.
Fork(t) ==
    /\ pc[Main] = "forking" /\ pc[t] = "unborn"
    /\ ThreadGoes(t, "forked")
    /\ UNCHANGED <<threadCount, loadedCount, use, condInited, mutexOwner, lostCount, initedTwice>>

\* thread_count++ and thread_count-- read the count,
ReadCount(t, to) ==
    /\ loadedCount' = [loadedCount EXCEPT ![t] = threadCount]
    /\ ThreadGoes(t, to)
    /\ lostCount' = (lostCount \/ \E u \in Threads \ {t} : Changing(u))
    /\ UNCHANGED <<threadCount, use, condInited, mutexOwner, initedTwice>>
\* and write it.
WriteCount(t, value, to) ==
    /\ threadCount' = value
    /\ ThreadGoes(t, to)
    /\ UNCHANGED <<loadedCount, use, condInited, mutexOwner, lostCount, initedTwice>>

\* Mutant: the thread is counted when its function has returned.
RealCreate_Late(t) ==
    \/ pc[t] = "forked" /\ ThreadGoes(t, "running")
       /\ UNCHANGED <<threadCount, loadedCount, use, condInited, mutexOwner, lostCount, initedTwice>>
    \/ pc[t] = "counting" /\ WriteCount(t, loadedCount[t] + 1, "running")

\* r_thread_real_create: the new thread counts itself,
RealCreate(t) ==
    \/ pc[t] = "forked" /\ ReadCount(t, "counting")
    \/ pc[t] = "counting" /\ WriteCount(t, loadedCount[t] + 1, "running")

\* and takes itself off when its function returns, as r_thread_exit does.
ThreadEnds(t) ==
    \/ pc[t] = "running" /\ ReadCount(t, "uncounting")
    \/ pc[t] = "uncounting" /\ WriteCount(t, loadedCount[t] - 1, "ended")

\* r_thread_wait_last: a look at the count, after a nap in which the others run or not.
WaitLast ==
    \/ pc[Main] = "forking" /\ ThreadGoes(Main, "waiting")
       /\ UNCHANGED <<threadCount, loadedCount, use, condInited, mutexOwner, lostCount, initedTwice>>
    \/ pc[Main] = "waiting" /\ threadCount = 0 /\ ThreadGoes(Main, "waited")
       /\ UNCHANGED <<threadCount, loadedCount, use, condInited, mutexOwner, lostCount, initedTwice>>

-----------------------------------------------------------------------------
\* r_cond_wait and r_cond_signal look whether the mutex is initialised,
CondEnter(t, how) ==
    /\ t \in CondUsers /\ pc[t] = "running"
    /\ ThreadGoes(t, IF condInited THEN "lock" ELSE "init")
    /\ use' = [use EXCEPT ![t] = how]
    /\ UNCHANGED <<threadCount, loadedCount, condInited, mutexOwner, lostCount, initedTwice>>

\* _init_cond_mutex: once more,
InitLook(t) ==
    /\ pc[t] = "init"
    /\ ThreadGoes(t, IF condInited THEN "lock" ELSE "make")
    /\ UNCHANGED <<threadCount, loadedCount, use, condInited, mutexOwner, lostCount, initedTwice>>
\* then pthread_mutex_init,
InitMutex(t) ==
    /\ pc[t] = "make"
    /\ ThreadGoes(t, "flag")
    /\ mutexOwner' = Free
    /\ initedTwice' = (initedTwice \/ condInited \/ \E u \in Threads : pc[u] = "flag")
    /\ UNCHANGED <<threadCount, loadedCount, use, condInited, lostCount>>
\* and the flag;
InitFlag(t) ==
    /\ pc[t] = "flag"
    /\ condInited' = TRUE
    /\ ThreadGoes(t, "lock")
    /\ UNCHANGED <<threadCount, loadedCount, use, mutexOwner, lostCount, initedTwice>>

\* take the mutex,
CondLock(t) ==
    /\ pc[t] = "lock" /\ mutexOwner = Free
    /\ mutexOwner' = t
    /\ ThreadGoes(t, "held")
    /\ UNCHANGED <<threadCount, loadedCount, use, condInited, lostCount, initedTwice>>

\* sleep without it, and take it again after waking up, with a signal or without;
CondSleep(t) ==
    /\ pc[t] = "held" /\ use[t] = "wait"
    /\ mutexOwner' = Free
    /\ ThreadGoes(t, "asleep")
    /\ use' = [use EXCEPT ![t] = "leave"]
    /\ UNCHANGED <<threadCount, loadedCount, condInited, lostCount, initedTwice>>
CondSpurious(t) ==
    /\ pc[t] = "asleep"
    /\ ThreadGoes(t, "lock")
    /\ UNCHANGED <<threadCount, loadedCount, use, condInited, mutexOwner, lostCount, initedTwice>>
\* or wake up one sleeper; a signal that finds none is lost.
CondSignal(t) ==
    /\ pc[t] = "held" /\ use[t] = "signal"
    /\ LET sleepers == {u \in Threads : pc[u] = "asleep"}
       IN  \/ sleepers = {} /\ UNCHANGED pc
           \/ \E u \in sleepers : ThreadGoes(u, "lock")
    /\ use' = [use EXCEPT ![t] = "leave"]
    /\ UNCHANGED <<threadCount, loadedCount, condInited, mutexOwner, lostCount, initedTwice>>
CondLeave(t) ==
    /\ pc[t] = "held" /\ use[t] = "leave"
    /\ mutexOwner' = Free
    /\ ThreadGoes(t, "running")
    /\ use' = [use EXCEPT ![t] = "none"]
    /\ UNCHANGED <<threadCount, loadedCount, condInited, lostCount, initedTwice>>

ThreadNext ==
    \/ WaitLast
    \/ \E t \in Threads :
          \/ Fork(t) \/ RealCreate(t) \/ ThreadEnds(t)
          \/ \E how \in {"wait", "signal"} : CondEnter(t, how)
          \/ InitLook(t) \/ InitMutex(t) \/ InitFlag(t) \/ CondLock(t)
          \/ CondSleep(t) \/ CondSpurious(t) \/ CondSignal(t) \/ CondLeave(t)

ThreadSpec == ThreadInit /\ [][ThreadNext]_threadVars

-----------------------------------------------------------------------------
\* Unless two threads changed the count at once, r_thread_wait_last finds it 0 only when
\* every thread that has begun has returned from its function, those that sleep on a
\* condition included (the ones that are forked and have not begun are not waited for); and
\* unless two first users initialised it, the mutex of the condition variables excludes.
ThreadsAwaited ==
    /\ pc[Main] = "waiting" /\ threadCount = 0 /\ ~lostCount =>
          \A t \in Threads : pc[t] \in {"unborn", "forked", "counting", "ended"}
    /\ ~initedTwice => Cardinality({t \in Threads : pc[t] = "held"}) <= 1

=============================================================================
