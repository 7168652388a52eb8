-------------------------- MODULE AsyncWaitProofs --------------------------
(***************************************************************************)
(* Proofs about the event queue, for every set of structures, every number  *)
(* of sockets and both builds.                                              *)
(***************************************************************************)
EXTENDS AsyncWait, CallbackQueueTheorems

(***************************************************************************)
(* The inductive invariant.                                                 *)
(***************************************************************************)
\* No structure is in two places; that it is registered for one condition only
\* follows from KindInv.
PlaceInv ==
    /\ NoRepeats(q_head) /\ NoRepeats(w_q) /\ NoRepeats(free_q)
    /\ Registered \cap (Members(q_head) \cup Members(w_q) \cup Members(free_q)) = {}
    /\ Members(q_head) \cap (Members(w_q) \cup Members(free_q)) = {}
    /\ Members(w_q) \cap Members(free_q) = {}
    /\ leaked \cap (Registered \cup Members(q_head) \cup Members(w_q) \cup Members(free_q)) = {}

\* No two of the structures in S are for the same condition.
Apart(S) == \A c, d \in S : waits[c] = waits[d] /\ waits[c] \in Conditions => c = d

\* What is registered carries its condition.  Outside the collecting of a round,
\* only scheduled callbacks are queued; a round has at most one entry for a
\* condition, since collecting one takes its condition out of `ready'.
KindInv ==
    /\ \A k \in Conditions : socket_vec[k] # NULL => waits[socket_vec[k]] = k
    /\ \A c \in Registered \cup Members(q_head) : live[c]
    /\ pc # "collect" => \A c \in Members(q_head) : waits[c] = <<NoSock, NoSock>>
    /\ \A c \in Members(q_head) : waits[c] \notin ready
    /\ Apart(Members(q_head)) /\ Apart(Members(w_q))

\* There is a round to fire from BeginFiring to EndRound, and the running
\* callback is at its head.
RoundInv ==
    /\ pc \in {"idle", "collect"} => w_q = <<>>
    /\ pc = "callback" => w_q # <<>>

\* What was queued at the call is still to be met, until the round is over.
DrainInv ==
    /\ pc = "collect" => atCall \subseteq Members(q_head)
    /\ pc \in {"fire", "callback"} => atCall \subseteq Members(w_q)
    /\ build = "select" => QueueIsDrained

IndInv == TypeOK /\ PlaceInv /\ KindInv /\ RoundInv /\ NothingLost /\ DrainInv

-----------------------------------------------------------------------------
(***************************************************************************)
(* Conditions, places and registrations.                                    *)
(***************************************************************************)
\* A condition is a socket and a direction; a scheduled callback has none.
LEMMA ConditionLemma ==
    /\ \A k \in Conditions : k[1] \in Socks /\ (k = <<k[1], READ>> \/ k = <<k[1], WRITE>>)
    /\ \A s \in Socks : <<s, READ>> \in Conditions /\ <<s, WRITE>> \in Conditions
    /\ <<NoSock, NoSock>> \notin Conditions
BY SocksAssumption DEF Conditions, Socks, How, READ, WRITE, NoSock

\* Whatever is in a place is a structure.
LEMMA PlacesLemma ==
    ASSUME TypeOK
    PROVE  /\ Registered \subseteq CB
           /\ Members(q_head) \subseteq CB
           /\ Members(w_q) \subseteq CB
           /\ Members(free_q) \subseteq CB
<1>1. Registered \subseteq CB
  BY DEF TypeOK, Registered
<1>2. q_head \in Seq(CB) /\ w_q \in Seq(CB) /\ free_q \in Seq(CB)
  BY DEF TypeOK
<1> QED
  BY <1>1, <1>2, MembersLemma

\* An empty queue has no entries.
LEMMA EmptyLemma == Members(<<>>) = {} /\ NoRepeats(<<>>)
BY DEF Members, NoRepeats

\* Overwriting one entry of socket_vec takes out its structure and no other.
LEMMA RegistrationLemma ==
    ASSUME TypeOK, KindInv, NEW k \in Conditions, NEW v,
           socket_vec' = [socket_vec EXCEPT ![k] = v]
    PROVE  Registered' = (Registered \ {socket_vec[k]}) \cup ({v} \ {NULL})
<1>1. \A l \in Conditions : socket_vec'[l] = IF l = k THEN v ELSE socket_vec[l]
  BY DEF TypeOK
<1>2. Registered' = {socket_vec'[l] : l \in Conditions} \ {NULL}
  BY DEF Registered
<1>3. ASSUME NEW x \in Registered' PROVE x \in (Registered \ {socket_vec[k]}) \cup ({v} \ {NULL})
  <2>1. PICK l \in Conditions : socket_vec'[l] = x
    BY <1>2
  <2>2. CASE l = k
    BY <1>1, <1>2, <2>1, <2>2
  <2>3. CASE l # k
    <3>1. x = socket_vec[l] /\ x # NULL
      BY <1>1, <1>2, <2>1, <2>3
    <3>2. x \in Registered
      BY <3>1 DEF Registered
    <3>3. x # socket_vec[k]
      BY <2>3, <3>1 DEF KindInv
    <3> QED
      BY <3>2, <3>3
  <2> QED
    BY <2>2, <2>3
<1>4. ASSUME NEW x \in Registered, x # socket_vec[k] PROVE x \in Registered'
  <2>1. PICK l \in Conditions : socket_vec[l] = x /\ x # NULL
    BY DEF Registered
  <2>2. socket_vec'[l] = x
    BY <1>1, <1>4, <2>1
  <2> QED
    BY <1>2, <2>1, <2>2
<1>5. ASSUME v # NULL PROVE v \in Registered'
  <2>1. socket_vec'[k] = v
    BY <1>1
  <2> QED
    BY <1>2, <1>5, <2>1
<1> QED
  BY <1>3, <1>4, <1>5

\* The pool after a registration was destroyed holds its structure too.
LEMMA PoolLemma ==
    ASSUME IndInv, NEW k \in Conditions
    PROVE  /\ PoolWithout(k) \in Seq(CB)
           /\ Members(PoolWithout(k)) = Members(free_q) \cup ({socket_vec[k]} \ {NULL})
           /\ NoRepeats(PoolWithout(k))
<1>1. free_q \in Seq(CB) /\ NoRepeats(free_q) /\ socket_vec[k] \in CB \cup {NULL}
  BY DEF IndInv, TypeOK, PlaceInv
<1>2. CASE socket_vec[k] = NULL
  BY <1>1, <1>2 DEF PoolWithout
<1>3. CASE socket_vec[k] # NULL
  <2>1. socket_vec[k] \in CB /\ socket_vec[k] \in Registered
    BY <1>1, <1>3 DEF Registered
  <2>2. socket_vec[k] \notin Members(free_q)
    BY <2>1 DEF IndInv, PlaceInv
  <2>3. PoolWithout(k) = Append(free_q, socket_vec[k])
    BY <1>3 DEF PoolWithout, GiveBack
  <2> QED
    BY <1>1, <1>3, <2>1, <2>2, <2>3, AppendLemma
<1> QED
  BY <1>2, <1>3

\* The structure NR_async_wait gets for k is in no place but, perhaps, the one it
\* has just been taken out of.
LEMMA WaitCreateLemma ==
    ASSUME IndInv, NEW k \in Conditions, NEW c \in Available(PoolWithout(k), FreshFor(k))
    PROVE  /\ c \in CB
           /\ c \notin Members(q_head) \cup Members(w_q) \cup leaked
           /\ c \notin Registered \ {socket_vec[k]}
           /\ TakeFrom(PoolWithout(k), c) \in Seq(CB)
           /\ NoRepeats(TakeFrom(PoolWithout(k), c))
           /\ Members(TakeFrom(PoolWithout(k), c)) =
                 (Members(free_q) \cup ({socket_vec[k]} \ {NULL})) \ {c}
<1> DEFINE p == PoolWithout(k)
           fresh == FreshFor(k)
<1>1. /\ p \in Seq(CB)
      /\ Members(p) = Members(free_q) \cup ({socket_vec[k]} \ {NULL})
      /\ NoRepeats(p)
  BY PoolLemma
<1>2. fresh \in SUBSET CB /\ (fresh # {} => p = <<>> /\ fresh = Fresh)
  BY DEF FreshFor, Fresh
<1>3. fresh \cap Members(p) = {}
  BY <1>2, EmptyLemma
<1>4. c \in Available(p, fresh)
  OBVIOUS
<1> HIDE DEF p, fresh
<1>5. /\ c \in CB
      /\ p = <<>> => c \in fresh
      /\ p # <<>> => c \in Members(p)
      /\ TakeFrom(p, c) \in Seq(CB)
      /\ Members(TakeFrom(p, c)) = Members(p) \ {c}
      /\ NoRepeats(TakeFrom(p, c))
  BY <1>1, <1>2, <1>3, <1>4, CreateLemma
<1>6. /\ c \notin Members(q_head) \cup Members(w_q) \cup leaked
      /\ c \notin Registered \ {socket_vec[k]}
  <2>1. CASE p = <<>>
    BY <1>2, <1>5, <2>1 DEF Fresh
  <2>2. CASE p # <<>>
    <3>1. c \in Members(free_q) \/ (c = socket_vec[k] /\ c # NULL)
      BY <1>1, <1>5, <2>2
    <3>2. c \in Members(free_q) \/ (c = socket_vec[k] /\ c \in Registered)
      BY <3>1 DEF Registered
    <3> QED
      BY <3>2 DEF IndInv, PlaceInv
  <2> QED
    BY <2>1, <2>2
<1> QED
  BY <1>1, <1>5, <1>6 DEF p

\* The running callback, at the head of the round, is not one of the others.
LEMMA RunningLemma ==
    ASSUME IndInv
    PROVE  /\ pc = "callback" => Head(w_q) \in Members(w_q) /\ Head(w_q) = w_q[1] /\ Len(w_q) >= 1
           /\ pc = "idle" => Members(w_q) = {}
<1>1. w_q \in Seq(CB) /\ NoRepeats(w_q) /\ (pc = "callback" => w_q # <<>>)
  BY DEF IndInv, TypeOK, PlaceInv, RoundInv
<1>2. ASSUME pc = "callback"
      PROVE  Head(w_q) \in Members(w_q) /\ Head(w_q) = w_q[1] /\ Len(w_q) >= 1
  BY <1>1, <1>2, TailLemma
<1>3. ASSUME pc = "idle" PROVE Members(w_q) = {}
  BY <1>3, EmptyLemma DEF IndInv, RoundInv
<1> QED
  BY <1>2, <1>3

-----------------------------------------------------------------------------
\* The invariant holds initially.
LEMMA InitIndInv == Init => IndInv
<1> SUFFICES ASSUME Init PROVE IndInv
  OBVIOUS
<1> USE DEF Init
<1>1. TypeOK
  <2>1. live \in [CB -> BOOLEAN] /\ reads \in BOOLEAN
    BY Zenon
  <2>2. waits \in [CB -> Conditions \cup {<<NoSock, NoSock>>}]
    OBVIOUS
  <2>3. /\ build \in Builds
        /\ socket_vec \in [Conditions -> CB \cup {NULL}]
        /\ q_head \in Seq(CB) /\ w_q \in Seq(CB) /\ free_q \in Seq(CB)
        /\ leaked \subseteq CB /\ epoll_set \subseteq Socks /\ ready \subseteq Conditions
        /\ want \subseteq CB /\ atCall \subseteq CB
        /\ pc \in {"idle", "collect", "fire", "callback"}
        /\ status \in {"ok", "running", "R_EOD", "R_WOULDBLOCK", "R_INTERNAL"}
    OBVIOUS
  <2> QED
    BY <2>1, <2>2, <2>3 DEF TypeOK
<1>2. Registered = {} /\ Members(q_head) = {} /\ Members(w_q) = {} /\ Members(free_q) = {}
  BY EmptyLemma DEF Registered
<1>3. PlaceInv
  BY <1>2, EmptyLemma DEF PlaceInv
<1>4. KindInv
  BY <1>2 DEF KindInv, Apart
<1>5. RoundInv /\ DrainInv
  BY <1>2 DEF RoundInv, DrainInv, QueueIsDrained
<1>6. NothingLost
  BY <1>2 DEF NothingLost
<1> QED
  BY <1>1, <1>3, <1>4, <1>5, <1>6 DEF IndInv

-----------------------------------------------------------------------------
(***************************************************************************)
(* The client's calls.                                                      *)
(***************************************************************************)
LEMMA WaitStep ==
    ASSUME IndInv, NEW k \in Conditions, NEW c \in CB, Wait(k, c)
    PROVE  IndInv'
<1> USE DEF IndInv
<1>w. /\ ClientRuns
      /\ free_q' = TakeFrom(PoolWithout(k), c)
      /\ live' = [live EXCEPT ![c] = TRUE]
      /\ waits' = [waits EXCEPT ![c] = k]
      /\ socket_vec' = [socket_vec EXCEPT ![k] = c]
      /\ want' = (want \ {socket_vec[k]}) \cup {c}
      /\ UNCHANGED <<build, q_head, w_q, leaked, pc, ready, status, reads, atCall>>
  BY DEF Wait, roundVars
<1>1. /\ c \notin Members(q_head) \cup Members(w_q) \cup leaked
      /\ c \notin Registered \ {socket_vec[k]}
      /\ TakeFrom(PoolWithout(k), c) \in Seq(CB)
      /\ NoRepeats(TakeFrom(PoolWithout(k), c))
      /\ Members(TakeFrom(PoolWithout(k), c)) =
             (Members(free_q) \cup ({socket_vec[k]} \ {NULL})) \ {c}
  BY WaitCreateLemma DEF Wait
<1>2. Registered' = (Registered \ {socket_vec[k]}) \cup {c}
  <2>1. Registered' = (Registered \ {socket_vec[k]}) \cup ({c} \ {NULL})
    BY <1>w, RegistrationLemma
  <2> QED
    BY <2>1, NullAssumption
<1>3. /\ Members(q_head') = Members(q_head) /\ Members(w_q') = Members(w_q)
      /\ Members(free_q') = (Members(free_q) \cup ({socket_vec[k]} \ {NULL})) \ {c}
  BY <1>w, <1>1
<1>4. /\ Registered \subseteq CB /\ Members(q_head) \subseteq CB
      /\ Members(w_q) \subseteq CB /\ Members(free_q) \subseteq CB
  BY PlacesLemma
<1>5. socket_vec[k] # NULL => socket_vec[k] \in Registered
  BY DEF Registered
<1>6. TypeOK'
  <2>1. live' \in [CB -> BOOLEAN]
    BY <1>w, Zenon DEF TypeOK
  <2>2. waits' \in [CB -> Conditions \cup {<<NoSock, NoSock>>}]
    BY <1>w DEF TypeOK
  <2>3. socket_vec' \in [Conditions -> CB \cup {NULL}]
    BY <1>w DEF TypeOK
  <2>4. epoll_set' \subseteq Socks
    BY ConditionLemma DEF TypeOK, Wait
  <2> QED
    BY <1>w, <1>1, <2>1, <2>2, <2>3, <2>4 DEF TypeOK
<1>7. PlaceInv'
  BY <1>w, <1>1, <1>2, <1>3, <1>5 DEF PlaceInv
<1>8. KindInv'
  <2>1. /\ \A d \in CB : d # c => waits'[d] = waits[d] /\ live'[d] = live[d]
        /\ waits'[c] = k /\ live'[c]
    BY <1>w DEF TypeOK
  <2>2. ASSUME NEW l \in Conditions, socket_vec'[l] # NULL PROVE waits'[socket_vec'[l]] = l
    <3>1. CASE l = k
      BY <1>w, <2>1, <3>1 DEF TypeOK
    <3>2. CASE l # k
      <4>1. socket_vec'[l] = socket_vec[l] /\ socket_vec[l] \in Registered
        BY <1>w, <2>2, <3>2 DEF TypeOK, Registered
      <4>2. waits[socket_vec[l]] = l
        BY <2>2, <4>1 DEF KindInv
      <4>3. socket_vec[l] # socket_vec[k] \/ socket_vec[k] = NULL
        BY <3>2, <4>2 DEF KindInv
      <4>4. socket_vec[l] # c
        BY <1>1, <2>2, <4>1, <4>3
      <4> QED
        BY <1>4, <2>1, <4>1, <4>2, <4>4
    <3> QED
      BY <3>1, <3>2
  <2>3. \A d \in Registered' \cup Members(q_head') : live'[d]
    BY <1>2, <1>3, <1>4, <2>1 DEF KindInv
  <2>4. \A d \in Members(q_head) \cup Members(w_q) : waits'[d] = waits[d]
    BY <1>1, <1>4, <2>1
  <2> QED
    BY <1>w, <1>3, <2>2, <2>3, <2>4 DEF KindInv, Apart
<1>9. RoundInv' /\ DrainInv'
  BY <1>w DEF RoundInv, DrainInv, QueueIsDrained
<1>10. NothingLost'
  <2>1. \A d \in Members(w_q) : live'[d] = live[d]
    BY <1>w, <1>1, <1>4 DEF TypeOK
  <2>2. c # Head(w_q) \/ pc # "callback"
    BY <1>1, RunningLemma
  <2>3. socket_vec[k] \notin Members(q_head) \cup Members(w_q)
    BY <1>4, <1>5, NullAssumption DEF PlaceInv
  <2> QED
    BY <1>w, <1>2, <1>3, <2>1, <2>2, <2>3 DEF NothingLost
<1> QED
  BY <1>6, <1>7, <1>8, <1>9, <1>10

\* The descriptor is refused: the structure that was taken for it is lost to all lists.
LEMMA WaitRefusedStep ==
    ASSUME IndInv, NEW k \in Conditions, NEW c \in CB, WaitRefused(k, c)
    PROVE  IndInv'
<1> USE DEF IndInv
<1>w. /\ free_q' = TakeFrom(PoolWithout(k), c)
      /\ live' = [live EXCEPT ![c] = TRUE]
      /\ waits' = [waits EXCEPT ![c] = k]
      /\ leaked' = leaked \cup {c}
      /\ socket_vec' = [socket_vec EXCEPT ![k] = NULL]
      /\ want' = want \ {socket_vec[k]}
      /\ UNCHANGED <<build, q_head, w_q, epoll_set, pc, ready, status, reads, atCall>>
  BY DEF WaitRefused, roundVars
<1>1. /\ c \notin Members(q_head) \cup Members(w_q) \cup leaked
      /\ c \notin Registered \ {socket_vec[k]}
      /\ TakeFrom(PoolWithout(k), c) \in Seq(CB)
      /\ NoRepeats(TakeFrom(PoolWithout(k), c))
      /\ Members(TakeFrom(PoolWithout(k), c)) =
             (Members(free_q) \cup ({socket_vec[k]} \ {NULL})) \ {c}
  BY WaitCreateLemma DEF WaitRefused
<1>2. Registered' = Registered \ {socket_vec[k]}
  BY <1>w, RegistrationLemma
<1>3. /\ Members(q_head') = Members(q_head) /\ Members(w_q') = Members(w_q)
      /\ Members(free_q') = (Members(free_q) \cup ({socket_vec[k]} \ {NULL})) \ {c}
  BY <1>w, <1>1
<1>4. /\ Registered \subseteq CB /\ Members(q_head) \subseteq CB
      /\ Members(w_q) \subseteq CB /\ Members(free_q) \subseteq CB
  BY PlacesLemma
<1>5. socket_vec[k] # NULL => socket_vec[k] \in Registered
  BY DEF Registered
<1>6. TypeOK'
  <2>1. live' \in [CB -> BOOLEAN]
    BY <1>w, Zenon DEF TypeOK
  <2>2. waits' \in [CB -> Conditions \cup {<<NoSock, NoSock>>}]
    BY <1>w DEF TypeOK
  <2>3. socket_vec' \in [Conditions -> CB \cup {NULL}]
    BY <1>w DEF TypeOK
  <2> QED
    BY <1>w, <1>1, <2>1, <2>2, <2>3 DEF TypeOK
<1>7. PlaceInv'
  BY <1>w, <1>1, <1>2, <1>3, <1>5 DEF PlaceInv
<1>8. KindInv'
  <2>1. \A d \in CB : d # c => waits'[d] = waits[d] /\ live'[d] = live[d]
    BY <1>w DEF TypeOK
  <2>2. ASSUME NEW l \in Conditions, socket_vec'[l] # NULL PROVE waits'[socket_vec'[l]] = l
    <3>1. l # k /\ socket_vec'[l] = socket_vec[l] /\ socket_vec[l] \in Registered
      BY <1>w, <2>2 DEF TypeOK, Registered
    <3>2. waits[socket_vec[l]] = l
      BY <2>2, <3>1 DEF KindInv
    <3>3. socket_vec[l] # socket_vec[k] \/ socket_vec[k] = NULL
      BY <3>1, <3>2 DEF KindInv
    <3>4. socket_vec[l] # c
      BY <1>1, <2>2, <3>1, <3>3
    <3> QED
      BY <1>4, <2>1, <3>1, <3>2, <3>4
  <2>3. \A d \in Registered' \cup Members(q_head') : live'[d]
    BY <1>1, <1>2, <1>3, <1>4, <2>1 DEF KindInv
  <2>4. \A d \in Members(q_head) \cup Members(w_q) : waits'[d] = waits[d]
    BY <1>1, <1>4, <2>1
  <2> QED
    BY <1>w, <1>3, <2>2, <2>3, <2>4 DEF KindInv, Apart
<1>9. RoundInv' /\ DrainInv'
  BY <1>w DEF RoundInv, DrainInv, QueueIsDrained
<1>10. NothingLost'
  <2>1. \A d \in Members(w_q) : live'[d] = live[d]
    BY <1>w, <1>1, <1>4 DEF TypeOK
  <2>2. socket_vec[k] \notin Members(q_head) \cup Members(w_q)
    BY <1>4, <1>5, NullAssumption DEF PlaceInv
  <2> QED
    BY <1>w, <1>2, <1>3, <2>1, <2>2 DEF NothingLost
<1> QED
  BY <1>6, <1>7, <1>8, <1>9, <1>10

\* What cancelling k does: its structure goes to the pool.
LEMMA CancelLemma ==
    ASSUME IndInv, NEW k \in Conditions,
           free_q' = PoolWithout(k),
           socket_vec' = [socket_vec EXCEPT ![k] = NULL],
           UNCHANGED <<q_head, w_q, leaked, waits>>
    PROVE  /\ Registered' = Registered \ {socket_vec[k]}
           /\ Members(free_q') = Members(free_q) \cup ({socket_vec[k]} \ {NULL})
           /\ PlaceInv'
           /\ free_q' \in Seq(CB) /\ socket_vec' \in [Conditions -> CB \cup {NULL}]
           /\ \A l \in Conditions : socket_vec'[l] # NULL => waits'[socket_vec'[l]] = l
           /\ \A c \in Registered : waits[c] = k <=> c = socket_vec[k]
           /\ socket_vec[k] \notin Members(q_head) \cup Members(w_q)
<1> USE DEF IndInv
<1>1. Registered' = Registered \ {socket_vec[k]}
  BY RegistrationLemma
<1>2. /\ free_q' \in Seq(CB)
      /\ Members(free_q') = Members(free_q) \cup ({socket_vec[k]} \ {NULL})
      /\ NoRepeats(free_q')
  BY PoolLemma
<1>3. socket_vec[k] # NULL => socket_vec[k] \in Registered
  BY DEF Registered
<1>4. Members(q_head) \subseteq CB /\ Members(w_q) \subseteq CB
  BY PlacesLemma
<1>5. PlaceInv'
  BY <1>1, <1>2, <1>3 DEF PlaceInv
<1>6. socket_vec' \in [Conditions -> CB \cup {NULL}]
  BY DEF TypeOK
<1>7. \A l \in Conditions : socket_vec'[l] # NULL => waits'[socket_vec'[l]] = l
  BY DEF TypeOK, KindInv
<1>8. \A c \in Registered : waits[c] = k <=> c = socket_vec[k]
  BY DEF Registered, KindInv
<1>9. socket_vec[k] \notin Members(q_head) \cup Members(w_q)
  BY <1>3, <1>4, NullAssumption DEF PlaceInv
<1> QED
  BY <1>1, <1>2, <1>5, <1>6, <1>7, <1>8, <1>9

\* NR_async_cancel from a callback disarms the entry for k in the rest of the
\* round, the only one there is, and nothing else.
LEMMA CancelQueuedLemma ==
    ASSUME IndInv, NEW k \in Conditions
    PROVE  /\ CancelQueued(k) \in [CB -> BOOLEAN]
           /\ \A c \in CB : c \notin Members(w_q) => CancelQueued(k)[c] = live[c]
           /\ pc = "callback" =>
                 \A c \in Members(w_q) \ {Head(w_q)} :
                     CancelQueued(k)[c] <=> live[c] /\ waits[c] # k
<1> USE DEF IndInv
<1>1. /\ live \in [CB -> BOOLEAN] /\ w_q \in Seq(CB)
      /\ NoRepeats(w_q) /\ Apart(Members(w_q)) /\ Len(w_q) \in Nat
  BY DEF TypeOK, PlaceInv, KindInv
<1>2. Members(w_q) \subseteq CB
  BY PlacesLemma
<1>3. CASE ~(pc = "callback" /\ Queued(k) # {})
  <2>1. CancelQueued(k) = live
    BY <1>3 DEF CancelQueued
  <2>2. ASSUME pc = "callback", NEW c \in Members(w_q), c # Head(w_q) PROVE waits[c] # k
    <3>1. Queued(k) = {}
      BY <1>3, <2>2
    <3>2. PICK i \in 1..Len(w_q) : w_q[i] = c
      BY DEF Members
    <3>3. i \in 2..Len(w_q)
      BY <1>1, <2>2, <3>2, RunningLemma
    <3> QED
      BY <3>1, <3>2, <3>3 DEF Queued
  <2> QED
    BY <1>1, <2>1, <2>2
<1>4. CASE pc = "callback" /\ Queued(k) # {}
  <2> DEFINE n == CHOOSE i \in Queued(k) : \A j \in Queued(k) : i <= j
  <2>1. \E i \in Queued(k) : \A j \in Queued(k) : i <= j
    <3>1. Queued(k) \subseteq 2..Len(w_q)
      BY DEF Queued
    <3>2. \A i, j \in Queued(k) : i = j
      <4> SUFFICES ASSUME NEW i \in Queued(k), NEW j \in Queued(k) PROVE i = j
        OBVIOUS
      <4>1. i \in 1..Len(w_q) /\ j \in 1..Len(w_q)
        BY <1>1, <3>1
      <4>2. w_q[i] \in Members(w_q) /\ w_q[j] \in Members(w_q)
        BY <4>1 DEF Members
      <4>3. waits[w_q[i]] = k /\ waits[w_q[j]] = k
        BY DEF Queued
      <4>4. w_q[i] = w_q[j]
        BY <1>1, <4>2, <4>3 DEF Apart
      <4> QED
        BY <1>1, <4>1, <4>4 DEF NoRepeats
    <3>3. PICK i \in Queued(k) : TRUE
      BY <1>4
    <3>4. i <= i
      BY <1>1, <3>1, <3>3
    <3> QED
      BY <3>2, <3>3, <3>4
  <2>2. n \in Queued(k)
    BY <2>1
  <2>3. CancelQueued(k) = [live EXCEPT ![w_q[n]] = FALSE]
    BY <1>4 DEF CancelQueued
  <2> HIDE DEF n
  <2>4. n \in 2..Len(w_q) /\ waits[w_q[n]] = k
    BY <2>2 DEF Queued
  <2>5. n \in 1..Len(w_q) /\ n # 1
    BY <1>1, <2>4
  <2>6. w_q[n] \in Members(w_q)
    BY <2>5 DEF Members
  <2>7. CancelQueued(k) \in [CB -> BOOLEAN]
    BY <1>1, <2>3, Zenon
  <2>8. \A c \in CB : CancelQueued(k)[c] <=> IF c = w_q[n] THEN FALSE ELSE live[c]
    BY <1>1, <2>3
  <2>9. ASSUME NEW c \in CB, c \notin Members(w_q) PROVE CancelQueued(k)[c] = live[c]
    BY <1>1, <2>3, <2>6, <2>9
  <2>10. ASSUME NEW c \in Members(w_q), c # Head(w_q)
         PROVE  CancelQueued(k)[c] <=> live[c] /\ waits[c] # k
    <3>1. c = w_q[n] \/ waits[c] # k
      BY <1>1, <2>4, <2>6 DEF Apart
    <3> QED
      BY <1>2, <2>4, <2>8, <3>1
  <2> QED
    BY <2>7, <2>9, <2>10
<1> QED
  BY <1>3, <1>4

\* NR_async_cancel, of a registered callback or of one in the round.
LEMMA CancelStep ==
    ASSUME IndInv, NEW k \in Conditions, Cancel(k)
    PROVE  IndInv'
<1> USE DEF IndInv
<1>w. /\ ClientRuns
      /\ free_q' = PoolWithout(k)
      /\ socket_vec' = [socket_vec EXCEPT ![k] = NULL]
      /\ live' = CancelQueued(k)
      /\ want' = {c \in want : waits[c] # k}
      /\ UNCHANGED <<build, q_head, w_q, leaked, waits, pc, ready, status, reads, atCall>>
  BY DEF Cancel, roundVars
<1>1. /\ Registered' = Registered \ {socket_vec[k]}
      /\ PlaceInv'
      /\ free_q' \in Seq(CB) /\ socket_vec' \in [Conditions -> CB \cup {NULL}]
      /\ \A l \in Conditions : socket_vec'[l] # NULL => waits'[socket_vec'[l]] = l
      /\ \A c \in Registered : waits[c] = k <=> c = socket_vec[k]
  BY <1>w, CancelLemma
<1>2. /\ live' \in [CB -> BOOLEAN]
      /\ \A c \in CB : c \notin Members(w_q) => live'[c] = live[c]
      /\ pc = "callback" =>
            \A c \in Members(w_q) \ {Head(w_q)} : live'[c] <=> live[c] /\ waits[c] # k
  BY <1>w, CancelQueuedLemma
<1>3. Registered \subseteq CB /\ Members(q_head) \subseteq CB /\ Members(w_q) \subseteq CB
  BY PlacesLemma
<1>4. TypeOK'
  <2>1. epoll_set' \subseteq Socks
    BY DEF TypeOK, Cancel
  <2> QED
    BY <1>w, <1>1, <1>2, <2>1 DEF TypeOK
<1>5. KindInv'
  <2>1. \A c \in Registered' \cup Members(q_head') : live'[c]
    BY <1>w, <1>1, <1>2, <1>3 DEF KindInv, PlaceInv
  <2> QED
    BY <1>w, <1>1, <2>1 DEF KindInv, Apart
<1>6. RoundInv' /\ DrainInv'
  BY <1>w DEF RoundInv, DrainInv, QueueIsDrained
<1>7. NothingLost'
  <2>1. \A c \in Members(q_head) : waits[c] # k
    BY <1>w, ConditionLemma DEF KindInv, ClientRuns
  <2>2. CASE pc = "idle"
    <3>1. Members(w_q) = {}
      BY <2>2, RunningLemma
    <3>2. want = Registered \cup Members(q_head)
      BY <2>2, <3>1 DEF NothingLost
    <3>3. want' = Registered' \cup Members(q_head')
      BY <1>w, <1>1, <2>1, <3>2
    <3> QED
      BY <1>w, <2>2, <3>1, <3>3 DEF NothingLost
  <2>3. CASE pc = "callback"
    <3>1. want = (Registered \cup Members(q_head) \cup {c \in Members(w_q) : live[c]})
                 \ {Head(w_q)}
      BY <2>3 DEF NothingLost
    <3>2. Head(w_q) \in Members(w_q)
      BY <2>3, RunningLemma
    <3>3. want' = (Registered' \cup Members(q_head') \cup {c \in Members(w_q') : live'[c]})
                  \ {Head(w_q')}
      <4> SUFFICES ASSUME NEW c
                   PROVE  c \in want' <=>
                            /\ c \in Registered' \/ c \in Members(q_head) \/ (c \in Members(w_q) /\ live'[c])
                            /\ c # Head(w_q)
        BY <1>w
      <4>1. c \in want' <=> c \in want /\ waits[c] # k
        BY <1>w
      <4> QED
        BY <1>1, <1>2, <2>1, <2>3, <3>1, <4>1
    <3> QED
      BY <1>w, <2>3, <3>3 DEF NothingLost
  <2> QED
    BY <1>w, <2>2, <2>3 DEF ClientRuns
<1> QED
  BY <1>1, <1>4, <1>5, <1>6, <1>7

\* NR_async_cancel returns before it has looked at the queue.
LEMMA CancelRefusedStep ==
    ASSUME IndInv, NEW k \in Conditions, CancelRefused(k)
    PROVE  IndInv'
<1> USE DEF IndInv
<1>w. /\ free_q' = PoolWithout(k)
      /\ socket_vec' = [socket_vec EXCEPT ![k] = NULL]
      /\ want' = want \ {socket_vec[k]}
      /\ UNCHANGED <<build, q_head, w_q, leaked, live, waits, pc, ready, status, reads, atCall>>
  BY DEF CancelRefused, roundVars
<1>1. /\ Registered' = Registered \ {socket_vec[k]}
      /\ PlaceInv'
      /\ free_q' \in Seq(CB) /\ socket_vec' \in [Conditions -> CB \cup {NULL}]
      /\ \A l \in Conditions : socket_vec'[l] # NULL => waits'[socket_vec'[l]] = l
      /\ socket_vec[k] \notin Members(q_head) \cup Members(w_q)
  BY <1>w, CancelLemma
<1>2. TypeOK'
  <2>1. epoll_set' \subseteq Socks
    BY DEF TypeOK, CancelRefused
  <2> QED
    BY <1>w, <1>1, <2>1 DEF TypeOK
<1>3. KindInv'
  BY <1>w, <1>1 DEF KindInv, Apart
<1>4. RoundInv' /\ DrainInv'
  BY <1>w DEF RoundInv, DrainInv, QueueIsDrained
<1>5. NothingLost'
  BY <1>w, <1>1 DEF NothingLost
<1> QED
  BY <1>1, <1>2, <1>3, <1>4, <1>5

\* NR_async_schedule puts a fresh structure at the end of the queue.
LEMMA ScheduleStep ==
    ASSUME IndInv, NEW c \in CB, Schedule(c)
    PROVE  IndInv'
<1> USE DEF IndInv
<1>w. /\ ClientRuns
      /\ free_q' = TakeFrom(free_q, c)
      /\ live' = [live EXCEPT ![c] = TRUE]
      /\ waits' = [waits EXCEPT ![c] = <<NoSock, NoSock>>]
      /\ q_head' = Append(q_head, c)
      /\ want' = want \cup {c}
      /\ UNCHANGED <<build, w_q, socket_vec, leaked, epoll_set, pc, ready, status, reads, atCall>>
  BY DEF Schedule, NextRound, roundVars
<1>1. /\ c \notin Registered \cup Members(q_head) \cup Members(w_q) \cup leaked
      /\ free_q' \in Seq(CB)
      /\ NoRepeats(free_q')
      /\ Members(free_q') = Members(free_q) \ {c}
  <2>1. /\ free_q \in Seq(CB) /\ NoRepeats(free_q)
        /\ Fresh \in SUBSET CB /\ Fresh \cap Members(free_q) = {}
    BY DEF TypeOK, PlaceInv, Fresh
  <2>2. c \in Available(free_q, Fresh)
    BY DEF Schedule
  <2>3. /\ free_q = <<>> => c \in Fresh
        /\ free_q # <<>> => c \in Members(free_q)
        /\ TakeFrom(free_q, c) \in Seq(CB)
        /\ Members(TakeFrom(free_q, c)) = Members(free_q) \ {c}
        /\ NoRepeats(TakeFrom(free_q, c))
    BY <2>1, <2>2, CreateLemma
  <2>4. c \notin Registered \cup Members(q_head) \cup Members(w_q) \cup leaked
    BY <2>3 DEF Fresh, PlaceInv
  <2> QED
    BY <1>w, <2>3, <2>4
<1>2. /\ q_head' \in Seq(CB)
      /\ Members(q_head') = Members(q_head) \cup {c}
      /\ NoRepeats(q_head')
  BY <1>w, <1>1, AppendLemma DEF TypeOK, PlaceInv
<1>3. Registered' = Registered
  BY <1>w DEF Registered
<1>4. Registered \subseteq CB /\ Members(q_head) \subseteq CB /\ Members(w_q) \subseteq CB
  BY PlacesLemma
<1>5. TypeOK'
  <2>1. live' \in [CB -> BOOLEAN]
    BY <1>w, Zenon DEF TypeOK
  <2>2. waits' \in [CB -> Conditions \cup {<<NoSock, NoSock>>}]
    BY <1>w DEF TypeOK
  <2> QED
    BY <1>w, <1>1, <1>2, <2>1, <2>2 DEF TypeOK
<1>6. PlaceInv'
  BY <1>w, <1>1, <1>2, <1>3 DEF PlaceInv
<1>7. KindInv'
  <2>1. /\ \A d \in CB : d # c => waits'[d] = waits[d] /\ live'[d] = live[d]
        /\ waits'[c] = <<NoSock, NoSock>> /\ live'[c]
    BY <1>w DEF TypeOK
  <2>2. ASSUME NEW l \in Conditions, socket_vec'[l] # NULL PROVE waits'[socket_vec'[l]] = l
    <3>1. socket_vec'[l] = socket_vec[l] /\ socket_vec[l] \in Registered
      BY <1>w, <2>2 DEF Registered
    <3> QED
      BY <1>1, <1>4, <2>1, <2>2, <3>1 DEF KindInv
  <2>3. \A d \in Registered' \cup Members(q_head') : live'[d]
    BY <1>1, <1>2, <1>3, <1>4, <2>1 DEF KindInv
  <2>4. \A d \in Members(q_head) : waits'[d] = waits[d] /\ waits[d] = <<NoSock, NoSock>>
    BY <1>w, <1>1, <1>4, <2>1 DEF KindInv, ClientRuns
  <2>5. \A d \in Members(q_head') : waits'[d] = <<NoSock, NoSock>>
    BY <1>2, <2>1, <2>4
  <2>6. \A d \in Members(w_q) : waits'[d] = waits[d]
    BY <1>1, <1>4, <2>1
  <2>7. \A d \in Members(q_head') : waits'[d] \notin ready' /\ waits'[d] \notin Conditions
    <3>1. ready' \subseteq Conditions /\ <<NoSock, NoSock>> \notin Conditions
      BY <1>w, ConditionLemma DEF TypeOK
    <3>2. <<NoSock, NoSock>> \notin ready'
      BY <3>1
    <3> QED
      BY <2>5, <3>1, <3>2
  <2>8. Apart(Members(q_head))'
    BY <2>7 DEF Apart
  <2>9. Apart(Members(w_q))'
    BY <1>w, <2>6 DEF KindInv, Apart
  <2> QED
    BY <2>2, <2>3, <2>5, <2>7, <2>8, <2>9 DEF KindInv
<1>8. RoundInv' /\ DrainInv'
  BY <1>w, <1>2 DEF RoundInv, DrainInv, QueueIsDrained
<1>9. NothingLost'
  <2>1. \A d \in Members(w_q) : live'[d] = live[d]
    BY <1>w, <1>1, <1>4 DEF TypeOK
  <2>2. c # Head(w_q) \/ pc # "callback"
    BY <1>1, RunningLemma
  <2> QED
    BY <1>w, <1>2, <1>3, <2>1, <2>2 DEF NothingLost
<1> QED
  BY <1>5, <1>6, <1>7, <1>8, <1>9

-----------------------------------------------------------------------------
(***************************************************************************)
(* The steps of event_wait2.                                                *)
(***************************************************************************)
LEMMA ReturnEarlyStep ==
    ASSUME IndInv, NothingToDo \/ TimedOut \/ PollFails \/ NoEvents
    PROVE  IndInv'
<1> USE DEF IndInv
<1>w. /\ pc = "idle"
      /\ status' \in {"R_EOD", "R_WOULDBLOCK", "R_INTERNAL"}
      /\ build = "select" => q_head = <<>> \/ status' = "R_INTERNAL"
      /\ atCall' = Members(q_head)
      /\ UNCHANGED <<build, socket_vec, q_head, w_q, free_q, leaked, live, waits, epoll_set,
                     pc, ready, reads, want>>
  BY DEF NothingToDo, TimedOut, PollFails, NoEvents, ReturnEarly, NothingQueued, poolVars
<1>1. Registered' = Registered
  BY <1>w DEF Registered
<1>2. TypeOK'
  BY <1>w, PlacesLemma DEF TypeOK
<1>3. PlaceInv' /\ KindInv' /\ RoundInv' /\ NothingLost'
  BY <1>w, <1>1 DEF PlaceInv, KindInv, Apart, RoundInv, NothingLost
<1>4. DrainInv'
  BY <1>w, EmptyLemma DEF DrainInv, QueueIsDrained
<1> QED
  BY <1>2, <1>3, <1>4

\* The call of select or epoll_wait says what is ready.
LEMMA PollStepLemma ==
    ASSUME IndInv, NEW r \in SUBSET Conditions, Poll(r)
    PROVE  IndInv'
<1> USE DEF IndInv
<1>w. /\ pc = "idle" /\ pc' = "collect"
      /\ status' = "running"
      /\ atCall' = Members(q_head)
      /\ ready' = r
      /\ UNCHANGED <<build, socket_vec, q_head, w_q, free_q, leaked, live, waits, epoll_set,
                     reads, want>>
  BY DEF Poll, StartRound, poolVars
<1>1. Registered' = Registered
  BY <1>w DEF Registered
<1>2. TypeOK'
  BY <1>w, PlacesLemma DEF TypeOK
<1>3. PlaceInv' /\ RoundInv' /\ NothingLost'
  BY <1>w, <1>1 DEF PlaceInv, RoundInv, NothingLost
<1>4. KindInv'
  <2>1. <<NoSock, NoSock>> \notin r
    BY ConditionLemma
  <2>2. \A c \in Members(q_head) : waits[c] \notin r
    BY <1>w, <2>1 DEF KindInv
  <2> QED
    BY <1>w, <1>1, <2>2 DEF KindInv, Apart
<1>5. DrainInv'
  BY <1>w DEF DrainInv, QueueIsDrained
<1> QED
  BY <1>2, <1>3, <1>4, <1>5

\* What is collected for a condition is the structure registered for it.
LEMMA CollectedLemma ==
    ASSUME IndInv, NEW k \in Conditions
    PROVE  /\ Collected(k) \in Seq(CB) /\ NoRepeats(Collected(k))
           /\ Members(Collected(k)) = IF k \in ready THEN {socket_vec[k]} \ {NULL} ELSE {}
<1>1. socket_vec[k] \in CB \cup {NULL}
  BY DEF IndInv, TypeOK
<1>2. CASE k \in ready /\ socket_vec[k] # NULL
  <2>1. Collected(k) = <<socket_vec[k]>> /\ socket_vec[k] \in CB
    BY <1>1, <1>2 DEF Collected
  <2> QED
    BY <1>2, <2>1 DEF Members, NoRepeats
<1>3. CASE ~(k \in ready /\ socket_vec[k] # NULL)
  <2>1. Collected(k) = <<>>
    BY <1>3 DEF Collected
  <2> QED
    BY <1>3, <2>1, EmptyLemma
<1> QED
  BY <1>2, <1>3

\* The structures that one iteration of the collecting moves to the queue.
Moved(s) == Members(Collected(<<s, READ>>)) \cup Members(Collected(<<s, WRITE>>))

\* They are the registered ones of the reported conditions of s.
LEMMA MovedLemma ==
    ASSUME IndInv, NEW s \in Socks
    PROVE  /\ Moved(s) \subseteq Registered
           /\ \A c \in Moved(s) : waits[c] \in ready /\ waits[c][1] = s
           /\ \A c \in Registered : waits[c] \in ready /\ waits[c][1] = s => c \in Moved(s)
           /\ Apart(Moved(s))
           /\ Members(Collected(<<s, READ>>)) \cap Members(Collected(<<s, WRITE>>)) = {}
<1> USE DEF IndInv
<1> DEFINE kr == <<s, READ>>
           kw == <<s, WRITE>>
<1>1. kr \in Conditions /\ kw \in Conditions /\ kr[1] = s /\ kw[1] = s /\ kr # kw
  BY ConditionLemma DEF READ, WRITE
<1>2. \A k \in Conditions : k[1] = s => k = kr \/ k = kw
  BY ConditionLemma
<1>3. /\ Members(Collected(kr)) = IF kr \in ready THEN {socket_vec[kr]} \ {NULL} ELSE {}
      /\ Members(Collected(kw)) = IF kw \in ready THEN {socket_vec[kw]} \ {NULL} ELSE {}
  BY <1>1, CollectedLemma
<1>4. Moved(s) = Members(Collected(kr)) \cup Members(Collected(kw))
  BY DEF Moved
<1> HIDE DEF kr, kw
<1>5. ASSUME NEW c \in Moved(s)
      PROVE  c \in Registered /\ waits[c] \in ready /\ waits[c][1] = s
  BY <1>1, <1>3, <1>4 DEF Registered, KindInv
<1>6. ASSUME NEW c \in Registered, waits[c] \in ready, waits[c][1] = s
      PROVE  c \in Moved(s)
  <2>1. PICK k \in Conditions : socket_vec[k] = c /\ c # NULL
    BY DEF Registered
  <2>2. waits[c] = k
    BY <2>1 DEF KindInv
  <2> QED
    BY <1>2, <1>3, <1>4, <1>6, <2>1, <2>2
<1>7. ASSUME NEW c \in Moved(s), NEW d \in Moved(s), waits[c] = waits[d] PROVE c = d
  <2>1. c \in Registered /\ d \in Registered
    BY <1>5
  <2> QED
    BY <1>7, <2>1 DEF Registered, KindInv
<1>8. Members(Collected(kr)) \cap Members(Collected(kw)) = {}
  BY <1>1, <1>3 DEF KindInv
<1> QED
  BY <1>5, <1>6, <1>7, <1>8 DEF Apart, kr, kw

\* What is ready of a descriptor goes from the vector to the queue.
LEMMA CollectStep ==
    ASSUME IndInv, NEW s \in Socks, Collect(s)
    PROVE  IndInv'
<1> USE DEF IndInv
<1> DEFINE a == Collected(<<s, READ>>)
           b == Collected(<<s, WRITE>>)
<1>w. /\ pc = "collect"
      /\ q_head' = q_head \o a \o b
      /\ socket_vec' = ClearCollected(s)
      /\ reads' = (reads \/ a # <<>>)
      /\ ready' = {k \in ready : k[1] # s}
      /\ UNCHANGED <<build, w_q, free_q, leaked, live, waits, epoll_set, pc, status, atCall, want>>
  BY DEF Collect, poolVars
<1>1. /\ Moved(s) \subseteq Registered
      /\ \A c \in Moved(s) : waits[c] \in ready /\ waits[c][1] = s
      /\ \A c \in Registered : waits[c] \in ready /\ waits[c][1] = s => c \in Moved(s)
      /\ Apart(Moved(s))
      /\ Members(a) \cap Members(b) = {}
      /\ Moved(s) = Members(a) \cup Members(b)
  BY MovedLemma DEF Moved
<1>2. /\ a \in Seq(CB) /\ NoRepeats(a)
      /\ b \in Seq(CB) /\ NoRepeats(b)
  BY ConditionLemma, CollectedLemma
<1> HIDE DEF a, b
<1>3. /\ q_head' \in Seq(CB)
      /\ Members(q_head') = Members(q_head) \cup Moved(s)
      /\ NoRepeats(q_head')
  <2>1. q_head \in Seq(CB) /\ NoRepeats(q_head) /\ Members(q_head) \cap Moved(s) = {}
    BY <1>1 DEF TypeOK, PlaceInv
  <2>2. /\ q_head \o a \in Seq(CB)
        /\ Members(q_head \o a) = Members(q_head) \cup Members(a)
        /\ NoRepeats(q_head \o a)
    BY <1>1, <1>2, <2>1, ConcatLemma
  <2> DEFINE p == q_head \o a
  <2>3. /\ p \in Seq(CB) /\ NoRepeats(p)
        /\ Members(p) = Members(q_head) \cup Members(a)
        /\ q_head' = p \o b
    BY <1>w, <2>2
  <2> HIDE DEF p
  <2>4. Members(p) \cap Members(b) = {}
    BY <1>1, <2>1, <2>3
  <2>5. /\ p \o b \in Seq(CB)
        /\ Members(p \o b) = Members(p) \cup Members(b)
        /\ NoRepeats(p \o b)
    BY <1>2, <2>3, <2>4, ConcatLemma
  <2> QED
    BY <1>1, <2>3, <2>5
<1>4. \A k \in Conditions :
         socket_vec'[k] = IF k[1] = s /\ k \in ready THEN NULL ELSE socket_vec[k]
  BY <1>w DEF ClearCollected
<1>5. Registered' = Registered \ Moved(s)
  <2>1. Registered' = {socket_vec'[k] : k \in Conditions} \ {NULL}
    BY DEF Registered
  <2>2. ASSUME NEW c \in Registered' PROVE c \in Registered \ Moved(s)
    <3>1. PICK k \in Conditions : socket_vec'[k] = c /\ c # NULL
      BY <2>1
    <3>2. ~(k[1] = s /\ k \in ready) /\ socket_vec[k] = c
      BY <1>4, <3>1
    <3>3. c \in Registered /\ waits[c] = k
      BY <3>1, <3>2 DEF Registered, KindInv
    <3> QED
      BY <1>1, <3>2, <3>3
  <2>3. ASSUME NEW c \in Registered, c \notin Moved(s) PROVE c \in Registered'
    <3>1. PICK k \in Conditions : socket_vec[k] = c /\ c # NULL
      BY DEF Registered
    <3>2. waits[c] = k
      BY <3>1 DEF KindInv
    <3>3. ~(k[1] = s /\ k \in ready)
      BY <1>1, <2>3, <3>2
    <3>4. socket_vec'[k] = c
      BY <1>4, <3>1, <3>3
    <3> QED
      BY <2>1, <3>1, <3>4
  <2> QED
    BY <2>2, <2>3
<1>6. TypeOK'
  <2>1. socket_vec' \in [Conditions -> CB \cup {NULL}]
    BY <1>w DEF ClearCollected, TypeOK
  <2>2. reads' \in BOOLEAN
    BY <1>w, Zenon
  <2>3. ready' \subseteq Conditions
    BY <1>w DEF TypeOK
  <2> QED
    BY <1>w, <1>3, <2>1, <2>2, <2>3 DEF TypeOK
<1>7. PlaceInv'
  BY <1>w, <1>1, <1>3, <1>5 DEF PlaceInv
<1>8. KindInv'
  <2>1. ASSUME NEW k \in Conditions, socket_vec'[k] # NULL PROVE waits'[socket_vec'[k]] = k
    BY <1>w, <1>4, <2>1 DEF KindInv
  <2>2. \A c \in Registered' \cup Members(q_head') : live'[c]
    BY <1>w, <1>1, <1>3, <1>5 DEF KindInv
  <2>3. \A c \in Members(q_head') : waits'[c] \notin ready'
    BY <1>w, <1>1, <1>3 DEF KindInv
  <2>4. Apart(Members(q_head))
    BY DEF KindInv
  <2>5. \A c \in Members(q_head), d \in Moved(s) : waits[c] # waits[d]
    BY <1>1 DEF KindInv
  <2>6. Apart(Members(q_head'))
    BY <1>1, <1>3, <2>4, <2>5 DEF Apart
  <2>7. Apart(Members(q_head))'
    BY <1>w, <2>6 DEF Apart
  <2> QED
    BY <1>w, <2>1, <2>2, <2>3, <2>7 DEF KindInv, Apart
<1>9. RoundInv' /\ DrainInv'
  BY <1>w, <1>3 DEF RoundInv, DrainInv, QueueIsDrained
<1>10. NothingLost'
  BY <1>w, <1>1, <1>3, <1>5 DEF NothingLost
<1> QED
  BY <1>6, <1>7, <1>8, <1>9, <1>10

\* The queue becomes the round.
LEMMA BeginFiringStep ==
    ASSUME IndInv, BeginFiring
    PROVE  IndInv'
<1> USE DEF IndInv
<1>w. /\ pc = "collect" /\ pc' = "fire"
      /\ w_q' = q_head /\ q_head' = <<>>
      /\ w_q = <<>>
      /\ UNCHANGED <<build, socket_vec, free_q, leaked, live, waits, epoll_set, ready, status,
                     reads, atCall, want>>
  BY DEF BeginFiring, poolVars, RoundInv
<1>1. /\ Registered' = Registered
      /\ Members(w_q') = Members(q_head) /\ Members(q_head') = {} /\ Members(w_q) = {}
  BY <1>w, EmptyLemma DEF Registered
<1>2. TypeOK'
  BY <1>w DEF TypeOK
<1>3. PlaceInv'
  BY <1>w, <1>1, EmptyLemma DEF PlaceInv
<1>4. KindInv'
  BY <1>w, <1>1 DEF KindInv, Apart
<1>5. RoundInv'
  BY <1>w DEF RoundInv
<1>6. DrainInv'
  BY <1>w, <1>1 DEF DrainInv, QueueIsDrained
<1>7. NothingLost'
  <2>1. want = Registered \cup Members(q_head)
    BY <1>w, <1>1 DEF NothingLost
  <2>2. \A c \in Members(w_q') : live'[c]
    BY <1>w, <1>1 DEF KindInv
  <2>3. want' = Registered' \cup Members(q_head') \cup {c \in Members(w_q') : live'[c]}
    BY <1>w, <1>1, <2>1, <2>2
  <2> QED
    BY <1>w, <2>3 DEF NothingLost
<1> QED
  BY <1>2, <1>3, <1>4, <1>5, <1>6, <1>7

\* Taking the head off the round and putting it in the pool, when it is not one
\* that the client counts on.
LEMMA DequeueLemma ==
    ASSUME IndInv, w_q # <<>>,
           pc \in {"fire", "callback"}, pc' = "fire",
           Head(w_q) \notin want,
           w_q' = Tail(w_q),
           free_q' = GiveBack(free_q, Head(w_q)),
           atCall' = atCall \ {Head(w_q)},
           UNCHANGED <<build, socket_vec, q_head, leaked, live, waits, epoll_set, ready,
                       status, reads, want>>
    PROVE  IndInv'
<1> USE DEF IndInv
<1> DEFINE h == Head(w_q)
<1>1. /\ h \in CB /\ h \in Members(w_q)
      /\ w_q' \in Seq(CB)
      /\ Members(w_q') = Members(w_q) \ {h}
      /\ NoRepeats(w_q')
  BY TailLemma DEF TypeOK, PlaceInv
<1>2. h \notin Members(free_q)
  BY <1>1 DEF PlaceInv
<1>3. free_q \in Seq(CB) /\ NoRepeats(free_q) /\ free_q' = Append(free_q, h)
  BY DEF TypeOK, PlaceInv, GiveBack
<1> HIDE DEF h
<1>4. /\ free_q' \in Seq(CB)
      /\ Members(free_q') = Members(free_q) \cup {h}
      /\ NoRepeats(free_q')
  <2>1. /\ Append(free_q, h) \in Seq(CB)
        /\ Members(Append(free_q, h)) = Members(free_q) \cup {h}
        /\ NoRepeats(Append(free_q, h))
    BY <1>1, <1>2, <1>3, AppendLemma
  <2> QED
    BY <1>3, <2>1
<1>5. Registered' = Registered
  BY DEF Registered
<1>6. TypeOK'
  BY <1>1, <1>4 DEF TypeOK, h
<1>7. PlaceInv'
  BY <1>1, <1>4, <1>5 DEF PlaceInv
<1>8. KindInv'
  BY <1>1, <1>5 DEF KindInv, Apart
<1>9. RoundInv'
  BY DEF RoundInv
<1>10. DrainInv'
  BY <1>1 DEF DrainInv, QueueIsDrained, h
<1>11. NothingLost'
  <2>1. h \notin Registered \cup Members(q_head)
    BY <1>1 DEF PlaceInv
  <2>2. want \ {h} = (Registered \cup Members(q_head) \cup {c \in Members(w_q) : live[c]}) \ {h}
    BY DEF NothingLost, h
  <2>3. want = Registered \cup Members(q_head) \cup {c \in Members(w_q) \ {h} : live[c]}
    BY <2>1, <2>2 DEF h
  <2> QED
    BY <1>1, <1>5, <2>3 DEF NothingLost
<1> QED
  BY <1>6, <1>7, <1>8, <1>9, <1>10, <1>11

\* A structure that was cancelled is passed over.
LEMMA SkipCancelledStep ==
    ASSUME IndInv, SkipCancelled
    PROVE  IndInv'
<1>1. Head(w_q) \in Members(w_q)
  BY TailLemma DEF SkipCancelled, IndInv, TypeOK, PlaceInv
<1>2. Head(w_q) \notin want
  BY <1>1 DEF SkipCancelled, IndInv, NothingLost, PlaceInv
<1> QED
  BY <1>2, DequeueLemma DEF SkipCancelled

\* A callback that is called is one that the client counts on.
LEMMA FireStep ==
    ASSUME IndInv, Fire
    PROVE  IndInv' /\ Head(w_q) \in want
<1> USE DEF IndInv
<1>w. /\ pc = "fire" /\ w_q # <<>> /\ live[Head(w_q)]
      /\ pc' = "callback"
      /\ want' = want \ {Head(w_q)}
      /\ UNCHANGED <<build, socket_vec, q_head, w_q, free_q, leaked, live, waits, epoll_set,
                     ready, status, reads, atCall>>
  BY DEF Fire, poolVars
<1>1. Head(w_q) \in Members(w_q)
  BY <1>w, TailLemma DEF TypeOK, PlaceInv
<1>2. want = Registered \cup Members(q_head) \cup {c \in Members(w_q) : live[c]}
  BY <1>w DEF NothingLost
<1>3. Registered' = Registered
  BY <1>w DEF Registered
<1>4. TypeOK'
  BY <1>w DEF TypeOK
<1>5. PlaceInv' /\ KindInv' /\ RoundInv' /\ DrainInv'
  BY <1>w, <1>3 DEF PlaceInv, KindInv, Apart, RoundInv, DrainInv, QueueIsDrained
<1>6. NothingLost'
  BY <1>w, <1>2, <1>3 DEF NothingLost
<1> QED
  BY <1>w, <1>1, <1>2, <1>4, <1>5, <1>6

\* A callback returns, and its structure goes back to the pool.
LEMMA ReturnStep ==
    ASSUME IndInv, Return
    PROVE  IndInv'
<1>1. Head(w_q) \notin want
  BY DEF Return, IndInv, NothingLost
<1>2. w_q # <<>>
  BY DEF Return, IndInv, RoundInv
<1> QED
  BY <1>1, <1>2, DequeueLemma DEF Return

\* The round is over when nothing is left in it.
LEMMA EndRoundStep ==
    ASSUME IndInv, EndRound
    PROVE  IndInv'
<1> USE DEF IndInv
<1>w. /\ pc = "fire" /\ w_q = <<>>
      /\ pc' = "idle"
      /\ status' \in {"R_EOD", "ok"}
      /\ reads' = FALSE
      /\ UNCHANGED <<build, socket_vec, q_head, w_q, free_q, leaked, live, waits, epoll_set,
                     ready, atCall, want>>
  BY DEF EndRound, poolVars
<1>1. Registered' = Registered
  BY <1>w DEF Registered
<1>2. TypeOK'
  BY <1>w DEF TypeOK
<1>3. PlaceInv' /\ KindInv' /\ RoundInv' /\ NothingLost'
  BY <1>w, <1>1 DEF PlaceInv, KindInv, Apart, RoundInv, NothingLost
<1>4. DrainInv'
  <2>1. atCall = {}
    BY <1>w, EmptyLemma DEF DrainInv
  <2> QED
    BY <1>w, <2>1 DEF DrainInv, QueueIsDrained
<1> QED
  BY <1>2, <1>3, <1>4

-----------------------------------------------------------------------------
\* Every step keeps the invariant.
LEMMA NextIndInv == IndInv /\ [Next]_vars => IndInv'
<1> SUFFICES ASSUME IndInv, [Next]_vars PROVE IndInv'
  OBVIOUS
<1>1. CASE ClientStep
  BY <1>1, WaitStep, WaitRefusedStep, CancelStep, CancelRefusedStep, ScheduleStep DEF ClientStep
<1>2. CASE PollStep
  BY <1>2, ReturnEarlyStep, PollStepLemma DEF PollStep
<1>3. CASE RoundStep
  BY <1>3, CollectStep, BeginFiringStep, SkipCancelledStep, FireStep, ReturnStep, EndRoundStep
     DEF RoundStep
<1>4. CASE UNCHANGED vars
  <2>1. UNCHANGED <<build, socket_vec, q_head, w_q, free_q, leaked, live, waits, epoll_set,
                    pc, ready, status, reads, atCall, want>>
    BY <1>4 DEF vars, poolVars, roundVars
  <2>2. Registered' = Registered
    BY <2>1 DEF Registered
  <2> QED
    BY <2>1, <2>2 DEF IndInv, TypeOK, PlaceInv, KindInv, Apart, RoundInv, NothingLost,
                      DrainInv, QueueIsDrained
<1> QED
  BY <1>1, <1>2, <1>3, <1>4 DEF Next

\* The invariant holds in every reachable state.
THEOREM Invariance == Spec => []IndInv
BY InitIndInv, NextIndInv, PTL DEF Spec

(***************************************************************************)
(* What the invariant gives.                                                *)
(***************************************************************************)
\* The state of the event queue is well typed.
THEOREM TypeCorrect == Spec => []TypeOK
<1>1. IndInv => TypeOK
  BY DEF IndInv
<1> QED
  BY <1>1, Invariance, PTL

\* A structure is registered for one condition, or in one of the three queues,
\* once, or leaked: NR_async_wait, NR_async_cancel and NR_async_schedule never
\* recycle one that something still refers to, whenever they are called.
THEOREM Ownership == Spec => []OnePlace
<1>1. ASSUME IndInv PROVE OnePlace
  <2> USE <1>1 DEF IndInv
  <2>1. q_head \in Seq(CB) /\ w_q \in Seq(CB) /\ free_q \in Seq(CB)
    BY DEF TypeOK
  <2> DEFINE p == q_head \o w_q
  <2>2. /\ p \in Seq(CB)
        /\ Members(p) = Members(q_head) \cup Members(w_q)
        /\ NoRepeats(p)
    BY <2>1, ConcatLemma DEF PlaceInv
  <2>3. q_head \o w_q \o free_q = p \o free_q
    OBVIOUS
  <2> HIDE DEF p
  <2>4. /\ Members(p \o free_q) = Members(p) \cup Members(free_q)
        /\ NoRepeats(p \o free_q)
    BY <2>1, <2>2, ConcatLemma DEF PlaceInv
  <2>5. \A k, l \in Conditions :
           socket_vec[k] = socket_vec[l] /\ socket_vec[k] # NULL => k = l
    BY DEF KindInv
  <2> QED
    BY <2>2, <2>3, <2>4, <2>5 DEF OnePlace, PlaceInv
<1> QED
  BY <1>1, Invariance, PTL

\* Every callback that the client waits for, has scheduled and has not cancelled
\* is registered, queued or armed in the round, and nothing else is.
THEOREM NothingIsLost == Spec => []NothingLost
<1>1. IndInv => NothingLost
  BY DEF IndInv
<1> QED
  BY <1>1, Invariance, PTL

\* A round of the select build deals with all that was queued when it was called.
\* (The epoll build does not: it returns early when no descriptor has an event.)
THEOREM SelectDrains == Spec => [](build = "select" => QueueIsDrained)
<1>1. IndInv => (build = "select" => QueueIsDrained)
  BY DEF IndInv, DrainInv
<1> QED
  BY <1>1, Invariance, PTL

\* Only Fire calls a callback.
LEMMA OnlyFireCalls ==
    ASSUME [Next]_vars, pc = "fire", pc' = "callback"
    PROVE  Fire
BY DEF Next, ClientStep, PollStep, RoundStep, vars, roundVars, Wait, WaitRefused, Cancel,
       CancelRefused, Schedule, NothingToDo, TimedOut, PollFails, NoEvents, ReturnEarly, Poll,
       StartRound, Collect, BeginFiring, SkipCancelled, Fire, Return, EndRound

\* No callback is called that was cancelled or replaced, even if its event had
\* already been queued for the round that is being fired.
THEOREM CancelledNeverFires == Spec => FiresOnlyWanted
<1>1. IndInv /\ [Next]_vars => [pc = "fire" /\ pc' = "callback" => Head(w_q) \in want]_vars
  BY OnlyFireCalls, FireStep
<1> QED
  BY <1>1, Invariance, PTL DEF Spec, FiresOnlyWanted
=============================================================================
