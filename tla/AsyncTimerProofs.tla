------------------------- MODULE AsyncTimerProofs -------------------------
(***************************************************************************)
(* Proofs about the timer wheel, for every size of the wheel, every width   *)
(* of int, every set of structures and of delays and every bound on time;   *)
(* and that it implements the safety half of the timer service: its initial *)
(* states are initial states of the service, and every step is one of the   *)
(* service's or leaves the service's state alone.                           *)
(***************************************************************************)
EXTENDS AsyncTimerService, CallbackQueueTheorems, FiniteSetTheorems

(***************************************************************************)
(* The inductive invariant.                                                 *)
(***************************************************************************)
Walking == pc \in {"walk", "callback", "purge"}
Walked == callwheel[Slot(offset)]
\* The walk has not yet gone past c in the queue.
Ahead(c) == cb # NULL /\ Position(Walked, cb) <= Position(Walked, c)

\* Where the walk is.
WalkInv ==
    /\ WalkPointersValid
    /\ Walking => offset \in 1..current_offset
    /\ pc = "slot" => offset \in 1..(current_offset + 1)
    /\ pc = "idle" => working_entry = NULL

\* Armed structures and handles agree; the one being called back is disarmed.
HandleInv ==
    /\ \A c \in CB : (c \in Scheduled /\ live[c]) <=> (c \in held /\ ~(pc = "callback" /\ c = cb))
    /\ pc = "callback" => ~live[cb]

\* A disarmed structure is in the queue being walked; it is the one being called
\* back or the queue is to be purged, and the purge has not gone past it.
DeadInv ==
    \A s \in Slots : \A c \in Members(callwheel[s]) : ~live[c] =>
        /\ Walking
        /\ s = Slot(offset)
        /\ pending_deactivates \/ (pc = "callback" /\ c = cb)
        /\ pc = "purge" => Ahead(c)

\* A structure hangs in the slot of its deadline and carries it, as an int.
TimeInv ==
    \A s \in Slots : \A c \in Members(callwheel[s]) :
        s = Slot(deadline[c]) /\ resource[c] = ToInt(deadline[c])

\* A timer whose time has come is still to be met by the walk.
LateInv ==
    \A s \in Slots : \A c \in Members(callwheel[s]) :
        live[c] /\ FitsInt(deadline[c]) /\ deadline[c] <= current_offset =>
            /\ pc # "idle"
            /\ deadline[c] >= offset
            /\ Walking /\ deadline[c] = offset =>
                  /\ pc # "purge"
                  /\ Ahead(c)
                  /\ pc = "callback" => cb2 # NULL

IndInv == TypeOK /\ LinkedOnce /\ WalkInv /\ HandleInv /\ DeadInv /\ TimeInv /\ LateInv

-----------------------------------------------------------------------------
(***************************************************************************)
(* Arithmetic of slots and of the int field.                                *)
(***************************************************************************)
\* Every offset has a slot.
LEMMA SlotLemma == \A x \in Nat : Slot(x) \in Slots
BY WheelAssumption DEF Slot, Slots

\* The conversion to int yields an integer.
LEMMA ToIntLemma == \A x \in Int : ToInt(x) \in Int
BY IntAssumption DEF ToInt, INT_MAX

\* Up to INT_MAX the conversion to int is exact, and up to INT_RANGE it is
\* exact or negative.
LEMMA FitsLemma ==
    \A x \in Nat : /\ FitsInt(x) => ToInt(x) = x
                   /\ x < INT_RANGE => ToInt(x) = x \/ ToInt(x) < 0
<1> SUFFICES ASSUME NEW x \in Nat, x < INT_RANGE \/ FitsInt(x)
             PROVE  /\ FitsInt(x) => ToInt(x) = x
                    /\ ToInt(x) = x \/ ToInt(x) < 0
  OBVIOUS
<1>1. x < INT_RANGE
  BY IntAssumption DEF FitsInt, INT_MAX
<1>2. x % INT_RANGE = x
  BY <1>1, IntAssumption
<1> QED
  BY <1>1, <1>2, IntAssumption DEF ToInt, FitsInt

\* A delay is at least one entry.
LEMMA WheelOffsetLemma == \A d \in Delays : WheelOffset(d) \in Nat \ {0}
BY DelayAssumption DEF WheelOffset

\* What is linked in the wheel is a structure, with a deadline.
LEMMA LinkedLemma ==
    ASSUME TypeOK
    PROVE  \A s \in Slots : \A c \in Members(callwheel[s]) : c \in CB /\ deadline[c] \in Nat
<1> SUFFICES ASSUME NEW s \in Slots, NEW c \in Members(callwheel[s])
             PROVE  c \in CB /\ deadline[c] \in Nat
  OBVIOUS
<1>1. callwheel[s] \in Seq(CB)
  BY DEF TypeOK
<1> QED
  BY <1>1, MembersLemma DEF TypeOK

-----------------------------------------------------------------------------
\* The invariant holds initially.
LEMMA InitIndInv == Init => IndInv
<1> SUFFICES ASSUME Init PROVE IndInv
  OBVIOUS
<1> USE DEF Init
<1>1. TypeOK
  <2>1. live \in [CB -> BOOLEAN]
    BY Zenon
  <2>2. callwheel \in [Slots -> Seq(CB)] /\ backptr \in [CB -> Slots]
    BY WheelAssumption DEF Slots
  <2>3. current_offset \in 0..MaxTime /\ offset \in 0..MaxTime + 1
    BY TimeAssumption
  <2>4. resource \in [CB -> Int] /\ deadline \in [CB -> Nat]
    OBVIOUS
  <2>5. first_time \in BOOLEAN /\ pending_deactivates \in BOOLEAN
    BY Zenon
  <2> QED
    BY <2>1, <2>2, <2>3, <2>4, <2>5 DEF TypeOK
<1>2. \A s \in Slots : Members(callwheel[s]) = {}
  BY DEF Members
<1>3. Members(free_q) = {} /\ NoRepeats(free_q) /\ \A s \in Slots : NoRepeats(callwheel[s])
  BY DEF Members, NoRepeats
<1>4. Scheduled = {}
  BY <1>2 DEF Scheduled
<1>5. LinkedOnce
  BY <1>2, <1>3, <1>4 DEF LinkedOnce
<1>6. WalkInv
  BY DEF WalkInv, WalkPointersValid, Walking
<1>7. HandleInv
  BY <1>4 DEF HandleInv
<1>8. DeadInv /\ TimeInv /\ LateInv
  BY <1>2 DEF DeadInv, TimeInv, LateInv
<1> QED
  BY <1>1, <1>5, <1>6, <1>7, <1>8 DEF IndInv

-----------------------------------------------------------------------------
(***************************************************************************)
(* The steps that leave the wheel, the structures, the pool and the handles *)
(* alone.                                                                   *)
(***************************************************************************)
wheelVars == <<callwheel, structVars, free_q, held, deadline>>

\* Such a step keeps what does not depend on where the walk is.
LEMMA QuietStep ==
    ASSUME IndInv, UNCHANGED wheelVars
    PROVE  LinkedOnce' /\ TimeInv' /\ Scheduled' = Scheduled
<1> USE DEF IndInv, wheelVars, structVars
<1>1. Scheduled' = Scheduled
  BY DEF Scheduled
<1>2. LinkedOnce'
  BY <1>1 DEF LinkedOnce
<1>3. TimeInv'
  BY DEF TimeInv
<1> QED
  BY <1>1, <1>2, <1>3

\* Entry to update_time, first call.
LEMMA FirstUpdateStep == ASSUME IndInv, FirstUpdate PROVE IndInv'
<1> USE DEF IndInv, FirstUpdate
<1>1. LinkedOnce' /\ TimeInv' /\ Scheduled' = Scheduled
  BY QuietStep DEF wheelVars
<1>2. TypeOK'
  BY DEF TypeOK, structVars, walkVars
<1>3. WalkInv' /\ HandleInv'
  BY <1>1 DEF WalkInv, WalkPointersValid, Walking, HandleInv, Following, structVars, walkVars
<1>4. DeadInv' /\ LateInv'
  BY DEF DeadInv, LateInv, Walking, Ahead, Walked, structVars, walkVars
<1> QED
  BY <1>1, <1>2, <1>3, <1>4

\* Entry to update_time, later calls: what was not due is not behind the walk.
LEMMA StartUpdateStep ==
    ASSUME IndInv, NEW t \in 0..MaxTime, StartUpdate(t) PROVE IndInv'
<1> USE DEF IndInv, StartUpdate
<1>1. LinkedOnce' /\ TimeInv' /\ Scheduled' = Scheduled
  BY QuietStep DEF wheelVars
<1>2. TypeOK'
  BY TimeAssumption DEF TypeOK, structVars
<1>3. WalkInv'
  BY TimeAssumption DEF WalkInv, WalkPointersValid, Walking, TypeOK
<1>4. HandleInv'
  BY <1>1 DEF HandleInv, structVars
<1>5. DeadInv'
  BY DEF DeadInv, Walking, structVars
<1>6. LateInv'
  <2>1. \A s \in Slots : \A c \in Members(callwheel[s]) : deadline[c] \in Nat
    BY LinkedLemma
  <2>2. current_offset \in Nat /\ offset' = current_offset + 1 /\ pc' = "slot"
    BY TimeAssumption DEF TypeOK
  <2>3. SUFFICES ASSUME NEW s \in Slots, NEW c \in Members(callwheel[s]),
                        live[c], FitsInt(deadline[c])
                 PROVE  deadline[c] >= offset'
    BY <2>2 DEF LateInv, Walking, structVars
  <2>4. ~(deadline[c] <= current_offset)
    BY <2>3 DEF LateInv
  <2> QED
    BY <2>1, <2>2, <2>4
<1> QED
  BY <1>1, <1>2, <1>3, <1>4, <1>5, <1>6

\* From the first entry of a queue all its entries are ahead.
LEMMA FirstAheadLemma ==
    ASSUME Walked \in Seq(CB), NoRepeats(Walked), Walked' = Walked,
           cb' = First(Walked, NULL)
    PROVE  \A c \in Members(Walked) : Ahead(c)'
<1> SUFFICES ASSUME NEW c \in Members(Walked)
             PROVE  cb' # NULL /\ Position(Walked, cb') <= Position(Walked, c)
  BY DEF Ahead
<1>1. Position(Walked, c) \in 1..Len(Walked)
  BY PositionLemma
<1>2. /\ cb' = NULL <=> Len(Walked) = 0
      /\ cb' # NULL => cb' \in Members(Walked) /\ Walked[1] = cb'
  BY FirstLemma, NullAssumption
<1>3. cb' # NULL
  BY <1>1, <1>2
<1>4. Position(Walked, cb') = 1
  BY <1>1, <1>2, <1>3, PositionLemma
<1> QED
  BY <1>1, <1>3, <1>4

\* The head of the loop: a due timer of this offset hangs in the slot entered.
LEMMA EnterSlotStep == ASSUME IndInv, EnterSlot PROVE IndInv'
<1> USE DEF IndInv, EnterSlot
<1>1. LinkedOnce' /\ TimeInv' /\ Scheduled' = Scheduled
  BY QuietStep DEF wheelVars
<1>2. /\ offset \in 1..current_offset
      /\ offset' = offset /\ current_offset' = current_offset /\ callwheel' = callwheel
      /\ Slot(offset) \in Slots
      /\ Walked \in Seq(CB) /\ Walked' = Walked /\ NoRepeats(Walked)
  BY SlotLemma DEF TypeOK, WalkInv, Walked, LinkedOnce, clockVars
<1>3. /\ cb' = NULL <=> Len(Walked) = 0
      /\ cb' # NULL => cb' \in Members(Walked) /\ Walked[1] = cb'
  BY <1>2, FirstLemma, NullAssumption DEF Walked
<1>4. cb' \in CB \cup {NULL}
  BY <1>2, <1>3, MembersLemma
<1>5. TypeOK'
  BY <1>2, <1>4 DEF TypeOK, structVars, clockVars
<1>6. WalkInv'
  BY <1>2, <1>3 DEF WalkInv, WalkPointersValid, Walking, Walked
<1>7. HandleInv'
  BY <1>1 DEF HandleInv, structVars
<1>8. DeadInv'
  BY DEF DeadInv, Walking, structVars
<1>9. \A c \in Members(Walked) : Ahead(c)'
  BY <1>2, FirstAheadLemma DEF Walked
<1>10. LateInv'
  <2> SUFFICES ASSUME NEW s \in Slots, NEW c \in Members(callwheel[s]),
                      live[c], FitsInt(deadline[c]), deadline[c] <= current_offset
               PROVE  /\ deadline[c] >= offset
                      /\ deadline[c] = offset => Ahead(c)'
    BY <1>2 DEF LateInv, structVars, Walking
  <2>1. deadline[c] >= offset /\ s = Slot(deadline[c])
    BY DEF LateInv, TimeInv
  <2> QED
    BY <1>9, <2>1 DEF Walked
<1> QED
  BY <1>1, <1>5, <1>6, <1>7, <1>8, <1>10

\* Return from update_time: the whole way has been walked.
LEMMA FinishUpdateStep == ASSUME IndInv, FinishUpdate PROVE IndInv'
<1> USE DEF IndInv, FinishUpdate
<1>1. LinkedOnce' /\ TimeInv' /\ Scheduled' = Scheduled
  BY QuietStep DEF wheelVars
<1>2. TypeOK'
  BY TimeAssumption DEF TypeOK, structVars, clockVars
<1>3. WalkInv'
  BY DEF WalkInv, WalkPointersValid, Walking
<1>4. HandleInv'
  BY <1>1 DEF HandleInv, structVars
<1>5. DeadInv'
  BY DEF DeadInv, Walking, structVars
<1>6. LateInv'
  <2>1. \A s \in Slots : \A c \in Members(callwheel[s]) : deadline[c] \in Nat
    BY LinkedLemma
  <2> QED
    BY <2>1 DEF LateInv, Walking, structVars, clockVars, TypeOK
<1> QED
  BY <1>1, <1>2, <1>3, <1>4, <1>5, <1>6

\* What the walk knows while it stands on an entry of the queue.
LEMMA OnEntryLemma ==
    ASSUME IndInv, Walking, cb # NULL
    PROVE  /\ offset \in 1..current_offset /\ current_offset \in Nat
           /\ Slot(offset) \in Slots
           /\ Walked \in Seq(CB) /\ NoRepeats(Walked)
           /\ cb \in Members(Walked) /\ cb \in CB
           /\ Following \in Members(Walked) \cup {NULL} /\ Following \in CB \cup {NULL}
           /\ NULL \notin CB
<1>1. offset \in 1..current_offset /\ current_offset \in Nat /\ cb \in Members(Walked)
  BY TimeAssumption DEF IndInv, TypeOK, WalkInv, WalkPointersValid, Walking, Walked
<1>2. Slot(offset) \in Slots
  BY <1>1, SlotLemma
<1>3. Walked \in Seq(CB) /\ NoRepeats(Walked)
  BY <1>2 DEF IndInv, TypeOK, LinkedOnce, Walked
<1>4. cb \in CB
  BY <1>1, <1>3, MembersLemma
<1>5. Following \in Members(Walked) \cup {NULL}
  BY <1>1, <1>3, NextInLemma, NullAssumption DEF Following, Walked
<1>6. Following \in CB \cup {NULL}
  BY <1>3, <1>5, MembersLemma
<1> QED
  BY <1>1, <1>2, <1>3, <1>4, <1>5, <1>6, NullAssumption

\* An entry that stays in the queue, and is not cb, stays ahead of the walk.
LEMMA MoveOnLemma ==
    ASSUME IndInv, Walking, cb # NULL, cb' = Following, Walked' = Walked,
           NEW c \in Members(Walked), c # cb, Ahead(c)
    PROVE  Ahead(c)'
<1>1. /\ Walked \in Seq(CB) /\ NoRepeats(Walked) /\ NULL \notin CB
      /\ cb \in Members(Walked)
  BY OnEntryLemma
<1>2. Position(Walked, cb) <= Position(Walked, c)
  BY DEF Ahead
<1>3. /\ Following # NULL
      /\ Position(Walked, Following) <= Position(Walked, c)
  BY <1>1, <1>2, AheadLemma DEF Following, Walked
<1> QED
  BY <1>3 DEF Ahead

\* The walk goes past an entry whose time has not come.
LEMMA VisitLaterStep == ASSUME IndInv, VisitLater PROVE IndInv'
<1> USE DEF IndInv, VisitLater
<1>1. LinkedOnce' /\ TimeInv' /\ Scheduled' = Scheduled
  BY QuietStep DEF wheelVars
<1>2. Walking /\ cb # NULL /\ pc = "walk" /\ pc' = "walk" /\ Walking'
  BY DEF Walking
<1>3. /\ offset \in 1..current_offset /\ current_offset \in Nat
      /\ Slot(offset) \in Slots
      /\ cb \in Members(Walked)
      /\ Following \in Members(Walked) \cup {NULL} /\ Following \in CB \cup {NULL}
  BY <1>2, OnEntryLemma
<1>4. TypeOK'
  BY <1>3 DEF TypeOK, structVars, clockVars
<1>5. Walked' = Walked /\ callwheel' = callwheel /\ cb' = Following
      /\ offset' = offset /\ current_offset' = current_offset
  BY DEF Walked, clockVars
<1>6. WalkInv'
  BY <1>2, <1>3, <1>5 DEF WalkInv, WalkPointersValid, Walking, Walked
<1>7. HandleInv'
  BY <1>1 DEF HandleInv, structVars
<1>8. DeadInv'
  BY <1>2 DEF DeadInv, Walking, structVars
<1>9. LateInv'
  <2> SUFFICES ASSUME NEW s \in Slots, NEW c \in Members(callwheel[s]),
                      live[c], FitsInt(deadline[c]), deadline[c] <= current_offset
               PROVE  deadline[c] >= offset /\ (deadline[c] = offset => Ahead(c)')
    BY <1>2, <1>5 DEF LateInv, structVars
  <2>1. /\ deadline[c] >= offset
        /\ deadline[c] = offset => Ahead(c)
        /\ s = Slot(deadline[c])
        /\ resource[c] = ToInt(deadline[c])
        /\ deadline[c] \in Nat
    BY <1>2, LinkedLemma DEF LateInv, TimeInv
  <2>2. c # cb
    BY <1>3, <2>1, FitsLemma DEF IsDue
  <2> QED
    BY <1>2, <1>5, <2>1, <2>2, MoveOnLemma DEF Walked
<1> QED
  BY <1>1, <1>4, <1>6, <1>7, <1>8, <1>9

\* The walk of a slot is over and nothing was cancelled in it.
LEMMA LeaveSlotStep == ASSUME IndInv, LeaveSlot PROVE IndInv'
<1> USE DEF IndInv, LeaveSlot
<1>1. LinkedOnce' /\ TimeInv' /\ Scheduled' = Scheduled
  BY QuietStep DEF wheelVars
<1>2. /\ pc = "walk" /\ Walking /\ cb = NULL /\ pc' = "slot" /\ offset' = offset + 1
      /\ current_offset' = current_offset
  BY DEF Walking, clockVars
<1>3. offset \in 1..current_offset /\ current_offset \in 0..MaxTime
  BY <1>2 DEF WalkInv, TypeOK
<1>4. offset' \in 0..MaxTime + 1 /\ offset' \in 1..current_offset' + 1
  BY <1>2, <1>3, TimeAssumption
<1>5. TypeOK'
  BY <1>2, <1>4 DEF TypeOK, structVars, clockVars
<1>6. WalkInv'
  BY <1>2, <1>4 DEF WalkInv, WalkPointersValid, Walking
<1>7. HandleInv'
  BY <1>1 DEF HandleInv, structVars
<1>8. DeadInv'
  BY DEF DeadInv, MustPurge, structVars
<1>9. LateInv'
  <2> SUFFICES ASSUME NEW s \in Slots, NEW c \in Members(callwheel[s]),
                      live[c], FitsInt(deadline[c]), deadline[c] <= current_offset
               PROVE  deadline[c] >= offset'
    BY <1>2 DEF LateInv, structVars, Walking
  <2>1. deadline[c] >= offset /\ deadline[c] # offset /\ deadline[c] \in Nat
    BY <1>2, LinkedLemma DEF LateInv, Ahead
  <2> QED
    BY <1>2, <1>3, <2>1
<1> QED
  BY <1>1, <1>5, <1>6, <1>7, <1>8, <1>9

\* The walk of a slot is over and entries of it were cancelled on the way.
LEMMA StartPurgeStep == ASSUME IndInv, StartPurge PROVE IndInv'
<1> USE DEF IndInv, StartPurge
<1>1. LinkedOnce' /\ TimeInv' /\ Scheduled' = Scheduled
  BY QuietStep DEF wheelVars
<1>2. /\ pc = "walk" /\ Walking /\ cb = NULL /\ pc' = "purge" /\ Walking' /\ offset' = offset
      /\ current_offset' = current_offset /\ callwheel' = callwheel
      /\ pending_deactivates /\ pending_deactivates'
  BY DEF Walking, clockVars, MustPurge
<1>3. offset \in 1..current_offset /\ current_offset \in 0..MaxTime
  BY <1>2 DEF WalkInv, TypeOK
<1>4. Slot(offset) \in Slots
  BY <1>3, SlotLemma
<1>5. Walked \in Seq(CB) /\ NoRepeats(Walked) /\ Walked' = Walked /\ cb' = First(Walked, NULL)
  BY <1>2, <1>4 DEF Walked, TypeOK, LinkedOnce
<1>6. cb' # NULL => cb' \in Members(Walked)
  BY <1>5, FirstLemma, NullAssumption
<1>7. cb' \in CB \cup {NULL}
  BY <1>5, <1>6, MembersLemma
<1>8. TypeOK'
  BY <1>2, <1>7 DEF TypeOK, structVars, clockVars
<1>9. WalkInv'
  BY <1>2, <1>3, <1>6 DEF WalkInv, WalkPointersValid, Walking, Walked
<1>10. HandleInv'
  BY <1>1 DEF HandleInv, structVars
<1>11. DeadInv'
  <2>1. \A c \in Members(Walked) : Ahead(c)'
    BY <1>5, FirstAheadLemma
  <2> QED
    BY <1>2, <2>1 DEF DeadInv, Walked, structVars
<1>12. LateInv'
  BY <1>2 DEF LateInv, structVars, Ahead
<1> QED
  BY <1>1, <1>8, <1>9, <1>10, <1>11, <1>12

\* The purge goes past an armed entry.
LEMMA PurgeKeepStep == ASSUME IndInv, PurgeKeep PROVE IndInv'
<1> USE DEF IndInv, PurgeKeep
<1>1. LinkedOnce' /\ TimeInv' /\ Scheduled' = Scheduled
  BY QuietStep DEF wheelVars
<1>2. Walking /\ cb # NULL /\ pc = "purge" /\ pc' = "purge" /\ Walking'
  BY DEF Walking
<1>3. /\ offset \in 1..current_offset
      /\ Slot(offset) \in Slots
      /\ Following \in Members(Walked) \cup {NULL} /\ Following \in CB \cup {NULL}
  BY <1>2, OnEntryLemma
<1>4. TypeOK'
  BY <1>3 DEF TypeOK, structVars, clockVars
<1>5. Walked' = Walked /\ callwheel' = callwheel /\ cb' = Following
      /\ offset' = offset /\ current_offset' = current_offset
  BY DEF Walked, clockVars
<1>6. WalkInv'
  BY <1>2, <1>3, <1>5 DEF WalkInv, WalkPointersValid, Walking, Walked
<1>7. HandleInv'
  BY <1>1 DEF HandleInv, structVars
<1>8. DeadInv'
  <2> SUFFICES ASSUME NEW s \in Slots, NEW c \in Members(callwheel[s]), ~live[c]
               PROVE  s = Slot(offset) /\ pending_deactivates /\ Ahead(c)'
    BY <1>2, <1>5 DEF DeadInv, structVars
  <2>1. s = Slot(offset) /\ pending_deactivates /\ Ahead(c)
    BY <1>2 DEF DeadInv
  <2>2. c # cb
    OBVIOUS
  <2> QED
    BY <1>2, <1>5, <2>1, <2>2, MoveOnLemma DEF Walked
<1>9. LateInv'
  BY <1>2, <1>5 DEF LateInv, structVars
<1> QED
  BY <1>1, <1>4, <1>6, <1>7, <1>8, <1>9

\* The purge of a slot is over.
LEMMA EndPurgeStep == ASSUME IndInv, EndPurge PROVE IndInv'
<1> USE DEF IndInv, EndPurge
<1>1. LinkedOnce' /\ TimeInv' /\ Scheduled' = Scheduled
  BY QuietStep DEF wheelVars
<1>2. /\ pc = "purge" /\ Walking /\ cb = NULL /\ pc' = "slot" /\ offset' = offset + 1
      /\ current_offset' = current_offset
  BY DEF Walking, clockVars
<1>3. offset \in 1..current_offset /\ current_offset \in 0..MaxTime
  BY <1>2 DEF WalkInv, TypeOK
<1>4. offset' \in 0..MaxTime + 1 /\ offset' \in 1..current_offset' + 1
  BY <1>2, <1>3, TimeAssumption
<1>5. TypeOK'
  BY <1>2, <1>4 DEF TypeOK, structVars, clockVars
<1>6. WalkInv'
  BY <1>2, <1>4 DEF WalkInv, WalkPointersValid, Walking
<1>7. HandleInv'
  BY <1>1 DEF HandleInv, structVars
<1>8. DeadInv'
  BY <1>2 DEF DeadInv, Ahead, structVars
<1>9. LateInv'
  <2> SUFFICES ASSUME NEW s \in Slots, NEW c \in Members(callwheel[s]),
                      live[c], FitsInt(deadline[c]), deadline[c] <= current_offset
               PROVE  deadline[c] >= offset'
    BY <1>2 DEF LateInv, structVars, Walking
  <2>1. deadline[c] >= offset /\ deadline[c] # offset /\ deadline[c] \in Nat
    BY <1>2, LinkedLemma DEF LateInv
  <2> QED
    BY <1>2, <1>3, <2>1
<1> QED
  BY <1>1, <1>5, <1>6, <1>7, <1>8, <1>9

-----------------------------------------------------------------------------
(***************************************************************************)
(* The steps that take a structure out of the wheel.                        *)
(***************************************************************************)
\* Unlinking and destroying c: it moves from its slot to the pool.
LEMMA DestroyLemma ==
    ASSUME IndInv, NEW t \in Slots, NEW c \in Members(callwheel[t]),
           callwheel' = [callwheel EXCEPT ![t] = Unlink(@, c)],
           free_q' = GiveBack(free_q, c),
           UNCHANGED <<resource, backptr, deadline>>
    PROVE  /\ callwheel' \in [Slots -> Seq(CB)] /\ free_q' \in Seq(CB)
           /\ \A s \in Slots : Members(callwheel'[s]) = Members(callwheel[s]) \ {c}
           /\ callwheel'[t] = Unlink(callwheel[t], c)
           /\ Scheduled' = Scheduled \ {c}
           /\ LinkedOnce'
           /\ TimeInv'
<1> USE DEF IndInv
<1>1. /\ callwheel \in [Slots -> Seq(CB)] /\ free_q \in Seq(CB)
      /\ c \in CB
  BY LinkedLemma DEF TypeOK
<1>2. /\ callwheel[t] \in Seq(CB) /\ NoRepeats(callwheel[t])
      /\ backptr[c] = t
      /\ c \in Scheduled
  BY <1>1 DEF LinkedOnce, Scheduled
<1>3. /\ Unlink(callwheel[t], c) \in Seq(CB)
      /\ Members(Unlink(callwheel[t], c)) = Members(callwheel[t]) \ {c}
      /\ NoRepeats(Unlink(callwheel[t], c))
  BY <1>2, UnlinkLemma
<1>4. /\ callwheel'[t] = Unlink(callwheel[t], c)
      /\ \A s \in Slots : s # t => callwheel'[s] = callwheel[s]
      /\ callwheel' \in [Slots -> Seq(CB)]
  BY <1>1, <1>3
<1>5. \A s \in Slots : Members(callwheel'[s]) = Members(callwheel[s]) \ {c}
  BY <1>2, <1>3, <1>4 DEF LinkedOnce
<1>6. \A s \in Slots : NoRepeats(callwheel'[s])
  BY <1>3, <1>4 DEF LinkedOnce
<1>7. Scheduled' = Scheduled \ {c}
  BY <1>5 DEF Scheduled
<1>8. /\ free_q' \in Seq(CB)
      /\ Members(free_q') = Members(free_q) \cup {c}
      /\ NoRepeats(free_q')
  BY <1>1, <1>2, AppendLemma DEF GiveBack, LinkedOnce
<1>9. LinkedOnce'
  BY <1>5, <1>6, <1>7, <1>8 DEF LinkedOnce
<1>10. TimeInv'
  BY <1>5 DEF TimeInv
<1> QED
  BY <1>4, <1>5, <1>7, <1>8, <1>9, <1>10

\* The same, for the entry the walk stands on.
LEMMA DiscardLemma ==
    ASSUME IndInv, Walking, cb # NULL, NEW next, Discard(next), offset' = offset,
           UNCHANGED <<resource, backptr, deadline>>
    PROVE  /\ callwheel' \in [Slots -> Seq(CB)] /\ free_q' \in Seq(CB)
           /\ timers_set' \in Int
           /\ \A s \in Slots : Members(callwheel'[s]) = Members(callwheel[s]) \ {cb}
           /\ Walked' = Unlink(Walked, cb)
           /\ Members(Walked') = Members(Walked) \ {cb}
           /\ Scheduled' = Scheduled \ {cb}
           /\ LinkedOnce'
           /\ TimeInv'
<1>1. Slot(offset) \in Slots /\ cb \in Members(callwheel[Slot(offset)])
  BY OnEntryLemma DEF Walked
<1>2. /\ callwheel' = [callwheel EXCEPT ![Slot(offset)] = Unlink(@, cb)]
      /\ free_q' = GiveBack(free_q, cb)
      /\ timers_set' = timers_set - 1
  BY DEF Discard
<1>3. timers_set' \in Int
  BY <1>2 DEF IndInv, TypeOK
<1>4. /\ callwheel' \in [Slots -> Seq(CB)] /\ free_q' \in Seq(CB)
      /\ \A s \in Slots : Members(callwheel'[s]) = Members(callwheel[s]) \ {cb}
      /\ callwheel'[Slot(offset)] = Unlink(callwheel[Slot(offset)], cb)
      /\ Scheduled' = Scheduled \ {cb}
      /\ LinkedOnce'
      /\ TimeInv'
  BY <1>1, <1>2, DestroyLemma
<1>5. Walked' = Unlink(Walked, cb)
  BY <1>4 DEF Walked, Slot
<1>6. Members(Walked') = Members(Walked) \ {cb}
  BY <1>1, <1>4 DEF Walked, Slot
<1> QED
  BY <1>3, <1>4, <1>5, <1>6

\* What was ahead of the walk is, once cb is taken out, ahead of what followed.
LEMMA DiscardAheadLemma ==
    ASSUME IndInv, Walking, cb # NULL, cb' = Following, Walked' = Unlink(Walked, cb),
           NEW c \in Members(Walked), c # cb, Ahead(c)
    PROVE  Ahead(c)'
<1>1. /\ Walked \in Seq(CB) /\ NoRepeats(Walked) /\ NULL \notin CB
      /\ cb \in Members(Walked)
  BY OnEntryLemma
<1>2. Position(Walked, cb) <= Position(Walked, c)
  BY DEF Ahead
<1>3. /\ Following # NULL
      /\ Position(Unlink(Walked, cb), Following) <= Position(Unlink(Walked, cb), c)
  BY <1>1, <1>2, UnlinkAheadLemma DEF Following, Walked
<1> QED
  BY <1>3 DEF Ahead

\* What follows cb is not cb itself.
LEMMA FollowingLemma ==
    ASSUME IndInv, Walking, cb # NULL
    PROVE  Following # cb
<1>1. /\ Walked \in Seq(CB) /\ NoRepeats(Walked) /\ NULL \notin CB
      /\ cb \in Members(Walked)
  BY OnEntryLemma
<1>2. Following # NULL => /\ Position(Walked, cb) + 1 \in 1..Len(Walked)
                         /\ Walked[Position(Walked, cb) + 1] = Following
  BY <1>1, NextInLemma DEF Following, Walked
<1>3. /\ Position(Walked, cb) \in 1..Len(Walked)
      /\ \A i \in 1..Len(Walked) : Walked[i] = cb => i = Position(Walked, cb)
  BY <1>1, PositionLemma
<1> QED
  BY <1>2, <1>3

\* The walk meets a due entry that was cancelled.
LEMMA VisitCancelledStep == ASSUME IndInv, VisitCancelled PROVE IndInv'
<1> USE DEF IndInv, VisitCancelled
<1>1. Walking /\ cb # NULL /\ pc = "walk" /\ pc' = "walk" /\ Walking' /\ ~live[cb]
  BY DEF Walking, Fires
<1>2. /\ offset \in 1..current_offset
      /\ Slot(offset) \in Slots
      /\ cb \in Members(Walked)
      /\ Following \in Members(Walked) \cup {NULL} /\ Following \in CB \cup {NULL}
      /\ Following # cb
  BY <1>1, OnEntryLemma, FollowingLemma
<1>3. /\ UNCHANGED <<live, resource, backptr, deadline, held, pending_deactivates>>
      /\ offset' = offset /\ current_offset' = current_offset /\ cb' = Following
      /\ working_entry' = working_entry
  BY DEF structVars, clockVars, Discard
<1>4. /\ callwheel' \in [Slots -> Seq(CB)] /\ free_q' \in Seq(CB)
      /\ timers_set' \in Int
      /\ \A s \in Slots : Members(callwheel'[s]) = Members(callwheel[s]) \ {cb}
      /\ Walked' = Unlink(Walked, cb)
      /\ Members(Walked') = Members(Walked) \ {cb}
      /\ Scheduled' = Scheduled \ {cb}
      /\ LinkedOnce'
      /\ TimeInv'
  BY <1>1, <1>3, DiscardLemma
<1>5. TypeOK'
  BY <1>2, <1>3, <1>4 DEF TypeOK, clockVars
<1>6. WalkInv'
  BY <1>1, <1>2, <1>3, <1>4 DEF WalkInv, WalkPointersValid, Walking, Walked
<1>7. HandleInv'
  BY <1>1, <1>3, <1>4 DEF HandleInv
<1>8. DeadInv'
  BY <1>1, <1>3, <1>4 DEF DeadInv
<1>9. LateInv'
  <2> SUFFICES ASSUME NEW s \in Slots, NEW c \in Members(callwheel[s]), c # cb,
                      live[c], FitsInt(deadline[c]), deadline[c] <= current_offset
               PROVE  deadline[c] >= offset /\ (deadline[c] = offset => Ahead(c)')
    BY <1>1, <1>3, <1>4 DEF LateInv
  <2>1. /\ deadline[c] >= offset
        /\ deadline[c] = offset => Ahead(c)
        /\ s = Slot(deadline[c])
    BY <1>1 DEF LateInv, TimeInv
  <2> QED
    BY <1>1, <1>3, <1>4, <2>1, DiscardAheadLemma DEF Walked
<1> QED
  BY <1>4, <1>5, <1>6, <1>7, <1>8, <1>9

\* The purge meets an entry that was cancelled.
LEMMA PurgeDiscardStep == ASSUME IndInv, PurgeDiscard PROVE IndInv'
<1> USE DEF IndInv, PurgeDiscard
<1>1. Walking /\ cb # NULL /\ pc = "purge" /\ pc' = "purge" /\ Walking' /\ ~live[cb]
  BY DEF Walking
<1>2. /\ offset \in 1..current_offset
      /\ Slot(offset) \in Slots
      /\ cb \in Members(Walked)
      /\ Following \in Members(Walked) \cup {NULL} /\ Following \in CB \cup {NULL}
      /\ Following # cb
  BY <1>1, OnEntryLemma, FollowingLemma
<1>3. /\ UNCHANGED <<live, resource, backptr, deadline, held, pending_deactivates>>
      /\ offset' = offset /\ current_offset' = current_offset /\ cb' = Following
      /\ working_entry' = working_entry
  BY DEF structVars, clockVars, Discard
<1>4. /\ callwheel' \in [Slots -> Seq(CB)] /\ free_q' \in Seq(CB)
      /\ timers_set' \in Int
      /\ \A s \in Slots : Members(callwheel'[s]) = Members(callwheel[s]) \ {cb}
      /\ Walked' = Unlink(Walked, cb)
      /\ Members(Walked') = Members(Walked) \ {cb}
      /\ Scheduled' = Scheduled \ {cb}
      /\ LinkedOnce'
      /\ TimeInv'
  BY <1>1, <1>3, DiscardLemma
<1>5. TypeOK'
  BY <1>2, <1>3, <1>4 DEF TypeOK, clockVars
<1>6. WalkInv'
  BY <1>1, <1>2, <1>3, <1>4 DEF WalkInv, WalkPointersValid, Walking, Walked
<1>7. HandleInv'
  BY <1>1, <1>3, <1>4 DEF HandleInv
<1>8. DeadInv'
  <2> SUFFICES ASSUME NEW s \in Slots, NEW c \in Members(callwheel[s]), c # cb, ~live[c]
               PROVE  s = Slot(offset) /\ pending_deactivates /\ Ahead(c)'
    BY <1>1, <1>3, <1>4 DEF DeadInv
  <2>1. s = Slot(offset) /\ pending_deactivates /\ Ahead(c)
    BY <1>1 DEF DeadInv
  <2> QED
    BY <1>1, <1>3, <1>4, <2>1, DiscardAheadLemma DEF Walked
<1>9. LateInv'
  BY <1>1, <1>3, <1>4 DEF LateInv
<1> QED
  BY <1>4, <1>5, <1>6, <1>7, <1>8, <1>9

\* A callback returns, and the walk goes on with the cb2 read before the call.
LEMMA ReturnStep == ASSUME IndInv, Return PROVE IndInv'
<1> USE DEF IndInv, Return
<1>1. Walking /\ cb # NULL /\ pc = "callback" /\ pc' = "walk" /\ Walking' /\ ~live[cb]
  BY DEF Walking, WalkInv, WalkPointersValid, HandleInv
<1>2. /\ offset \in 1..current_offset
      /\ Slot(offset) \in Slots
      /\ cb \in Members(Walked)
      /\ Following \in Members(Walked) \cup {NULL} /\ Following \in CB \cup {NULL}
      /\ Following # cb
  BY <1>1, OnEntryLemma, FollowingLemma
<1>3. /\ UNCHANGED <<live, resource, backptr, deadline, pending_deactivates>>
      /\ offset' = offset /\ current_offset' = current_offset /\ cb' = cb2
      /\ held' = held \ {cb}
      /\ working_entry' = working_entry
      /\ cb2 # NULL => cb2 = Following
  BY <1>1 DEF structVars, clockVars, Discard, WalkInv, WalkPointersValid
<1>4. /\ callwheel' \in [Slots -> Seq(CB)] /\ free_q' \in Seq(CB)
      /\ timers_set' \in Int
      /\ \A s \in Slots : Members(callwheel'[s]) = Members(callwheel[s]) \ {cb}
      /\ Walked' = Unlink(Walked, cb)
      /\ Members(Walked') = Members(Walked) \ {cb}
      /\ Scheduled' = Scheduled \ {cb}
      /\ LinkedOnce'
      /\ TimeInv'
  BY <1>1, <1>3, DiscardLemma
<1>5. TypeOK'
  BY <1>2, <1>3, <1>4 DEF TypeOK, clockVars
<1>6. WalkInv'
  BY <1>1, <1>2, <1>3, <1>4 DEF WalkInv, WalkPointersValid, Walking, Walked
<1>7. HandleInv'
  BY <1>1, <1>3, <1>4 DEF HandleInv
<1>8. DeadInv'
  BY <1>1, <1>3, <1>4 DEF DeadInv
<1>9. LateInv'
  <2> SUFFICES ASSUME NEW s \in Slots, NEW c \in Members(callwheel[s]), c # cb,
                      live[c], FitsInt(deadline[c]), deadline[c] <= current_offset
               PROVE  deadline[c] >= offset /\ (deadline[c] = offset => Ahead(c)')
    BY <1>1, <1>3, <1>4 DEF LateInv
  <2>1. /\ deadline[c] >= offset
        /\ deadline[c] = offset => Ahead(c) /\ cb2 # NULL
        /\ s = Slot(deadline[c])
    BY <1>1 DEF LateInv, TimeInv
  <2> QED
    BY <1>1, <1>3, <1>4, <2>1, DiscardAheadLemma DEF Walked
<1> QED
  BY <1>4, <1>5, <1>6, <1>7, <1>8, <1>9

-----------------------------------------------------------------------------
\* A callback is entered: cb2 is what follows, and no due entry is left behind.
LEMMA FireStep == ASSUME IndInv, Fire PROVE IndInv' /\ cb \in held /\ IsDue(cb)
<1> USE DEF IndInv, Fire
<1>1. /\ Walking /\ cb # NULL /\ pc = "walk" /\ pc' = "callback" /\ Walking'
      /\ live[cb] /\ IsDue(cb)
  BY DEF Walking, Fires
<1>2. /\ offset \in 1..current_offset
      /\ Slot(offset) \in Slots
      /\ cb \in Members(Walked) /\ cb \in CB
      /\ Walked \in Seq(CB) /\ NoRepeats(Walked) /\ NULL \notin CB
      /\ Following \in Members(Walked) \cup {NULL} /\ Following \in CB \cup {NULL}
  BY <1>1, OnEntryLemma
<1>3. /\ UNCHANGED <<callwheel, resource, backptr, free_q, deadline, held,
                     pending_deactivates, working_entry>>
      /\ offset' = offset /\ current_offset' = current_offset
      /\ cb' = cb /\ cb2' = Following
      /\ Walked' = Walked /\ Following' = Following
  BY DEF clockVars, Walked, Following
<1>4. /\ live' \in [CB -> BOOLEAN]
      /\ \A c \in CB : live'[c] = (IF c = cb THEN FALSE ELSE live[c])
  <2>1. live \in [CB -> BOOLEAN] /\ live' = [live EXCEPT ![cb] = FALSE]
    BY DEF TypeOK
  <2> QED
    BY <2>1, Zenon
<1>5. cb \in Scheduled
  BY <1>2 DEF Scheduled, Walked
<1>6. cb \in held
  BY <1>1, <1>2, <1>5 DEF HandleInv
<1>7. Scheduled' = Scheduled /\ LinkedOnce' /\ TimeInv'
  <2>1. Scheduled' = Scheduled
    BY <1>3 DEF Scheduled
  <2> QED
    BY <1>3, <2>1 DEF LinkedOnce, TimeInv
<1>8. TypeOK'
  BY <1>1, <1>2, <1>3, <1>4 DEF TypeOK, clockVars
<1>9. WalkInv'
  BY <1>1, <1>2, <1>3 DEF WalkInv, WalkPointersValid, Walking, Walked
<1>10. HandleInv'
  BY <1>1, <1>2, <1>3, <1>4, <1>6, <1>7 DEF HandleInv
<1>11. DeadInv'
  <2> SUFFICES ASSUME NEW s \in Slots, NEW c \in Members(callwheel[s]), ~live'[c]
               PROVE  s = Slot(offset) /\ (pending_deactivates \/ c = cb)
    BY <1>1, <1>3 DEF DeadInv
  <2>1. c \in CB
    BY LinkedLemma
  <2>2. CASE c = cb
    BY <1>2, <2>2 DEF LinkedOnce, Walked
  <2>3. CASE c # cb
    BY <1>1, <1>4, <2>1, <2>3 DEF DeadInv
  <2> QED
    BY <2>2, <2>3
<1>12. LateInv'
  <2> SUFFICES ASSUME NEW s \in Slots, NEW c \in Members(callwheel[s]),
                      live'[c], FitsInt(deadline[c]), deadline[c] <= current_offset
               PROVE  deadline[c] >= offset /\ (deadline[c] = offset => Ahead(c)' /\ cb2' # NULL)
    BY <1>1, <1>3 DEF LateInv
  <2>1. c \in CB /\ c # cb /\ live[c]
    BY <1>4, LinkedLemma
  <2>2. /\ deadline[c] >= offset
        /\ deadline[c] = offset => Ahead(c)
        /\ s = Slot(deadline[c])
    BY <1>1, <2>1 DEF LateInv, TimeInv
  <2>3. SUFFICES ASSUME deadline[c] = offset PROVE Ahead(c)' /\ cb2' # NULL
    BY <2>2
  <2>4. c \in Members(Walked) /\ Ahead(c)
    BY <2>2, <2>3 DEF Walked
  <2>5. Ahead(c)'
    BY <1>3, <2>4 DEF Ahead
  <2>6. Position(Walked, cb) <= Position(Walked, c)
    BY <2>4 DEF Ahead
  <2>7. Following # NULL
    BY <1>2, <2>1, <2>4, <2>6, AheadLemma DEF Following, Walked
  <2> QED
    BY <1>3, <2>5, <2>7
<1> QED
  BY <1>1, <1>6, <1>7, <1>8, <1>9, <1>10, <1>11, <1>12

-----------------------------------------------------------------------------
(***************************************************************************)
(* The client's calls.                                                      *)
(***************************************************************************)
\* While the client runs, nothing is being purged or walked past.
LEMMA ClientLemma ==
    ASSUME IndInv, ClientRuns
    PROVE  /\ pc = "idle" \/ (pc = "callback" /\ Walking /\ cb # NULL)
           /\ pc = "idle" => ~Walking
           /\ pc = "callback" => working_entry = Slot(offset)
           /\ pc = "idle" => working_entry = NULL
BY DEF IndInv, ClientRuns, WalkInv, WalkPointersValid, Walking

\* A handle that is not the running callback's is linked where its backptr says.
LEMMA HandleLemma ==
    ASSUME IndInv, NEW c \in held, live[c]
    PROVE  /\ c \in CB /\ backptr[c] \in Slots
           /\ c \in Members(callwheel[backptr[c]])
           /\ ~(pc = "callback" /\ c = cb)
<1>1. c \in CB /\ backptr[c] \in Slots
  BY DEF IndInv, TypeOK
<1>2. ~(pc = "callback" /\ c = cb)
  BY DEF IndInv, HandleInv
<1>3. c \in Scheduled
  BY <1>1, <1>2 DEF IndInv, HandleInv
<1>4. PICK s \in Slots : c \in Members(callwheel[s])
  BY <1>3 DEF Scheduled
<1>5. backptr[c] = s
  BY <1>4 DEF IndInv, LinkedOnce
<1> QED
  BY <1>1, <1>2, <1>4, <1>5

\* A callback cancels its own timer.
LEMMA CancelSelfStep ==
    ASSUME IndInv, NEW c \in CB, Cancel(c), CancelSelf(c) PROVE IndInv'
<1> USE DEF IndInv, Cancel, CancelSelf
<1>1. /\ UNCHANGED <<callwheel, live, resource, backptr, free_q, deadline, timers_set,
                     pending_deactivates, working_entry, first_time, current_offset,
                     pc, offset, cb, cb2>>
      /\ held' = held \ {c} /\ c \in held /\ ~live[c]
  BY DEF structVars, clockVars, walkVars
<1>2. pc = "callback" /\ c = cb
  BY <1>1 DEF HandleInv
<1>3. Scheduled' = Scheduled
  BY <1>1 DEF Scheduled
<1>4. TypeOK'
  BY <1>1 DEF TypeOK
<1>5. LinkedOnce' /\ TimeInv'
  BY <1>1, <1>3 DEF LinkedOnce, TimeInv
<1>6. WalkInv'
  BY <1>1 DEF WalkInv, WalkPointersValid, Walking, Following
<1>7. HandleInv'
  BY <1>1, <1>2, <1>3 DEF HandleInv
<1>8. DeadInv' /\ LateInv'
  BY <1>1 DEF DeadInv, LateInv, Walking, Ahead, Walked
<1> QED
  BY <1>4, <1>5, <1>6, <1>7, <1>8

\* A callback cancels a timer of the queue being walked.
LEMMA CancelMarkStep ==
    ASSUME IndInv, NEW c \in CB, Cancel(c), CancelMark(c) PROVE IndInv'
<1> USE DEF IndInv, Cancel, CancelMark
<1>1. /\ UNCHANGED <<callwheel, resource, backptr, free_q, deadline, timers_set,
                     working_entry, first_time, current_offset, pc, offset, cb, cb2>>
      /\ held' = held \ {c} /\ c \in held /\ live[c]
      /\ pending_deactivates' = TRUE
  BY DEF clockVars, walkVars
<1>2. /\ live' \in [CB -> BOOLEAN]
      /\ \A d \in CB : live'[d] = (IF d = c THEN FALSE ELSE live[d])
  <2>1. live \in [CB -> BOOLEAN] /\ live' = [live EXCEPT ![c] = FALSE]
    BY DEF TypeOK
  <2> QED
    BY <2>1, Zenon
<1>3. /\ backptr[c] \in Slots
      /\ c \in Members(callwheel[backptr[c]])
      /\ ~(pc = "callback" /\ c = cb)
  BY <1>1, HandleLemma
<1>4. pc = "callback" /\ Walking /\ backptr[c] = Slot(offset)
  BY <1>3, ClientLemma, NullAssumption DEF OnWorkingQueue, Slots
<1>5. Scheduled' = Scheduled
  BY <1>1 DEF Scheduled
<1>6. TypeOK'
  BY <1>1, <1>2 DEF TypeOK
<1>7. LinkedOnce' /\ TimeInv'
  BY <1>1, <1>5 DEF LinkedOnce, TimeInv
<1>8. WalkInv'
  BY <1>1 DEF WalkInv, WalkPointersValid, Walking, Following
<1>9. HandleInv'
  <2>1. UNCHANGED <<pc, cb>> /\ held' = held \ {c}
    BY <1>1
  <2>2. ASSUME NEW d \in CB
        PROVE  (d \in Scheduled /\ live'[d]) <=> (d \in held' /\ ~(pc = "callback" /\ d = cb))
    <3>1. CASE d = c
      BY <1>2, <2>1, <3>1
    <3>2. CASE d # c
      <4>1. (live'[d] <=> live[d]) /\ (d \in held' <=> d \in held)
        BY <1>2, <2>1, <3>2
      <4> QED
        BY <4>1 DEF HandleInv
    <3> QED
      BY <3>1, <3>2
  <2>3. pc = "callback" => ~live'[cb]
    <3>1. cb # c /\ cb \in CB
      BY <1>3, <1>4 DEF TypeOK, WalkInv, WalkPointersValid
    <3> QED
      BY <1>2, <3>1 DEF HandleInv
  <2> QED
    BY <1>5, <2>1, <2>2, <2>3 DEF HandleInv
<1>10. DeadInv'
  <2> SUFFICES ASSUME NEW s \in Slots, NEW d \in Members(callwheel[s]), ~live'[d]
               PROVE  s = Slot(offset)
    BY <1>1, <1>4 DEF DeadInv, Walking
  <2>1. d \in CB
    BY LinkedLemma
  <2>2. CASE d = c
    BY <1>4, <2>2 DEF LinkedOnce
  <2>3. CASE d # c
    BY <1>2, <2>1, <2>3 DEF DeadInv
  <2> QED
    BY <2>2, <2>3
<1>11. LateInv'
  <2>1. \A s \in Slots : \A d \in Members(callwheel[s]) : live'[d] => live[d]
    BY <1>2, LinkedLemma
  <2> QED
    BY <1>1, <2>1 DEF LateInv, Walking, Ahead, Walked
<1> QED
  BY <1>6, <1>7, <1>8, <1>9, <1>10, <1>11

\* A timer of any other queue is cancelled: the queue being walked is untouched.
LEMMA CancelUnlinkStep ==
    ASSUME IndInv, NEW c \in CB, Cancel(c), CancelUnlink(c) PROVE IndInv'
<1> USE DEF IndInv, Cancel, CancelUnlink
<1>1. /\ UNCHANGED <<live, resource, backptr, deadline, pending_deactivates,
                     working_entry, first_time, current_offset, pc, offset, cb, cb2>>
      /\ held' = held \ {c} /\ c \in held /\ live[c]
      /\ callwheel' = [callwheel EXCEPT ![backptr[c]] = Unlink(@, c)]
      /\ free_q' = GiveBack(free_q, c)
      /\ timers_set' = timers_set - 1
  BY DEF structVars, clockVars, walkVars
<1>2. /\ backptr[c] \in Slots
      /\ c \in Members(callwheel[backptr[c]])
      /\ ~(pc = "callback" /\ c = cb)
  BY <1>1, HandleLemma
<1>3. /\ callwheel' \in [Slots -> Seq(CB)] /\ free_q' \in Seq(CB)
      /\ \A s \in Slots : Members(callwheel'[s]) = Members(callwheel[s]) \ {c}
      /\ Scheduled' = Scheduled \ {c}
      /\ LinkedOnce'
      /\ TimeInv'
  BY <1>1, <1>2, DestroyLemma
<1>4. pc = "callback" => Slot(offset) \in Slots /\ callwheel'[Slot(offset)] = callwheel[Slot(offset)]
  <2>1. pc = "callback" => Slot(offset) \in Slots /\ backptr[c] # Slot(offset)
    BY ClientLemma, OnEntryLemma DEF OnWorkingQueue
  <2> QED
    BY <1>1, <2>1 DEF TypeOK
<1>5. timers_set' \in Int
  BY <1>1 DEF TypeOK
<1>6. TypeOK'
  <2>1. held' \subseteq CB
    BY <1>1 DEF TypeOK
  <2> HIDE DEF Cancel, CancelUnlink
  <2> QED
    BY <1>1, <1>3, <1>5, <2>1 DEF TypeOK
<1>7. pc \in {"idle", "callback"} /\ pc' = pc
  BY <1>1 DEF ClientRuns
<1>8. WalkInv'
  <2>1. UNCHANGED <<working_entry, current_offset, offset, cb, cb2>>
    BY <1>1
  <2>2. CASE pc = "idle"
    BY <1>7, <2>1, <2>2 DEF WalkInv, WalkPointersValid, Walking
  <2>3. CASE pc = "callback"
    <3>1. Following' = Following
      BY <1>4, <2>1, <2>3 DEF Following
    <3>2. WalkPointersValid'
      BY <1>4, <1>7, <2>1, <2>3, <3>1 DEF WalkInv, WalkPointersValid
    <3> QED
      BY <1>7, <2>1, <2>3, <3>2 DEF WalkInv, Walking
  <2> QED
    BY <1>7, <2>2, <2>3
<1>9. HandleInv'
  BY <1>1, <1>2, <1>3 DEF HandleInv
<1>10. DeadInv'
  BY <1>1, <1>3, <1>7 DEF DeadInv, Walking
<1>11. LateInv'
  BY <1>1, <1>3, <1>4, <1>7 DEF LateInv, Walking, Ahead, Walked
<1> QED
  BY <1>3, <1>6, <1>8, <1>9, <1>10, <1>11

\* A timer is set: it is armed, for later than now, at the end of its queue.
LEMMA SetStep ==
    ASSUME IndInv, NEW delay_ms \in Delays, NEW c \in CB, Set(delay_ms, c)
    PROVE  IndInv' /\ c \notin Scheduled /\ Scheduled' = Scheduled \cup {c}
<1> USE DEF IndInv
<1> DEFINE when == current_offset + WheelOffset(delay_ms)
           t == Slot(when)
<1>1. /\ UNCHANGED <<pending_deactivates, working_entry, first_time, current_offset,
                     pc, offset, cb, cb2>>
      /\ ClientRuns
      /\ c \in Available(free_q, Fresh) /\ free_q' = TakeFrom(free_q, c)
      /\ live' = [live EXCEPT ![c] = TRUE]
      /\ resource' = [resource EXCEPT ![c] = ToInt(when)]
      /\ callwheel' = [callwheel EXCEPT ![t] = Append(@, c)]
      /\ backptr' = [backptr EXCEPT ![c] = t]
      /\ timers_set' = timers_set + 1
      /\ held' = held \cup {c}
      /\ deadline' = [deadline EXCEPT ![c] = when]
  BY DEF Set, clockVars, walkVars
<1>2. /\ callwheel \in [Slots -> Seq(CB)] /\ free_q \in Seq(CB)
      /\ resource \in [CB -> Int] /\ backptr \in [CB -> Slots] /\ deadline \in [CB -> Nat]
      /\ timers_set \in Int /\ held \subseteq CB
      /\ current_offset \in Nat
  BY TimeAssumption DEF TypeOK
<1>3. when \in Nat /\ when > current_offset /\ t \in Slots /\ ToInt(when) \in Int
  <2>1. when \in Nat /\ when > current_offset
    BY <1>2, WheelOffsetLemma
  <2> HIDE DEF when
  <2> QED
    BY <2>1, SlotLemma, ToIntLemma
<1> HIDE DEF when, t
<1>4. /\ live' \in [CB -> BOOLEAN]
      /\ \A d \in CB : live'[d] = (IF d = c THEN TRUE ELSE live[d])
  <2>1. live \in [CB -> BOOLEAN]
    BY DEF TypeOK
  <2> QED
    BY <1>1, <2>1, Zenon
<1>5. /\ \A d \in CB : resource'[d] = (IF d = c THEN ToInt(when) ELSE resource[d])
      /\ \A d \in CB : backptr'[d] = (IF d = c THEN t ELSE backptr[d])
      /\ \A d \in CB : deadline'[d] = (IF d = c THEN when ELSE deadline[d])
      /\ resource' \in [CB -> Int] /\ backptr' \in [CB -> Slots] /\ deadline' \in [CB -> Nat]
  BY <1>1, <1>2, <1>3
<1>6. /\ c \notin Scheduled
      /\ free_q' \in Seq(CB)
      /\ Members(free_q') = Members(free_q) \ {c}
      /\ NoRepeats(free_q')
  <2>1. Fresh \in SUBSET CB /\ Fresh \cap Members(free_q) = {} /\ Fresh \cap Scheduled = {}
    BY DEF Fresh
  <2>2. NoRepeats(free_q) /\ Scheduled \cap Members(free_q) = {}
    BY DEF LinkedOnce
  <2>c. c \in Available(free_q, Fresh) /\ free_q \in Seq(CB)
    BY <1>1, <1>2
  <2>3. c \in Fresh \/ c \in Members(free_q)
    BY <2>c, <2>1, <2>2, CreateLemma
  <2>4. /\ TakeFrom(free_q, c) \in Seq(CB)
        /\ Members(TakeFrom(free_q, c)) = Members(free_q) \ {c}
        /\ NoRepeats(TakeFrom(free_q, c))
    BY <2>c, <2>1, <2>2, CreateLemma
  <2> QED
    BY <1>1, <2>1, <2>2, <2>3, <2>4
<1>7. \A s \in Slots : c \notin Members(callwheel[s])
  BY <1>6 DEF Scheduled
<1>8. /\ callwheel[t] \in Seq(CB) /\ NoRepeats(callwheel[t])
      /\ Append(callwheel[t], c) \in Seq(CB)
      /\ Members(Append(callwheel[t], c)) = Members(callwheel[t]) \cup {c}
      /\ NoRepeats(Append(callwheel[t], c))
  BY <1>2, <1>3, <1>7, AppendLemma DEF LinkedOnce
<1>9. /\ callwheel' \in [Slots -> Seq(CB)]
      /\ callwheel'[t] = Append(callwheel[t], c)
      /\ \A s \in Slots : s # t => callwheel'[s] = callwheel[s]
  BY <1>1, <1>2, <1>3, <1>8
<1>10. \A s \in Slots : /\ NoRepeats(callwheel'[s])
                        /\ Members(callwheel'[s]) =
                              Members(callwheel[s]) \cup (IF s = t THEN {c} ELSE {})
  BY <1>8, <1>9 DEF LinkedOnce
<1>11. Scheduled' = Scheduled \cup {c}
  BY <1>3, <1>10 DEF Scheduled
<1>12. TypeOK'
  <2>1. held' \subseteq CB /\ timers_set' \in Int
    BY <1>1, <1>2
  <2> QED
    BY <1>1, <1>4, <1>5, <1>6, <1>9, <2>1 DEF TypeOK
<1>13. LinkedOnce'
  <2>1. \A s \in Slots : \A d \in Members(callwheel'[s]) : backptr'[d] = s
    <3> SUFFICES ASSUME NEW s \in Slots, NEW d \in Members(callwheel'[s])
                 PROVE  backptr'[d] = s
      OBVIOUS
    <3>1. CASE d = c
      BY <1>5, <1>7, <1>10, <3>1
    <3>2. CASE d # c
      <4>1. d \in Members(callwheel[s])
        BY <1>10, <3>2
      <4>2. d \in CB /\ backptr[d] = s
        BY <4>1, LinkedLemma DEF LinkedOnce
      <4> QED
        BY <1>5, <3>2, <4>2
    <3> QED
      BY <3>1, <3>2
  <2>2. Scheduled' \cap Members(free_q') = {}
    BY <1>6, <1>11 DEF LinkedOnce
  <2> QED
    BY <1>6, <1>10, <2>1, <2>2 DEF LinkedOnce
<1>14. TimeInv'
  <2> SUFFICES ASSUME NEW s \in Slots, NEW d \in Members(callwheel'[s])
               PROVE  s = Slot(deadline'[d]) /\ resource'[d] = ToInt(deadline'[d])
    BY DEF TimeInv, Slot, ToInt
  <2>1. CASE d = c
    BY <1>5, <1>7, <1>10, <2>1 DEF t
  <2>2. CASE d # c
    <3>1. d \in Members(callwheel[s])
      BY <1>10, <2>2
    <3>2. d \in CB /\ s = Slot(deadline[d]) /\ resource[d] = ToInt(deadline[d])
      BY <3>1, LinkedLemma DEF TimeInv
    <3> QED
      BY <1>5, <2>2, <3>2
  <2> QED
    BY <2>1, <2>2
<1>15. HandleInv'
  <2>1. pc = "callback" => cb # c /\ cb \in CB
    <3>1. pc = "callback" => cb \in Members(Walked) /\ cb \in CB /\ Slot(offset) \in Slots
      BY <1>1, ClientLemma, OnEntryLemma
    <3> QED
      BY <1>7, <3>1 DEF Walked
  <2> QED
    BY <1>1, <1>4, <1>11, <2>1 DEF HandleInv
<1>16. /\ pc' = pc /\ cb' = cb /\ cb2' = cb2 /\ offset' = offset
       /\ working_entry' = working_entry /\ current_offset' = current_offset
       /\ pending_deactivates' = pending_deactivates
       /\ pc = "idle" \/ (pc = "callback" /\ Walking /\ cb # NULL)
       /\ pc = "idle" => ~Walking
  BY <1>1, ClientLemma
<1>17. ASSUME pc = "callback"
       PROVE  /\ \A d \in Members(Walked) : /\ d \in Members(Walked')
                                           /\ Position(Walked', d) = Position(Walked, d)
              /\ cb \in Members(Walked')
              /\ cb2 # NULL => cb2 = Following'
  <2>1. /\ Slot(offset) \in Slots /\ Walked \in Seq(CB) /\ NoRepeats(Walked)
        /\ cb \in Members(Walked) /\ NULL \notin CB
    BY <1>16, <1>17, OnEntryLemma
  <2>2. cb2 # NULL => cb2 = Following
    BY <1>17 DEF WalkInv, WalkPointersValid
  <2>3. CASE t = Slot(offset)
    <3>1. Walked' = Append(Walked, c)
      BY <1>9, <1>16, <2>3 DEF Walked, Slot
    <3>2. \A d \in Members(Walked) : Position(Walked', d) = Position(Walked, d)
      BY <1>7, <2>1, <3>1, AppendNextLemma DEF Walked
    <3>3. Following # NULL => Following' = Following
      <4>1. NextIn(Walked, cb, NULL) # NULL =>
                NextIn(Append(Walked, c), cb, NULL) = NextIn(Walked, cb, NULL)
        BY <1>7, <2>1, AppendNextLemma DEF Walked
      <4>2. Following = NextIn(Walked, cb, NULL) /\ Following' = NextIn(Walked', cb, NULL)
        BY <1>16 DEF Following, Walked
      <4> QED
        BY <3>1, <4>1, <4>2
    <3>4. Members(Walked') = Members(Walked) \cup {c}
      BY <2>1, <3>1, AppendLemma
    <3> QED
      BY <2>1, <2>2, <3>2, <3>3, <3>4
  <2>4. CASE t # Slot(offset)
    <3>1. Walked' = Walked /\ Following' = Following
      BY <1>9, <1>16, <2>1, <2>4 DEF Walked, Following, Slot
    <3> QED
      BY <2>1, <2>2, <3>1
  <2> QED
    BY <2>3, <2>4
<1>18. WalkInv'
  BY <1>16, <1>17 DEF WalkInv, WalkPointersValid, Walking, Walked
<1>19. DeadInv'
  <2> SUFFICES ASSUME NEW s \in Slots, NEW d \in Members(callwheel'[s]), ~live'[d]
               PROVE  /\ Walking
                      /\ s = Slot(offset)
                      /\ pending_deactivates \/ (pc = "callback" /\ d = cb)
    BY <1>16 DEF DeadInv, Walking, Slot
  <2>1. d # c
    BY <1>4
  <2>2. d \in Members(callwheel[s])
    BY <1>10, <2>1
  <2>3. d \in CB /\ ~live[d]
    BY <1>4, <2>1, <2>2, LinkedLemma
  <2> QED
    BY <2>2, <2>3 DEF DeadInv
<1>20. LateInv'
  <2> SUFFICES ASSUME NEW s \in Slots, NEW d \in Members(callwheel'[s]),
                      live'[d], FitsInt(deadline'[d]), deadline'[d] <= current_offset
               PROVE  /\ pc # "idle"
                      /\ deadline'[d] >= offset
                      /\ deadline'[d] = offset => Ahead(d)' /\ cb2 # NULL
    BY <1>16 DEF LateInv, FitsInt
  <2>1. d # c
    BY <1>2, <1>3, <1>5
  <2>2. d \in Members(callwheel[s])
    BY <1>10, <2>1
  <2>3. d \in CB /\ live[d] /\ deadline'[d] = deadline[d]
    BY <1>4, <1>5, <2>1, <2>2, LinkedLemma
  <2>4. /\ pc # "idle"
        /\ deadline[d] >= offset
        /\ Walking /\ deadline[d] = offset => Ahead(d) /\ (pc = "callback" => cb2 # NULL)
        /\ s = Slot(deadline[d])
    BY <2>2, <2>3 DEF LateInv, TimeInv
  <2>5. pc = "callback" /\ Walking
    BY <1>16, <2>4
  <2>6. SUFFICES ASSUME deadline[d] = offset PROVE Ahead(d)' /\ cb2 # NULL
    BY <2>3, <2>4
  <2>7. d \in Members(Walked) /\ Ahead(d) /\ cb2 # NULL
    BY <2>2, <2>4, <2>5, <2>6 DEF Walked
  <2>8. cb \in Members(Walked)
    BY <1>16, <2>5, OnEntryLemma
  <2> QED
    BY <1>16, <1>17, <2>5, <2>7, <2>8 DEF Ahead
<1> QED
  BY <1>6, <1>11, <1>12, <1>13, <1>14, <1>15, <1>18, <1>19, <1>20

-----------------------------------------------------------------------------
\* Every step of the specification keeps the invariant.
LEMMA NextIndInv == IndInv /\ [Next]_vars => IndInv'
<1> SUFFICES ASSUME IndInv, [Next]_vars PROVE IndInv'
  OBVIOUS
<1>1. CASE ClientStep
  <2>1. ASSUME NEW d \in Delays, NEW c \in CB, Set(d, c) PROVE IndInv'
    BY <2>1, SetStep
  <2>2. ASSUME NEW c \in CB, Cancel(c) PROVE IndInv'
    <3>1. CancelSelf(c) \/ CancelMark(c) \/ CancelUnlink(c)
      BY <2>2 DEF Cancel
    <3> QED
      BY <2>2, <3>1, CancelSelfStep, CancelMarkStep, CancelUnlinkStep
  <2> QED
    BY <1>1, <2>1, <2>2 DEF ClientStep
<1>2. CASE ClockStep
  BY <1>2, FirstUpdateStep, StartUpdateStep DEF ClockStep
<1>3. CASE WalkStep
  BY <1>3, EnterSlotStep, FinishUpdateStep, VisitLaterStep, VisitCancelledStep, FireStep,
     ReturnStep, LeaveSlotStep, StartPurgeStep, PurgeKeepStep, PurgeDiscardStep, EndPurgeStep
     DEF WalkStep
<1>4. CASE UNCHANGED vars
  <2> USE <1>4 DEF vars, structVars, clockVars, walkVars
  <2>1. LinkedOnce' /\ TimeInv' /\ Scheduled' = Scheduled
    BY QuietStep DEF wheelVars
  <2>2. TypeOK'
    BY DEF IndInv, TypeOK
  <2>3. WalkInv' /\ HandleInv'
    BY <2>1 DEF IndInv, WalkInv, WalkPointersValid, Walking, HandleInv, Following
  <2>4. DeadInv' /\ LateInv'
    BY DEF IndInv, DeadInv, LateInv, Walking, Ahead, Walked
  <2> QED
    BY <2>1, <2>2, <2>3, <2>4 DEF IndInv
<1> QED
  BY <1>1, <1>2, <1>3, <1>4 DEF Next

\* The invariant holds in every reachable state.
THEOREM Invariance == Spec => []IndInv
BY InitIndInv, NextIndInv, PTL DEF Spec

(***************************************************************************)
(* What the invariant gives.                                                *)
(***************************************************************************)
\* The state of the wheel, its structures and the walk is well typed.
THEOREM TypeCorrect == Spec => []TypeOK
<1>1. IndInv => TypeOK
  BY DEF IndInv
<1> QED
  BY <1>1, Invariance, PTL

\* No structure is ever linked twice or both armed and in the pool.
THEOREM Ownership == Spec => []LinkedOnce
<1>1. IndInv => LinkedOnce
  BY DEF IndInv
<1> QED
  BY <1>1, Invariance, PTL

\* The pointers update_time keeps across a callback never dangle.
THEOREM WalkIsSafe == Spec => []WalkPointersValid
<1>1. IndInv => WalkPointersValid
  BY DEF IndInv, WalkInv
<1> QED
  BY <1>1, Invariance, PTL

\* A handle is armed until it is cancelled or its callback returns, and between
\* calls of update_time the wheel holds nothing but the handles.
THEOREM HandlesArmed == Spec => []HandlesAreArmed
<1>1. ASSUME IndInv PROVE HandlesAreArmed
  <2>1. Scheduled \subseteq CB /\ held \subseteq CB
    BY <1>1, LinkedLemma DEF IndInv, TypeOK, Scheduled
  <2>h. HandleInv
    BY <1>1 DEF IndInv
  <2>2. {c \in Scheduled : live[c]} = held \ (IF pc = "callback" THEN {cb} ELSE {})
    <3>1. CASE pc = "callback"
      BY <2>1, <2>h, <3>1 DEF HandleInv
    <3>2. CASE pc # "callback"
      BY <2>1, <2>h, <3>2 DEF HandleInv
    <3> QED
      BY <3>1, <3>2
  <2>3. ASSUME pc = "idle" PROVE Scheduled = held
    <3>1. \A c \in Scheduled : live[c]
      BY <1>1, <2>3 DEF IndInv, DeadInv, Scheduled, Walking
    <3> QED
      BY <2>2, <2>3, <3>1
  <2> QED
    BY <2>2, <2>3 DEF HandlesAreArmed
<1> QED
  BY <1>1, Invariance, PTL

\* When update_time is over, no armed timer is due.
THEOREM Punctuality == Spec => []Punctual
<1>1. ASSUME IndInv PROVE Punctual
  <2> SUFFICES ASSUME pc = "idle", NEW c \in held, FitsInt(deadline[c])
               PROVE  deadline[c] > current_offset
    BY DEF Punctual
  <2>1. c \in CB /\ deadline[c] \in Nat /\ current_offset \in Nat
    BY <1>1, TimeAssumption DEF IndInv, TypeOK
  <2>2. c \in Scheduled /\ live[c]
    BY <1>1, <2>1 DEF IndInv, HandleInv
  <2>3. ~(deadline[c] <= current_offset)
    BY <1>1, <2>2 DEF IndInv, LateInv, Scheduled
  <2> QED
    BY <2>1, <2>3
<1> QED
  BY <1>1, Invariance, PTL

\* The step that starts a callback is Fire.
LEMMA OnlyFireStarts == ASSUME [Next]_vars, CallbackStarts PROVE Fire
BY DEF Next, vars, CallbackStarts, ClientStep, ClockStep, WalkStep, walkVars, Set, Cancel,
       FirstUpdate, StartUpdate, EnterSlot, FinishUpdate, VisitLater, VisitCancelled, Return,
       LeaveSlot, StartPurge, PurgeKeep, PurgeDiscard, EndPurge

\* A timer that was cancelled or has fired is never called back.
THEOREM CancelledNeverFires == Spec => FiresOnlyHeld
<1>1. IndInv /\ [Next]_vars => [CallbackStarts => cb \in held]_vars
  BY OnlyFireStarts, FireStep
<1> QED
  BY <1>1, Invariance, PTL DEF Spec, FiresOnlyHeld

\* No timer is called back before its time.
THEOREM Earliness == Spec => NeverEarly
<1>1. ASSUME IndInv, [Next]_vars
      PROVE  [CallbackStarts /\ deadline[cb] < INT_RANGE => deadline[cb] <= current_offset]_vars
  <2> SUFFICES ASSUME CallbackStarts, deadline[cb] < INT_RANGE
               PROVE  deadline[cb] <= current_offset
    OBVIOUS
  <2>1. Fire /\ IsDue(cb)
    BY <1>1, OnlyFireStarts, FireStep
  <2>2. Walking /\ cb # NULL
    BY <2>1 DEF Fire, Walking
  <2>3. cb \in Members(callwheel[Slot(offset)]) /\ Slot(offset) \in Slots
    BY <1>1, <2>2, OnEntryLemma DEF Walked
  <2>4. resource[cb] = ToInt(deadline[cb]) /\ deadline[cb] \in Nat
    BY <1>1, <2>3, LinkedLemma DEF IndInv, TimeInv
  <2>5. ToInt(deadline[cb]) = deadline[cb] \/ ToInt(deadline[cb]) < 0
    BY <2>4, FitsLemma
  <2>6. 0 <= resource[cb] /\ resource[cb] <= current_offset /\ resource[cb] \in Int
    BY <2>1, <2>4, ToIntLemma DEF IsDue
  <2> QED
    BY <2>4, <2>5, <2>6
<1> QED
  BY <1>1, Invariance, PTL DEF Spec, NeverEarly

(***************************************************************************)
(* The count of timers.                                                     *)
(***************************************************************************)
\* Only finitely many structures are linked, whatever malloc has.
CountInv == IsFiniteSet(Scheduled) /\ CountIsExact

\* One structure more, one structure less.
LEMMA CountLemma ==
    ASSUME CountInv, NEW c
    PROVE  /\ c \notin Scheduled /\ Scheduled' = Scheduled \cup {c} /\ timers_set' = timers_set + 1
                 => CountInv'
           /\ c \in Scheduled /\ Scheduled' = Scheduled \ {c} /\ timers_set' = timers_set - 1
                 => CountInv'
           /\ Scheduled' = Scheduled /\ timers_set' = timers_set => CountInv'
<1>1. IsFiniteSet(Scheduled) /\ timers_set = Cardinality(Scheduled)
  BY DEF CountInv, CountIsExact
<1>2. Cardinality(Scheduled) \in Nat
  BY <1>1, FS_CardinalityType
<1>3. ASSUME c \notin Scheduled, Scheduled' = Scheduled \cup {c}, timers_set' = timers_set + 1
      PROVE  CountInv'
  <2>1. /\ IsFiniteSet(Scheduled \cup {c})
        /\ Cardinality(Scheduled \cup {c}) = Cardinality(Scheduled) + 1
    BY <1>1, <1>3, FS_AddElement
  <2> QED
    BY <1>1, <1>3, <2>1 DEF CountInv, CountIsExact
<1>4. ASSUME c \in Scheduled, Scheduled' = Scheduled \ {c}, timers_set' = timers_set - 1
      PROVE  CountInv'
  <2>1. /\ IsFiniteSet(Scheduled \ {c})
        /\ Cardinality(Scheduled \ {c}) = Cardinality(Scheduled) - 1
    BY <1>1, <1>4, FS_RemoveElement
  <2> QED
    BY <1>1, <1>4, <2>1 DEF CountInv, CountIsExact
<1>5. ASSUME Scheduled' = Scheduled, timers_set' = timers_set
      PROVE  CountInv'
  BY <1>1, <1>5 DEF CountInv, CountIsExact
<1> QED
  BY <1>3, <1>4, <1>5

\* A structure that the walk stands on counts once, and then not any more.
LEMMA DiscardCountLemma ==
    ASSUME IndInv, CountInv, Walking, cb # NULL, NEW next, Discard(next), offset' = offset,
           UNCHANGED <<resource, backptr, deadline>>
    PROVE  CountInv'
<1>1. Scheduled' = Scheduled \ {cb}
  BY DiscardLemma
<1>2. cb \in Scheduled
  BY OnEntryLemma DEF Scheduled, Walked
<1>3. timers_set' = timers_set - 1
  BY DEF Discard
<1> QED
  BY <1>1, <1>2, <1>3, CountLemma

\* Every step keeps the count.
LEMMA NextCountInv == IndInv /\ CountInv /\ [Next]_vars => CountInv'
<1> SUFFICES ASSUME IndInv, CountInv, [Next]_vars PROVE CountInv'
  OBVIOUS
<1>1. ASSUME callwheel' = callwheel, timers_set' = timers_set PROVE CountInv'
  <2>1. Scheduled' = Scheduled
    BY <1>1 DEF Scheduled
  <2> QED
    BY <1>1, <2>1, CountLemma
<1>2. ASSUME NEW d \in Delays, NEW c \in CB, Set(d, c) PROVE CountInv'
  <2>1. c \notin Scheduled /\ Scheduled' = Scheduled \cup {c}
    BY <1>2, SetStep
  <2>2. timers_set' = timers_set + 1
    BY <1>2 DEF Set
  <2> QED
    BY <2>1, <2>2, CountLemma
<1>3. ASSUME NEW c \in CB, Cancel(c), CancelUnlink(c) PROVE CountInv'
  <2>1. /\ c \in held /\ live[c] /\ timers_set' = timers_set - 1
        /\ callwheel' = [callwheel EXCEPT ![backptr[c]] = Unlink(@, c)]
        /\ free_q' = GiveBack(free_q, c)
        /\ UNCHANGED <<resource, backptr, deadline>>
    BY <1>3 DEF Cancel, CancelUnlink, structVars
  <2>2. backptr[c] \in Slots /\ c \in Members(callwheel[backptr[c]])
    BY <2>1, HandleLemma
  <2>3. Scheduled' = Scheduled \ {c}
    BY <2>1, <2>2, DestroyLemma
  <2>4. c \in Scheduled
    BY <2>2 DEF Scheduled
  <2> QED
    BY <2>1, <2>3, <2>4, CountLemma
<1>4. CASE ClientStep
  <2>1. ASSUME NEW c \in CB, Cancel(c) PROVE CountInv'
    <3>1. CASE CancelSelf(c) \/ CancelMark(c)
      BY <1>1, <3>1 DEF CancelSelf, CancelMark
    <3> QED
      BY <1>3, <2>1, <3>1 DEF Cancel
  <2> QED
    BY <1>2, <1>4, <2>1 DEF ClientStep
<1>5. CASE VisitCancelled \/ PurgeDiscard \/ Return
  <2>1. PICK next : Discard(next)
    BY <1>5 DEF VisitCancelled, PurgeDiscard, Return
  <2>2. /\ Walking /\ cb # NULL /\ offset' = offset
        /\ UNCHANGED <<resource, backptr, deadline>>
    BY <1>5 DEF VisitCancelled, PurgeDiscard, Return, Walking, structVars, IndInv, WalkInv,
                WalkPointersValid
  <2> QED
    BY <2>1, <2>2, DiscardCountLemma
<1>6. CASE ClockStep \/ EnterSlot \/ FinishUpdate \/ VisitLater \/ Fire \/ LeaveSlot
           \/ StartPurge \/ PurgeKeep \/ EndPurge \/ UNCHANGED vars
  BY <1>1, <1>6 DEF ClockStep, FirstUpdate, StartUpdate, EnterSlot, FinishUpdate, VisitLater,
                    Fire, LeaveSlot, StartPurge, PurgeKeep, EndPurge, vars
<1> QED
  BY <1>4, <1>5, <1>6 DEF Next, WalkStep

\* timers_set, which tells whether there is anything to wait for, is the number of
\* linked structures at every point of update_time and of the callbacks.
THEOREM CountCorrect == Spec => []CountIsExact
<1>1. Init => CountInv
  <2> SUFFICES ASSUME Init PROVE CountInv
    OBVIOUS
  <2>1. Scheduled = {}
    BY DEF Init, Scheduled, Members
  <2> QED
    BY <2>1, FS_EmptySet DEF Init, CountInv, CountIsExact
<1>2. CountInv => CountIsExact
  BY DEF CountInv
<1> QED
  BY <1>1, <1>2, NextCountInv, Invariance, PTL DEF Spec

(***************************************************************************)
(* The next time-out.                                                       *)
(***************************************************************************)
\* When no deadline is too far away for an int, next_timeout is the time to the
\* first of them, and R_NOT_FOUND when nothing is armed.
THEOREM NextTimeoutCorrect == Spec => []NextTimeoutExact
<1>1. ASSUME IndInv PROVE NextTimeoutExact
  <2> SUFFICES ASSUME pc = "idle",
                      \A c \in held : FitsInt(deadline[c])
                                      /\ deadline[c] - current_offset < INT_MAX
               PROVE  IF held = {} THEN NextTimeout = NULL
                      ELSE /\ \A c \in held : current_offset + NextTimeout <= deadline[c]
                           /\ \E c \in held : current_offset + NextTimeout = deadline[c]
    BY DEF NextTimeoutExact
  <2>1. held \subseteq CB /\ current_offset \in Nat
    BY <1>1, TimeAssumption DEF IndInv, TypeOK
  <2>2. Candidates = held
    BY <1>1, <2>1, LinkedLemma DEF IndInv, HandleInv, Candidates, Scheduled
  <2> DEFINE Delay(c) == deadline[c] - current_offset
             delays == {ToInt(resource[c] - current_offset) : c \in Candidates}
  <2>3. ASSUME NEW c \in held
        PROVE  /\ ToInt(resource[c] - current_offset) = Delay(c)
               /\ Delay(c) \in Nat /\ Delay(c) < INT_MAX /\ deadline[c] \in Nat
    <3>1. c \in CB /\ deadline[c] \in Nat /\ c \in Scheduled /\ live[c]
      BY <1>1, <2>1 DEF IndInv, TypeOK, HandleInv
    <3>2. PICK s \in Slots : c \in Members(callwheel[s])
      BY <3>1 DEF Scheduled
    <3>3. resource[c] = ToInt(deadline[c]) /\ ~(deadline[c] <= current_offset)
      BY <1>1, <3>1, <3>2 DEF IndInv, TimeInv, LateInv
    <3>4. resource[c] = deadline[c]
      BY <3>1, <3>3, FitsLemma
    <3>5. Delay(c) \in Nat /\ Delay(c) < INT_MAX
      BY <2>1, <3>1, <3>3
    <3>6. FitsInt(Delay(c))
      BY <3>5, IntAssumption DEF FitsInt, INT_MAX
    <3> QED
      BY <3>1, <3>4, <3>5, <3>6, FitsLemma
  <2>4. delays = {Delay(c) : c \in held}
    BY <2>2, <2>3
  <2>5. delays \subseteq Nat \ {INT_MAX}
    BY <2>3, <2>4
  <2>6. NextTimeout = IF delays \ {INT_MAX} = {} THEN NULL
                      ELSE CHOOSE d \in delays : \A e \in delays : d <= e
    BY DEF NextTimeout
  <2> HIDE DEF delays
  <2>7. CASE held = {}
    <3>1. delays = {}
      BY <2>4, <2>7
    <3> QED
      BY <2>6, <2>7, <3>1
  <2>8. CASE held # {}
    <3>1. delays # {} /\ delays \ {INT_MAX} # {}
      BY <2>4, <2>5, <2>8
    <3>2. \E d \in delays : \A e \in delays : d <= e
      BY <2>5, <3>1, LeastLemma
    <3>3. NextTimeout \in delays /\ \A e \in delays : NextTimeout <= e
      BY <2>6, <3>1, <3>2
    <3>4. PICK c \in held : NextTimeout = Delay(c)
      BY <2>4, <3>3
    <3>5. current_offset + NextTimeout = deadline[c]
      BY <2>1, <2>3, <3>4
    <3>6. ASSUME NEW d \in held PROVE current_offset + NextTimeout <= deadline[d]
      <4>1. NextTimeout <= Delay(d)
        BY <2>4, <3>3
      <4> QED
        BY <2>1, <2>3, <3>4, <4>1
    <3> QED
      BY <2>8, <3>5, <3>6
  <2> QED
    BY <2>7, <2>8
<1> QED
  BY <1>1, Invariance, PTL

-----------------------------------------------------------------------------
(* The timer service. *)
\* No deadline wraps around the int field `resource'.
NoWrapInv == \A c \in CB : FitsInt(deadline[c])

\* Every step keeps the deadlines in the range of an int.
LEMMA NextNoWrap == IndInv /\ NoWrapInv /\ [Next]_vars => NoWrapInv'
<1> SUFFICES ASSUME IndInv, NoWrapInv, [Next]_vars PROVE NoWrapInv'
  OBVIOUS
<1>1. ASSUME NEW delay_ms \in Delays, NEW c \in CB, Set(delay_ms, c) PROVE NoWrapInv'
  <2> DEFINE when == current_offset + WheelOffset(delay_ms)
  <2>1. deadline' = [deadline EXCEPT ![c] = when]
    BY <1>1 DEF Set
  <2>2. /\ current_offset \in Nat /\ current_offset <= MaxTime /\ MaxTime \in Nat
        /\ WheelOffset(delay_ms) \in Delays \cup {1} /\ WheelOffset(delay_ms) \in Nat
    BY TimeAssumption, DelayAssumption DEF IndInv, TypeOK, WheelOffset
  <2>3. FitsInt(when)
    BY <2>2, NoWrapAssumption, IntAssumption DEF FitsInt, INT_MAX
  <2> HIDE DEF when
  <2> QED
    BY <2>1, <2>3 DEF NoWrapInv, IndInv, TypeOK
<1>2. ASSUME deadline' = deadline PROVE NoWrapInv'
  BY <1>2 DEF NoWrapInv
<1>3. CASE ClientStep
  BY <1>1, <1>2, <1>3 DEF ClientStep, Cancel
<1>4. CASE ClockStep \/ WalkStep \/ UNCHANGED vars
  BY <1>2, <1>4 DEF ClockStep, FirstUpdate, StartUpdate, WalkStep, EnterSlot, FinishUpdate,
     VisitLater, VisitCancelled, Fire, Return, LeaveSlot, StartPurge, PurgeKeep, PurgeDiscard,
     EndPurge, vars
<1> QED
  BY <1>3, <1>4 DEF Next

\* The values of the service's variables after a step.
ServiceUnchanged ==
    /\ UNCHANGED <<held, deadline, current_offset>>
    /\ pc = "idle" <=> pc' = "idle"
    /\ pc # "callback" /\ pc' # "callback"

\* A step of the walk that calls nothing back is not seen by the client.
LEMMA QuietServiceStep ==
    ASSUME ServiceUnchanged
    PROVE  UNCHANGED Service!tvars
BY DEF ServiceUnchanged, Service!tvars

\* NR_async_timer_set is SetTimer.
LEMMA SetRefines ==
    ASSUME IndInv, NEW delay_ms \in Delays, NEW c \in CB, Set(delay_ms, c)
    PROVE  Service!SetTimer(c, delay_ms)
<1>1. /\ ClientRuns
      /\ held' = held \cup {c}
      /\ deadline' = [deadline EXCEPT ![c] = current_offset + WheelOffset(delay_ms)]
      /\ UNCHANGED <<current_offset, pc, cb>>
  BY DEF Set, clockVars, walkVars
<1>2. c \notin Scheduled
  BY SetStep
<1>3. c \notin held /\ (pc = "callback" => c # cb)
  <2>1. pc = "callback" => cb \in Scheduled
    BY OnEntryLemma DEF IndInv, WalkInv, WalkPointersValid, Walking, Scheduled, Walked
  <2> QED
    BY <1>2, <2>1 DEF IndInv, HandleInv
<1>4. c # NULL
  BY NullAssumption
<1>5. pc = "idle" \/ (pc = "callback" /\ cb # NULL)
  BY <1>1, ClientLemma
<1>6. CASE pc = "idle"
  BY <1>1, <1>3, <1>4, <1>6 DEF Service!SetTimer, Service!ClientMayCall, WheelOffset
<1>7. CASE pc = "callback" /\ cb # NULL
  BY <1>1, <1>3, <1>7 DEF Service!SetTimer, Service!ClientMayCall, WheelOffset
<1> QED
  BY <1>5, <1>6, <1>7

\* NR_async_timer_cancel is CancelTimer, whichever of its three ways it takes.
LEMMA CancelRefines ==
    ASSUME IndInv, NEW c \in CB, Cancel(c)
    PROVE  Service!CancelTimer(c)
<1>1. /\ ClientRuns /\ c \in held /\ held' = held \ {c}
      /\ UNCHANGED <<deadline, current_offset, pc, cb>>
  BY DEF Cancel, clockVars, walkVars
<1>2. pc = "idle" \/ (pc = "callback" /\ cb # NULL)
  BY <1>1, ClientLemma
<1> QED
  BY <1>1, <1>2 DEF Service!CancelTimer, Service!ClientMayCall

\* A call of update_time with a later time is Advance.
LEMMA StartUpdateRefines ==
    ASSUME NEW t \in 0..MaxTime, StartUpdate(t)
    PROVE  Service!Advance(t)
BY DEF StartUpdate, Service!Advance

\* The walk calls back a timer that is armed and due.
LEMMA FireRefines ==
    ASSUME IndInv, NoWrapInv, Fire
    PROVE  cb \in CB /\ Service!FireTimer(cb)
<1>1. cb \in held /\ IsDue(cb)
  BY FireStep
<1>2. /\ pc = "walk" /\ pc' = "callback" /\ cb # NULL
      /\ UNCHANGED <<held, deadline, current_offset, cb>>
  BY DEF Fire, clockVars
<1>3. cb \in Members(callwheel[Slot(offset)]) /\ Slot(offset) \in Slots /\ cb \in CB
  BY <1>2, OnEntryLemma DEF Walking, Walked
<1>4. resource[cb] = ToInt(deadline[cb]) /\ deadline[cb] \in Nat
  BY <1>3, LinkedLemma DEF IndInv, TimeInv
<1>5. resource[cb] = deadline[cb]
  BY <1>3, <1>4, FitsLemma DEF NoWrapInv
<1>6. deadline[cb] <= current_offset
  BY <1>1, <1>5 DEF IsDue
<1> QED
  BY <1>1, <1>2, <1>3, <1>6 DEF Service!FireTimer

\* The callback's return is the service's.
LEMMA ReturnRefines ==
    ASSUME IndInv, Return
    PROVE  Service!CallbackReturns
<1>1. /\ pc = "callback" /\ pc' = "walk" /\ held' = held \ {cb}
      /\ UNCHANGED <<deadline, current_offset>>
  BY DEF Return, clockVars
<1>2. cb # NULL
  BY <1>1 DEF IndInv, WalkInv, WalkPointersValid
<1> QED
  BY <1>1, <1>2 DEF Service!CallbackReturns

\* update_time does not return before every timer that is due has been called back.
LEMMA FinishUpdateRefines ==
    ASSUME IndInv, NoWrapInv, FinishUpdate
    PROVE  Service!AdvanceReturns
<1>1. /\ pc = "slot" /\ pc' = "idle" /\ offset > current_offset
      /\ UNCHANGED <<held, deadline, current_offset>>
  BY DEF FinishUpdate, clockVars
<1>2. ASSUME NEW c \in held PROVE deadline[c] > current_offset
  <2>1. /\ c \in CB /\ deadline[c] \in Nat /\ current_offset \in Nat /\ offset \in Nat
    BY TimeAssumption DEF IndInv, TypeOK
  <2>2. c \in Scheduled /\ live[c]
    BY <1>1, <2>1 DEF IndInv, HandleInv
  <2>3. PICK s \in Slots : c \in Members(callwheel[s])
    BY <2>2 DEF Scheduled
  <2>4. deadline[c] <= current_offset => deadline[c] >= offset
    BY <2>1, <2>2, <2>3 DEF IndInv, LateInv, NoWrapInv
  <2> QED
    BY <1>1, <2>1, <2>4
<1> QED
  BY <1>1, <1>2 DEF Service!AdvanceReturns

\* Every step of the wheel is a step of the service, or none.
LEMMA StepRefines ==
    IndInv /\ NoWrapInv /\ [Next]_vars => [Service!ServiceNext]_(Service!tvars)
<1> SUFFICES ASSUME IndInv, NoWrapInv, [Next]_vars
             PROVE  Service!ServiceNext \/ UNCHANGED Service!tvars
  OBVIOUS
<1>1. CASE ClientStep
  <2>1. ASSUME NEW d \in Delays, NEW c \in CB, Set(d, c) PROVE Service!ServiceNext
    BY <2>1, SetRefines DEF Service!ServiceNext
  <2>2. ASSUME NEW c \in CB, Cancel(c) PROVE Service!ServiceNext
    BY <2>2, CancelRefines DEF Service!ServiceNext
  <2> QED
    BY <1>1, <2>1, <2>2 DEF ClientStep
<1>2. CASE ClockStep
  <2>1. ASSUME FirstUpdate PROVE UNCHANGED Service!tvars
    BY <2>1, QuietServiceStep DEF FirstUpdate, walkVars, ServiceUnchanged
  <2>2. ASSUME NEW t \in 0..MaxTime, StartUpdate(t) PROVE Service!ServiceNext
    BY <2>2, StartUpdateRefines DEF Service!ServiceNext
  <2> QED
    BY <1>2, <2>1, <2>2 DEF ClockStep
<1>3. CASE Fire \/ Return \/ FinishUpdate
  BY <1>3, FireRefines, ReturnRefines, FinishUpdateRefines
     DEF Service!ServiceNext, Service!ServiceStep
<1>4. CASE EnterSlot \/ VisitLater \/ VisitCancelled \/ LeaveSlot \/ StartPurge \/ PurgeKeep
           \/ PurgeDiscard \/ EndPurge
  <2>1. ServiceUnchanged
    BY <1>4 DEF EnterSlot, VisitLater, VisitCancelled, LeaveSlot, StartPurge, PurgeKeep,
                PurgeDiscard, EndPurge, clockVars, ServiceUnchanged
  <2> QED
    BY <2>1, QuietServiceStep
<1>5. CASE UNCHANGED vars
  BY <1>5 DEF vars, clockVars, walkVars, Service!tvars
<1> QED
  BY <1>1, <1>2, <1>3, <1>4, <1>5 DEF Next, WalkStep

\* The timer wheel implements the timer service: what update_time calls back, and
\* when it returns, is what the service promises.
THEOREM WheelImplementsService == Spec => Service!ServiceSafety
<1>1. Init => Service!ServiceInit
  BY DEF Init, Service!ServiceInit
<1>2. Init => NoWrapInv
  BY IntAssumption DEF Init, NoWrapInv, FitsInt, INT_MAX
<1> QED
  BY <1>1, <1>2, NextNoWrap, StepRefines, Invariance, PTL DEF Spec, Service!ServiceSafety

=============================================================================
