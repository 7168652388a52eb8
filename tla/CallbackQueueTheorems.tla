----------------------- MODULE CallbackQueueTheorems -----------------------
(***************************************************************************)
(* What the queue operations of CallbackQueue return and preserve, for      *)
(* every queue without repeated entries.                                    *)
(***************************************************************************)
EXTENDS CallbackQueue, WellFoundedInduction, TLAPS

\* A linked structure has a position, and only one.
LEMMA PositionLemma ==
    ASSUME NEW S, NEW q \in Seq(S), NEW c \in Members(q)
    PROVE  /\ Position(q, c) \in 1..Len(q)
           /\ q[Position(q, c)] = c
           /\ NoRepeats(q) => \A i \in 1..Len(q) : q[i] = c => i = Position(q, c)
<1>1. \E i \in 1..Len(q) : q[i] = c
  BY DEF Members
<1>2. Position(q, c) \in 1..Len(q) /\ q[Position(q, c)] = c
  BY <1>1 DEF Position
<1> QED
  BY <1>2 DEF NoRepeats

\* The entries of a queue are structures of S.
LEMMA MembersLemma ==
    ASSUME NEW S, NEW q \in Seq(S)
    PROVE  Members(q) \subseteq S
BY DEF Members

\* TAILQ_FIRST is NULL for an empty queue only, and else the entry at position 1.
LEMMA FirstLemma ==
    ASSUME NEW S, NEW q \in Seq(S), NEW NULL, NULL \notin S
    PROVE  /\ First(q, NULL) = NULL <=> Len(q) = 0
           /\ First(q, NULL) # NULL =>
                 First(q, NULL) \in Members(q) /\ q[1] = First(q, NULL)
BY DEF First, Members

\* TAILQ_NEXT is NULL for the last entry only, and else the entry after c.
LEMMA NextInLemma ==
    ASSUME NEW S, NEW q \in Seq(S), NEW NULL, NULL \notin S, NEW c \in Members(q)
    PROVE  /\ NextIn(q, c, NULL) = NULL <=> Position(q, c) = Len(q)
           /\ NextIn(q, c, NULL) # NULL =>
                 /\ NextIn(q, c, NULL) \in Members(q)
                 /\ Position(q, c) + 1 \in 1..Len(q)
                 /\ q[Position(q, c) + 1] = NextIn(q, c, NULL)
<1>1. Position(q, c) \in 1..Len(q)
  BY PositionLemma
<1>2. CASE Position(q, c) = Len(q)
  BY <1>1, <1>2 DEF NextIn
<1>3. CASE Position(q, c) # Len(q)
  <2>1. Position(q, c) + 1 \in 1..Len(q)
    BY <1>1, <1>3
  <2>2. NextIn(q, c, NULL) = q[Position(q, c) + 1]
    BY <1>3 DEF NextIn
  <2>3. q[Position(q, c) + 1] \in Members(q) /\ q[Position(q, c) + 1] \in S
    BY <2>1 DEF Members
  <2> QED
    BY <1>3, <2>1, <2>2, <2>3
<1> QED
  BY <1>2, <1>3

\* TAILQ_INSERT_TAIL adds one entry, at the end, and repeats none if it is new.
LEMMA AppendLemma ==
    ASSUME NEW S, NEW q \in Seq(S), NEW c \in S
    PROVE  /\ Append(q, c) \in Seq(S)
           /\ Members(Append(q, c)) = Members(q) \cup {c}
           /\ NoRepeats(q) /\ c \notin Members(q) => NoRepeats(Append(q, c))
           /\ Len(Append(q, c)) = Len(q) + 1
           /\ \A i \in 1..Len(q) : Append(q, c)[i] = q[i]
           /\ Append(q, c)[Len(q) + 1] = c
<1>1. /\ Append(q, c) \in Seq(S)
      /\ Len(Append(q, c)) = Len(q) + 1
      /\ \A i \in 1..Len(q) : Append(q, c)[i] = q[i]
      /\ Append(q, c)[Len(q) + 1] = c
  OBVIOUS
<1>2. Members(Append(q, c)) = Members(q) \cup {c}
  BY <1>1 DEF Members
<1>3. ASSUME NoRepeats(q), c \notin Members(q)
      PROVE  NoRepeats(Append(q, c))
  BY <1>1, <1>3 DEF NoRepeats, Members
<1> QED
  BY <1>1, <1>2, <1>3

\* An appended entry does not move the others, nor change what follows them
\* unless they were last.
LEMMA AppendNextLemma ==
    ASSUME NEW S, NEW q \in Seq(S), NoRepeats(q), NEW NULL, NULL \notin S,
           NEW c \in Members(q), NEW d \in S, d \notin Members(q)
    PROVE  /\ Position(Append(q, d), c) = Position(q, c)
           /\ NextIn(q, c, NULL) # NULL =>
                 NextIn(Append(q, d), c, NULL) = NextIn(q, c, NULL)
<1>1. /\ Append(q, d) \in Seq(S)
      /\ Members(Append(q, d)) = Members(q) \cup {d}
      /\ NoRepeats(Append(q, d))
      /\ Len(Append(q, d)) = Len(q) + 1
      /\ \A i \in 1..Len(q) : Append(q, d)[i] = q[i]
  BY AppendLemma
<1>2. Position(q, c) \in 1..Len(q) /\ q[Position(q, c)] = c
  BY PositionLemma
<1>3. Position(Append(q, d), c) = Position(q, c)
  <2>1. c \in Members(Append(q, d))
    BY <1>1
  <2>2. Append(q, d)[Position(q, c)] = c /\ Position(q, c) \in 1..Len(Append(q, d))
    BY <1>1, <1>2
  <2> QED
    BY <1>1, <2>1, <2>2, PositionLemma
<1>4. ASSUME NextIn(q, c, NULL) # NULL
      PROVE  NextIn(Append(q, d), c, NULL) = NextIn(q, c, NULL)
  <2>1. Position(q, c) # Len(q) /\ Position(q, c) + 1 \in 1..Len(q)
    BY <1>2, <1>4, NextInLemma
  <2>2. Position(Append(q, d), c) # Len(Append(q, d))
    BY <1>1, <1>2, <1>3
  <2> QED
    BY <1>1, <1>3, <2>1, <2>2 DEF NextIn
<1> QED
  BY <1>3, <1>4

\* TAILQ_REMOVE takes out c and nothing else, and keeps the order.
LEMMA UnlinkLemma ==
    ASSUME NEW S, NEW q \in Seq(S), NoRepeats(q), NEW c \in Members(q)
    PROVE  /\ Unlink(q, c) \in Seq(S)
           /\ Len(Unlink(q, c)) = Len(q) - 1
           /\ \A i \in 1..(Len(q) - 1) :
                 Unlink(q, c)[i] = IF i < Position(q, c) THEN q[i] ELSE q[i + 1]
           /\ Members(Unlink(q, c)) = Members(q) \ {c}
           /\ NoRepeats(Unlink(q, c))
<1> DEFINE k == Position(q, c)
           u == Unlink(q, c)
<1>1. /\ k \in 1..Len(q)
      /\ q[k] = c
      /\ \A i \in 1..Len(q) : q[i] = c => i = k
  BY PositionLemma
<1>2. Len(q) \in Nat /\ \A i \in 1..Len(q) : q[i] \in S
  OBVIOUS
<1>3. u = [i \in 1..(Len(q) - 1) |-> IF i < k THEN q[i] ELSE q[i + 1]]
  BY DEF Unlink
<1> HIDE DEF k, u
<1>4. \A i \in 1..(Len(q) - 1) : i \in 1..Len(q) /\ i + 1 \in 1..Len(q)
  BY <1>2
<1>5. \A i \in 1..(Len(q) - 1) : u[i] = IF i < k THEN q[i] ELSE q[i + 1]
  BY <1>3
<1>6. u \in [1..(Len(q) - 1) -> S]
  BY <1>2, <1>3, <1>4
<1>7. Len(q) - 1 \in Nat
  BY <1>1, <1>2
<1>8. u \in Seq(S) /\ Len(u) = Len(q) - 1
  BY <1>6, <1>7
<1>9. Members(u) = Members(q) \ {c}
  <2>1. ASSUME NEW d \in Members(u) PROVE d \in Members(q) \ {c}
    <3>1. PICK i \in 1..(Len(q) - 1) : u[i] = d
      BY <1>8 DEF Members
    <3>2. PICK j \in 1..Len(q) : j # k /\ q[j] = d
      <4>1. CASE i < k
        <5>1. i \in 1..Len(q) /\ i # k /\ q[i] = d
          BY <1>1, <1>4, <1>5, <3>1, <4>1
        <5> QED
          BY <5>1
      <4>2. CASE ~(i < k)
        <5>1. i + 1 \in 1..Len(q) /\ i + 1 # k /\ q[i + 1] = d
          BY <1>1, <1>4, <1>5, <3>1, <4>2
        <5> QED
          BY <5>1
      <4> QED
        BY <4>1, <4>2
    <3>3. d # c
      BY <1>1, <3>2
    <3> QED
      BY <3>2, <3>3 DEF Members
  <2>2. ASSUME NEW d \in Members(q), d # c PROVE d \in Members(u)
    <3>1. PICK i \in 1..Len(q) : q[i] = d
      BY DEF Members
    <3>2. i # k
      BY <1>1, <2>2, <3>1
    <3>3. CASE i < k
      <4>1. i \in 1..(Len(q) - 1) /\ u[i] = d
        BY <1>1, <1>2, <1>5, <3>1, <3>3
      <4> QED
        BY <1>8, <4>1 DEF Members
    <3>4. CASE i > k
      <4>1. i - 1 \in 1..(Len(q) - 1) /\ u[i - 1] = d
        BY <1>1, <1>2, <1>5, <3>1, <3>4
      <4> QED
        BY <1>8, <4>1 DEF Members
    <3> QED
      BY <1>1, <3>2, <3>3, <3>4
  <2> QED
    BY <2>1, <2>2
<1>10. NoRepeats(u)
  BY <1>1, <1>2, <1>4, <1>5, <1>8 DEF NoRepeats
<1> QED
  BY <1>5, <1>8, <1>9, <1>10 DEF k, u

\* An entry further on in the queue is not before the one that follows c.
LEMMA AheadLemma ==
    ASSUME NEW S, NEW q \in Seq(S), NoRepeats(q), NEW NULL, NULL \notin S,
           NEW c \in Members(q), NEW d \in Members(q), d # c,
           Position(q, c) <= Position(q, d)
    PROVE  /\ NextIn(q, c, NULL) # NULL
           /\ Position(q, NextIn(q, c, NULL)) = Position(q, c) + 1
           /\ Position(q, c) + 1 <= Position(q, d)
<1>1. /\ Position(q, c) \in 1..Len(q) /\ q[Position(q, c)] = c
      /\ Position(q, d) \in 1..Len(q) /\ q[Position(q, d)] = d
  BY PositionLemma
<1>2. Position(q, c) + 1 <= Position(q, d)
  BY <1>1
<1>3. NextIn(q, c, NULL) # NULL
  BY <1>1, <1>2, NextInLemma
<1>4. /\ NextIn(q, c, NULL) \in Members(q)
      /\ Position(q, c) + 1 \in 1..Len(q)
      /\ q[Position(q, c) + 1] = NextIn(q, c, NULL)
  BY <1>3, NextInLemma
<1> QED
  BY <1>2, <1>3, <1>4, PositionLemma

\* Taking out c moves up the entries behind it, by one.
LEMMA UnlinkPositionLemma ==
    ASSUME NEW S, NEW q \in Seq(S), NoRepeats(q),
           NEW c \in Members(q), NEW d \in Members(q), d # c
    PROVE  Position(Unlink(q, c), d) =
               IF Position(q, d) < Position(q, c) THEN Position(q, d) ELSE Position(q, d) - 1
<1> DEFINE k == Position(q, c)
           j == Position(q, d)
           u == Unlink(q, c)
<1>1. k \in 1..Len(q) /\ q[k] = c /\ j \in 1..Len(q) /\ q[j] = d
  BY PositionLemma
<1>2. /\ u \in Seq(S)
      /\ Len(u) = Len(q) - 1
      /\ \A i \in 1..(Len(q) - 1) : u[i] = IF i < k THEN q[i] ELSE q[i + 1]
      /\ d \in Members(u)
      /\ NoRepeats(u)
  BY UnlinkLemma
<1>3. Len(q) \in Nat
  OBVIOUS
<1> HIDE DEF k, j, u
<1>4. j # k
  BY <1>1
<1>5. CASE j < k
  <2>1. j \in 1..Len(u) /\ u[j] = d
    BY <1>1, <1>2, <1>3, <1>5
  <2>2. Position(u, d) = j
    BY <1>2, <2>1, PositionLemma
  <2> QED
    BY <1>5, <2>2 DEF j, k, u
<1>6. CASE j > k
  <2>1. j - 1 \in 1..Len(u) /\ u[j - 1] = d
    BY <1>1, <1>2, <1>3, <1>6
  <2>2. Position(u, d) = j - 1
    BY <1>2, <2>1, PositionLemma
  <2>3. ~(j < k)
    BY <1>1, <1>6
  <2> QED
    BY <2>2, <2>3 DEF j, k, u
<1> QED
  BY <1>1, <1>4, <1>5, <1>6

\* An entry behind c is, once c is taken out, not before the one that followed c.
LEMMA UnlinkAheadLemma ==
    ASSUME NEW S, NEW q \in Seq(S), NoRepeats(q), NEW NULL, NULL \notin S,
           NEW c \in Members(q), NEW d \in Members(q), d # c,
           Position(q, c) <= Position(q, d)
    PROVE  /\ NextIn(q, c, NULL) # NULL
           /\ Position(Unlink(q, c), NextIn(q, c, NULL)) <= Position(Unlink(q, c), d)
<1> DEFINE n == NextIn(q, c, NULL)
<1>1. /\ Position(q, c) \in 1..Len(q)
      /\ Position(q, d) \in 1..Len(q)
  BY PositionLemma
<1>2. n # NULL /\ Position(q, n) = Position(q, c) + 1 /\ Position(q, c) + 1 <= Position(q, d)
  BY AheadLemma
<1>3. n \in Members(q)
  BY <1>2, NextInLemma
<1> HIDE DEF n
<1>4. n # c
  BY <1>1, <1>2
<1>5. Position(Unlink(q, c), n) = Position(q, n) - 1
  BY <1>1, <1>2, <1>3, <1>4, UnlinkPositionLemma
<1>6. Position(Unlink(q, c), d) = Position(q, d) - 1
  BY <1>1, <1>2, UnlinkPositionLemma
<1> QED
  BY <1>1, <1>2, <1>5, <1>6 DEF n

\* Taking the head off a queue takes out that entry and nothing else.
LEMMA TailLemma ==
    ASSUME NEW S, NEW q \in Seq(S), NoRepeats(q), q # <<>>
    PROVE  /\ Head(q) \in S /\ Head(q) \in Members(q) /\ Head(q) = q[1]
           /\ Tail(q) \in Seq(S)
           /\ Len(Tail(q)) = Len(q) - 1
           /\ \A i \in 1..(Len(q) - 1) : Tail(q)[i] = q[i + 1]
           /\ Members(Tail(q)) = Members(q) \ {Head(q)}
           /\ NoRepeats(Tail(q))
<1>1. Len(q) \in Nat \ {0} /\ Head(q) = q[1]
  OBVIOUS
<1>2. /\ Tail(q) \in Seq(S)
      /\ Len(Tail(q)) = Len(q) - 1
      /\ \A i \in 1..(Len(q) - 1) : Tail(q)[i] = q[i + 1]
  OBVIOUS
<1>3. Head(q) \in S /\ Head(q) \in Members(q)
  BY <1>1 DEF Members
<1>4. NoRepeats(Tail(q))
  BY <1>1, <1>2 DEF NoRepeats
<1>5. ASSUME NEW d \in Members(Tail(q)) PROVE d \in Members(q) \ {Head(q)}
  <2>1. PICK i \in 1..(Len(q) - 1) : q[i + 1] = d
    BY <1>1, <1>2 DEF Members
  <2>2. i + 1 \in 1..Len(q) /\ i + 1 # 1
    BY <1>1
  <2>3. d # Head(q)
    BY <1>1, <2>1, <2>2 DEF NoRepeats
  <2> QED
    BY <2>1, <2>2, <2>3 DEF Members
<1>6. ASSUME NEW d \in Members(q), d # Head(q) PROVE d \in Members(Tail(q))
  <2>1. PICK i \in 1..Len(q) : q[i] = d
    BY DEF Members
  <2>2. i # 1
    BY <1>1, <1>6, <2>1
  <2>3. i - 1 \in 1..(Len(q) - 1) /\ Tail(q)[i - 1] = d
    BY <1>1, <1>2, <2>1, <2>2
  <2> QED
    BY <1>2, <2>3 DEF Members
<1> QED
  BY <1>1, <1>2, <1>3, <1>4, <1>5, <1>6

\* Two queues one behind the other hold what either holds, and repeat an entry
\* only if one of them does or they share it.
LEMMA ConcatLemma ==
    ASSUME NEW S, NEW p \in Seq(S), NEW q \in Seq(S)
    PROVE  /\ p \o q \in Seq(S)
           /\ Members(p \o q) = Members(p) \cup Members(q)
           /\ NoRepeats(p) /\ NoRepeats(q) /\ Members(p) \cap Members(q) = {}
                 => NoRepeats(p \o q)
<1> DEFINE m == Len(p)
           n == Len(q)
           r == p \o q
<1>1. /\ m \in Nat /\ n \in Nat
      /\ r \in Seq(S)
      /\ Len(r) = m + n
      /\ \A i \in 1..m : r[i] = p[i]
      /\ \A i \in 1..n : r[m + i] = q[i]
  OBVIOUS
<1> HIDE DEF m, n, r
<1>2. ASSUME NEW i \in 1..(m + n), ~(i \in 1..m)
      PROVE  i - m \in 1..n /\ r[i] = q[i - m]
  <2>1. i - m \in 1..n /\ m + (i - m) = i
    BY <1>1, <1>2
  <2> QED
    BY <1>1, <2>1
<1>3. Members(r) = Members(p) \cup Members(q)
  <2>1. ASSUME NEW d \in Members(r) PROVE d \in Members(p) \cup Members(q)
    <3>1. PICK i \in 1..(m + n) : r[i] = d
      BY <1>1 DEF Members
    <3>2. CASE i \in 1..m
      BY <1>1, <3>1, <3>2 DEF Members, m
    <3>3. CASE ~(i \in 1..m)
      <4>1. i - m \in 1..n /\ q[i - m] = d
        BY <1>2, <3>1, <3>3
      <4> QED
        BY <4>1 DEF Members, n
    <3> QED
      BY <3>2, <3>3
  <2>2. ASSUME NEW d \in Members(p) PROVE d \in Members(r)
    <3>1. PICK i \in 1..m : p[i] = d
      BY DEF Members, m
    <3>2. i \in 1..(m + n) /\ r[i] = d
      BY <1>1, <3>1
    <3> QED
      BY <1>1, <3>2 DEF Members
  <2>3. ASSUME NEW d \in Members(q) PROVE d \in Members(r)
    <3>1. PICK i \in 1..n : q[i] = d
      BY DEF Members, n
    <3>2. m + i \in 1..(m + n) /\ r[m + i] = d
      BY <1>1, <3>1
    <3> QED
      BY <1>1, <3>2 DEF Members
  <2> QED
    BY <2>1, <2>2, <2>3
<1>4. ASSUME NoRepeats(p), NoRepeats(q), Members(p) \cap Members(q) = {}
      PROVE  NoRepeats(r)
  <2> SUFFICES ASSUME NEW i \in 1..(m + n), NEW j \in 1..(m + n), r[i] = r[j]
               PROVE  i = j
    BY <1>1 DEF NoRepeats
  <2>1. ASSUME NEW a \in 1..m, NEW b \in 1..n PROVE p[a] # q[b]
    <3>1. p[a] \in Members(p) /\ q[b] \in Members(q)
      BY DEF Members, m, n
    <3> QED
      BY <1>4, <3>1
  <2>2. CASE i \in 1..m /\ j \in 1..m
    BY <1>1, <1>4, <2>2 DEF NoRepeats, m
  <2>3. CASE i \in 1..m /\ ~(j \in 1..m)
    BY <1>1, <1>2, <2>1, <2>3
  <2>4. CASE ~(i \in 1..m) /\ j \in 1..m
    BY <1>1, <1>2, <2>1, <2>4
  <2>5. CASE ~(i \in 1..m) /\ ~(j \in 1..m)
    <3>1. i - m \in 1..n /\ j - m \in 1..n /\ q[i - m] = q[j - m]
      BY <1>2, <2>5
    <3>2. i - m = j - m
      BY <1>4, <3>1 DEF NoRepeats, n
    <3> QED
      BY <1>1, <3>2
  <2> QED
    BY <2>2, <2>3, <2>4, <2>5
<1> QED
  BY <1>1, <1>3, <1>4 DEF r

\* nr_async_create_cb returns a structure that is in no queue any more.
LEMMA CreateLemma ==
    ASSUME NEW S, NEW f \in Seq(S), NoRepeats(f), NEW fresh \in SUBSET S,
           fresh \cap Members(f) = {}, NEW c \in Available(f, fresh)
    PROVE  /\ c \in S
           /\ f = <<>> => c \in fresh
           /\ f # <<>> => c \in Members(f)
           /\ TakeFrom(f, c) \in Seq(S)
           /\ Members(TakeFrom(f, c)) = Members(f) \ {c}
           /\ NoRepeats(TakeFrom(f, c))
<1>1. CASE f = <<>>
  <2>1. c \in fresh /\ TakeFrom(f, c) = f
    BY <1>1 DEF Available, TakeFrom
  <2> QED
    BY <1>1, <2>1 DEF Members
<1>2. CASE f # <<>>
  <2>1. c = Head(f) /\ TakeFrom(f, c) = Tail(f)
    BY <1>2 DEF Available, TakeFrom
  <2>2. /\ Head(f) \in S /\ Head(f) \in Members(f)
        /\ Tail(f) \in Seq(S)
        /\ Members(Tail(f)) = Members(f) \ {Head(f)}
        /\ NoRepeats(Tail(f))
    BY <1>2, TailLemma
  <2> QED
    BY <1>2, <2>1, <2>2
<1> QED
  BY <1>1, <1>2

\* A set of natural numbers that is not empty has a least element.
LEMMA LeastLemma ==
    ASSUME NEW D \in SUBSET Nat, D # {}
    PROVE  \E d \in D : \A e \in D : d <= e
<1> DEFINE R == OpToRel(<, Nat)
<1>1. \A x, y \in Nat : <<x, y>> \in R <=> x < y
  BY DEF OpToRel
<1>2. IsWellFoundedOn(R, Nat)
  BY NatLessThanWellFounded
<1> HIDE DEF R
<1>3. PICK d \in D : \A e \in D : ~(<<e, d>> \in R)
  BY <1>2, WFMin
<1>4. ASSUME NEW e \in D PROVE d <= e
  <2>1. d \in Nat /\ e \in Nat
    OBVIOUS
  <2>2. ~(e < d)
    BY <1>1, <1>3, <2>1
  <2> QED
    BY <2>1, <2>2
<1> QED
  BY <1>4

\* A bounded set of numbers that is not empty has a greatest one.
LEMMA GreatestLemma ==
    ASSUME NEW m \in Nat, NEW D \in SUBSET (0..m), D # {}
    PROVE  \E d \in D : \A e \in D : e <= d
<1> DEFINE C == {m - d : d \in D}
<1>0. \A d \in D : d \in 0..m /\ m - d \in Nat
  OBVIOUS
<1>1. C \in SUBSET Nat /\ C # {}
  BY <1>0
<1>2. PICK c \in C : \A b \in C : c <= b
  BY <1>1, LeastLemma
<1>3. PICK d \in D : c = m - d
  BY <1>2
<1>4. ASSUME NEW e \in D PROVE e <= d
  <2>1. m - d <= m - e
    BY <1>2, <1>3
  <2> QED
    BY <2>1
<1> QED
  BY <1>4

\* What is on a queue is its first structure and what is on the rest.
LEMMA RestLemma ==
    ASSUME NEW S, NEW q \in Seq(S), q # <<>>
    PROVE  /\ Tail(q) \in Seq(S) /\ Head(q) \in S /\ Len(Tail(q)) = Len(q) - 1
           /\ \A i \in 1..(Len(q) - 1) : Tail(q)[i] = q[i + 1]
           /\ Members(q) = {Head(q)} \cup Members(Tail(q))
<1>1. Len(q) \in Nat \ {0} /\ Head(q) = q[1] /\ Head(q) \in S
  OBVIOUS
<1>2. /\ Tail(q) \in Seq(S) /\ Len(Tail(q)) = Len(q) - 1
      /\ \A i \in 1..(Len(q) - 1) : Tail(q)[i] = q[i + 1]
  OBVIOUS
<1>3. ASSUME NEW c \in Members(q) PROVE c \in {Head(q)} \cup Members(Tail(q))
  <2>1. PICK i \in 1..Len(q) : q[i] = c
    BY DEF Members
  <2>2. CASE i = 1
    BY <1>1, <2>1, <2>2
  <2>3. CASE i # 1
    <3>1. i - 1 \in 1..(Len(q) - 1) /\ (i - 1) + 1 = i
      BY <1>1, <2>1, <2>3
    <3>2. Tail(q)[i - 1] = c
      BY <1>2, <2>1, <3>1
    <3> QED
      BY <1>2, <3>1, <3>2 DEF Members
  <2> QED
    BY <2>2, <2>3
<1>4. ASSUME NEW c \in {Head(q)} \cup Members(Tail(q)) PROVE c \in Members(q)
  <2>1. CASE c = Head(q)
    BY <1>1, <2>1 DEF Members
  <2>2. CASE c \in Members(Tail(q))
    <3>1. PICK i \in 1..(Len(q) - 1) : Tail(q)[i] = c
      BY <1>2, <2>2 DEF Members
    <3>2. i + 1 \in 1..Len(q) /\ q[i + 1] = c
      BY <1>1, <1>2, <3>1
    <3> QED
      BY <3>2 DEF Members
  <2> QED
    BY <2>1, <2>2
<1> QED
  BY <1>1, <1>2, <1>3, <1>4
=============================================================================
