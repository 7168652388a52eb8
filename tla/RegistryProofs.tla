--------------------------- MODULE RegistryProofs ---------------------------
(***************************************************************************)
(* Proofs about the registry and its events, for any tree of names, any     *)
(* callbacks and any nesting of calls; those about what the watcher is told *)
(* are for callbacks that do not write.                                     *)
(***************************************************************************)
EXTENDS Registry, CallbackQueueTheorems, FiniteSetTheorems, FunctionTheorems

NodeRecords == [kind : Kinds \cup {"freed"}, val : Nat]

NodesOK ==
    /\ Present \subseteq Names /\ IsFiniteSet(Present)
    /\ \A n \in Present : nodes[n] \in NodeRecords

TablesOK == tables \in [Names -> Seq(Entries)] /\ hash \in [Entries -> Nat]

\* The order of iteration: the entries of a chain together, chain after chain.
Sorted(t) == \A i, j \in 1..Len(t) : i <= j => hash[t[i]] <= hash[t[j]]

TablesInv == \A n \in Names : NoRepeats(tables[n]) /\ Sorted(tables[n])

\* An iterator stands on an entry of its table: what it has visited lies before
\* that one, and in no later chain, what is still due from there on.
Walk(next, due, done, t) ==
    /\ next = NULL => due = {}
    /\ due \subseteq Members(t)
    /\ next # NULL =>
          /\ next \in Members(t)
          /\ next \notin done
          /\ \A e \in done : hash[e] <= hash[next]
          /\ \A i, j \in 1..Len(t) : t[j] = next =>
                (t[i] \in done => i < j) /\ (t[i] \in due => j <= i)

WalkInv(f) == f.op = "level" => Walk(f.next, f.due, f.done, tables[f.level])

IterInv ==
    /\ NodesOK /\ TablesOK /\ TablesInv /\ view \subseteq Names
    /\ stack \in Seq(Frames)
    /\ \A f \in Members(stack) : WalkInv(f)

-----------------------------------------------------------------------------
\* A set of positions that contains those before each of its own.
LEMMA SegmentLemma ==
    ASSUME NEW m \in Nat, NEW D \in SUBSET (1..m),
           \A i \in D : \A j \in 1..m : j <= i => j \in D
    PROVE  Cardinality(D) \in 0..m /\ D = 1..Cardinality(D)
<1>1. CASE D = {}
  BY <1>1, FS_EmptySet
<1>2. CASE D # {}
  <2>0. D \in SUBSET (0..m)
    OBVIOUS
  <2>1. PICK d \in D : \A e \in D : e <= d
    BY <1>2, <2>0, GreatestLemma
  <2>2. D = 1..d
    <3>1. d \in 1..m /\ \A i \in 1..d : i \in 1..m /\ i <= d
      OBVIOUS
    <3>2. \A i \in D : i \in 1..m /\ i <= d
      BY <2>1
    <3>3. \A i \in D : i \in 1..d
      BY <3>2
    <3>4. \A i \in 1..d : i \in D
      BY <3>1
    <3> QED
      BY <3>3, <3>4
  <2>3. Cardinality(1..d) = d
    BY FS_Interval
  <2> QED
    BY <2>1, <2>2, <2>3
<1> QED
  BY <1>1, <1>2

\* A new entry goes in front of its chain, and the others keep their order.
LEMMA InsertLemma ==
    ASSUME NEW t \in Seq(Entries), NEW e \in Entries, hash \in [Entries -> Nat],
           NoRepeats(t), Sorted(t), e \notin Members(t)
    PROVE  LET k == Insertion(t, e)
               u == Inserted(t, e)
           IN  /\ k \in 1..(Len(t) + 1)
               /\ \A i \in 1..Len(t) : i < k <=> hash[t[i]] < hash[e]
               /\ u \in Seq(Entries) /\ Len(u) = Len(t) + 1
               /\ \A i \in 1..(Len(t) + 1) :
                     u[i] = IF i < k THEN t[i] ELSE IF i = k THEN e ELSE t[i - 1]
               /\ Members(u) = Members(t) \cup {e}
               /\ NoRepeats(u) /\ Sorted(u)
<1> DEFINE D == {i \in 1..Len(t) : hash[t[i]] < hash[e]}
           k == Insertion(t, e)
           u == Inserted(t, e)
           m == Len(t)
<1>0. m \in Nat /\ hash[e] \in Nat /\ \A i \in 1..m : t[i] \in Entries /\ hash[t[i]] \in Nat
  OBVIOUS
<1>1. \A i \in D : \A j \in 1..m : j <= i => j \in D
  BY <1>0 DEF Sorted
<1>2. Cardinality(D) \in 0..m /\ D = 1..Cardinality(D)
  BY <1>0, <1>1, SegmentLemma
<1>3. k = Cardinality(D) + 1
  BY DEF Insertion
<1>4. k \in 1..(m + 1) /\ \A i \in 1..m : i < k <=> hash[t[i]] < hash[e]
  <2> HIDE DEF D
  <2>1. k \in 1..(m + 1) /\ \A i \in 1..m : i < k <=> i \in D
    BY <1>0, <1>2, <1>3
  <2> QED
    BY <2>1 DEF D
<1>5. u = [i \in 1..(m + 1) |-> IF i < k THEN t[i] ELSE IF i = k THEN e ELSE t[i - 1]]
  BY DEF Inserted
<1> HIDE DEF k, D
<1>6. \A i \in 1..(m + 1) :
         /\ i < k => i \in 1..m
         /\ i > k => i - 1 \in 1..m
  BY <1>0, <1>4
<1>7. u \in Seq(Entries) /\ Len(u) = m + 1
  <2>1. \A i \in 1..(m + 1) :
           (IF i < k THEN t[i] ELSE IF i = k THEN e ELSE t[i - 1]) \in Entries
    BY <1>0, <1>4, <1>6
  <2>2. u \in [1..(m + 1) -> Entries] /\ m + 1 \in Nat
    BY <1>0, <1>5, <2>1
  <2> QED
    BY <2>2
<1>8. \A i \in 1..(m + 1) : u[i] = IF i < k THEN t[i] ELSE IF i = k THEN e ELSE t[i - 1]
  BY <1>5
<1> HIDE DEF u, m
<1>9. Members(u) = Members(t) \cup {e}
  <2>1. ASSUME NEW c \in Members(u) PROVE c \in Members(t) \cup {e}
    <3>1. PICK i \in 1..(m + 1) : u[i] = c
      BY <1>7 DEF Members
    <3>2. c = e \/ \E j \in 1..m : c = t[j]
      <4>1. CASE i < k
        BY <1>6, <1>8, <3>1, <4>1
      <4>2. CASE i = k
        BY <1>0, <1>4, <1>8, <3>1, <4>2
      <4>3. CASE i > k
        <5>1. i - 1 \in 1..m /\ ~(i < k) /\ i # k
          BY <1>0, <1>4, <1>6, <4>3
        <5> QED
          BY <1>8, <3>1, <5>1
      <4> QED
        BY <1>0, <1>4, <4>1, <4>2, <4>3
    <3> QED
      BY <3>2 DEF Members, m
  <2>2. ASSUME NEW i \in 1..m PROVE t[i] \in Members(u)
    <3>1. CASE i < k
      <4>1. i \in 1..(m + 1) /\ u[i] = t[i]
        BY <1>0, <1>8, <3>1
      <4> QED
        BY <1>7, <4>1 DEF Members
    <3>2. CASE ~(i < k)
      <4>1. i + 1 \in 1..(m + 1) /\ ~(i + 1 < k) /\ i + 1 # k /\ (i + 1) - 1 = i
        BY <1>0, <1>4, <3>2
      <4>2. u[i + 1] = t[i]
        BY <1>8, <4>1
      <4> QED
        BY <1>7, <4>1, <4>2 DEF Members
    <3> QED
      BY <3>1, <3>2
  <2>3. e \in Members(u)
    <3>1. k \in 1..(m + 1) /\ u[k] = e
      BY <1>4, <1>8 DEF m
    <3> QED
      BY <1>7, <3>1 DEF Members
  <2> QED
    BY <2>1, <2>2, <2>3 DEF Members, m
<1>10. \A i \in 1..m : t[i] # e
  BY DEF Members, m
<1>11. NoRepeats(u)
  <2> SUFFICES ASSUME NEW i \in 1..(m + 1), NEW j \in 1..(m + 1), u[i] = u[j] PROVE i = j
    BY <1>7 DEF NoRepeats
  <2>1. \A a, b \in 1..m : t[a] = t[b] => a = b
    BY DEF NoRepeats, m
  <2> QED
    BY <1>0, <1>4, <1>6, <1>8, <1>10, <2>1
<1>12. Sorted(u)
  <2> DEFINE Placed(x) == /\ x < k => x \in 1..m /\ u[x] = t[x] /\ hash[t[x]] < hash[e]
                          /\ x = k => u[x] = e
                          /\ x > k => /\ x - 1 \in 1..m /\ u[x] = t[x - 1]
                                      /\ ~(hash[t[x - 1]] < hash[e])
  <2>0. ASSUME NEW x \in 1..(m + 1) PROVE Placed(x)
    <3>1. x \in Int /\ k \in Int
      BY <1>0, <1>4
    <3>2. CASE x < k
      <4>1. x \in 1..m
        BY <1>6, <3>2
      <4>2. hash[t[x]] < hash[e]
        BY <1>4, <3>2, <4>1
      <4>3. u[x] = t[x]
        BY <1>8, <3>2
      <4> QED
        BY <3>1, <3>2, <4>1, <4>2, <4>3
    <3>3. CASE x = k
      <4>1. ~(x < k) /\ ~(x > k)
        BY <3>1, <3>3
      <4>2. u[x] = e
        BY <1>8, <3>3, <4>1
      <4> QED
        BY <4>1, <4>2
    <3>4. CASE x > k
      <4>1. x - 1 \in 1..m
        BY <1>6, <3>4
      <4>2. ~(x < k) /\ x # k /\ ~(x - 1 < k)
        BY <3>1, <3>4
      <4>3. ~(hash[t[x - 1]] < hash[e])
        BY <1>4, <4>1, <4>2
      <4>4. u[x] = t[x - 1]
        BY <1>8, <4>2
      <4> QED
        BY <4>1, <4>2, <4>3, <4>4
    <3> QED
      BY <3>1, <3>2, <3>3, <3>4
  <2> SUFFICES ASSUME NEW i \in 1..(m + 1), NEW j \in 1..(m + 1), i <= j
               PROVE  hash[u[i]] <= hash[u[j]]
    BY <1>7 DEF Sorted
  <2>1. \A a, b \in 1..m : a <= b => hash[t[a]] <= hash[t[b]]
    BY DEF Sorted, m
  <2>2. Placed(i) /\ Placed(j)
    BY <2>0
  <2>3. i \in Int /\ j \in Int /\ k \in Int
    BY <1>0, <1>4
  <2>4. CASE i < k
    <3>1. i \in 1..m /\ u[i] = t[i] /\ hash[t[i]] \in Nat
      BY <1>0, <2>2, <2>4
    <3>2. CASE j < k
      <4>1. j \in 1..m /\ u[j] = t[j]
        BY <2>2, <3>2
      <4> QED
        BY <2>1, <3>1, <4>1
    <3>3. CASE j = k
      <4>1. u[j] = e /\ hash[t[i]] < hash[e]
        BY <2>2, <2>4, <3>3
      <4> QED
        BY <1>0, <3>1, <4>1
    <3>4. CASE j > k
      <4>1. u[j] = t[j - 1] /\ ~(hash[t[j - 1]] < hash[e]) /\ j - 1 \in 1..m
        BY <2>2, <3>4
      <4>2. hash[t[i]] < hash[e] /\ hash[t[j - 1]] \in Nat
        BY <1>0, <2>2, <2>4, <4>1
      <4> QED
        BY <1>0, <3>1, <4>1, <4>2
    <3> QED
      BY <2>3, <3>2, <3>3, <3>4
  <2>5. CASE i = k
    <3>1. u[i] = e
      BY <2>2, <2>5
    <3>2. CASE j = k
      BY <1>0, <2>5, <3>1, <3>2
    <3>3. CASE j > k
      <4>1. u[j] = t[j - 1] /\ ~(hash[t[j - 1]] < hash[e]) /\ hash[t[j - 1]] \in Nat
        BY <1>0, <2>2, <3>3
      <4> QED
        BY <1>0, <3>1, <4>1
    <3> QED
      BY <2>3, <2>5, <3>2, <3>3
  <2>6. CASE i > k
    <3>1. j > k /\ i - 1 <= j - 1
      BY <2>3, <2>6
    <3>2. u[i] = t[i - 1] /\ i - 1 \in 1..m
      BY <2>2, <2>6
    <3>3. u[j] = t[j - 1] /\ j - 1 \in 1..m
      BY <2>2, <3>1
    <3> QED
      BY <2>1, <3>1, <3>2, <3>3
  <2> QED
    BY <2>3, <2>4, <2>5, <2>6
<1> QED
  BY <1>4, <1>7, <1>8, <1>9, <1>11, <1>12 DEF k, u, m

\* An iterator that begins is on the first entry, and all entries are due.
LEMMA WalkBegin ==
    ASSUME NEW t \in Seq(Entries), NoRepeats(t)
    PROVE  Walk(First(t, NULL), Members(t), {}, t)
<1>1. Len(t) = 0 => Members(t) = {}
  BY DEF Members
<1>2. /\ First(t, NULL) = NULL <=> Len(t) = 0
      /\ First(t, NULL) # NULL => First(t, NULL) \in Members(t) /\ t[1] = First(t, NULL)
  BY FirstLemma, NullAssumption
<1>3. ASSUME First(t, NULL) # NULL, NEW i \in 1..Len(t), NEW j \in 1..Len(t),
             t[j] = First(t, NULL)
      PROVE  j <= i
  <2>1. j = 1
    BY <1>2, <1>3 DEF NoRepeats
  <2> QED
    BY <2>1
<1> QED
  BY <1>1, <1>2, <1>3 DEF Walk

\* It moves on: what it leaves is done.
LEMMA WalkVisit ==
    ASSUME NEW t \in Seq(Entries), NoRepeats(t), Sorted(t), hash \in [Entries -> Nat],
           NEW e \in Entries, NEW due \in SUBSET Entries, NEW done \in SUBSET Entries,
           Walk(e, due, done, t)
    PROVE  /\ Walk(NextIn(t, e, NULL), due \ {e}, done \cup {e}, t)
           /\ NextIn(t, e, NULL) \in Entries \cup {NULL}
<1> DEFINE k == Position(t, e)
           n == NextIn(t, e, NULL)
<1>0. e # NULL
  BY NullAssumption
<1>1. /\ e \in Members(t) /\ e \notin done /\ due \subseteq Members(t)
      /\ \A d \in done : hash[d] <= hash[e]
      /\ \A i, j \in 1..Len(t) : t[j] = e => (t[i] \in done => i < j) /\ (t[i] \in due => j <= i)
  BY <1>0 DEF Walk
<1>2. k \in 1..Len(t) /\ t[k] = e /\ \A i \in 1..Len(t) : t[i] = e => i = k
  BY <1>1, PositionLemma
<1>3. /\ n = NULL <=> k = Len(t)
      /\ n # NULL => n \in Members(t) /\ k + 1 \in 1..Len(t) /\ t[k + 1] = n
  BY <1>1, NextInLemma, NullAssumption
<1>4. n \in Entries \cup {NULL}
  BY <1>3, MembersLemma
<1> HIDE DEF k, n
<1>5. n = NULL => due \ {e} = {}
  <2> SUFFICES ASSUME n = NULL, NEW d \in due, d # e PROVE FALSE
    OBVIOUS
  <2>1. PICK i \in 1..Len(t) : t[i] = d
    BY <1>1 DEF Members
  <2>2. k <= i
    BY <1>1, <1>2, <2>1
  <2>3. i = k
    BY <1>2, <1>3, <2>2
  <2> QED
    BY <1>2, <2>1, <2>3
<1>6. ASSUME n # NULL
      PROVE  /\ n \notin done \cup {e}
             /\ \A d \in done \cup {e} : hash[d] <= hash[n]
             /\ \A i, j \in 1..Len(t) : t[j] = n =>
                   (t[i] \in done \cup {e} => i < j) /\ (t[i] \in due \ {e} => j <= i)
  <2>1. k + 1 \in 1..Len(t) /\ t[k + 1] = n /\ n \in Entries
    BY <1>3, <1>4, <1>6
  <2>2. \A j \in 1..Len(t) : t[j] = n => j = k + 1
    BY <2>1 DEF NoRepeats
  <2>3. n # e
    BY <1>2, <2>1
  <2>4. n \notin done
    BY <1>1, <1>2, <2>1
  <2>5. hash[e] <= hash[n]
    BY <1>2, <2>1 DEF Sorted
  <2>6. \A d \in done \cup {e} : hash[d] <= hash[n]
    <3> SUFFICES ASSUME NEW d \in done PROVE hash[d] <= hash[n]
      BY <2>5
    <3>1. hash[d] \in Nat /\ hash[e] \in Nat /\ hash[n] \in Nat /\ hash[d] <= hash[e]
      BY <1>1, <2>1
    <3> QED
      BY <2>5, <3>1
  <2>7. ASSUME NEW i \in 1..Len(t)
        PROVE  /\ t[i] \in done \cup {e} => i < k + 1
               /\ t[i] \in due \ {e} => k + 1 <= i
    <3>1. t[i] \in done => i < k
      BY <1>1, <1>2
    <3>2. t[i] = e => i = k
      BY <1>2
    <3>3. t[i] \in due => k <= i
      BY <1>1, <1>2
    <3>4. t[i] # e => i # k
      BY <1>2
    <3> QED
      BY <1>2, <3>1, <3>2, <3>3, <3>4
  <2> QED
    BY <2>2, <2>3, <2>4, <2>6, <2>7
<1>7. n # NULL => n \in Members(t)
  BY <1>3
<1>8. due \ {e} \subseteq Members(t)
  BY <1>1
<1> QED
  BY <1>4, <1>5, <1>6, <1>7, <1>8 DEF Walk, n

\* An entry that comes in its way: at the head of its chain, so behind the
\* iterator if it was visited before.
LEMMA WalkInsert ==
    ASSUME NEW t \in Seq(Entries), NEW e \in Entries, hash \in [Entries -> Nat],
           NoRepeats(t), Sorted(t), e \notin Members(t),
           NEW next, NEW due, NEW done \in SUBSET Entries, Walk(next, due, done, t)
    PROVE  Walk(next, due, done, Inserted(t, e))
<1> DEFINE k == Insertion(t, e)
           u == Inserted(t, e)
           m == Len(t)
<1>1. /\ k \in 1..(m + 1)
      /\ \A i \in 1..m : i < k <=> hash[t[i]] < hash[e]
      /\ u \in Seq(Entries) /\ Len(u) = m + 1
      /\ \A i \in 1..(m + 1) : u[i] = IF i < k THEN t[i] ELSE IF i = k THEN e ELSE t[i - 1]
      /\ Members(u) = Members(t) \cup {e}
  BY InsertLemma
<1>2. m \in Nat
  OBVIOUS
<1>3. \A i \in 1..m : t[i] \in Entries /\ t[i] # e
  BY DEF Members
<1> HIDE DEF k, u, m
<1>4. \A i \in 1..(m + 1) :
         \/ i < k /\ i \in 1..m /\ u[i] = t[i]
         \/ i = k /\ u[i] = e
         \/ i > k /\ i - 1 \in 1..m /\ u[i] = t[i - 1]
  BY <1>1, <1>2
<1>5. ASSUME next # NULL, NEW i \in 1..(m + 1), NEW j \in 1..(m + 1), u[j] = next
      PROVE  (u[i] \in done => i < j) /\ (u[i] \in due => j <= i)
  <2>1. /\ next \in Members(t) /\ due \subseteq Members(t)
        /\ \A d \in done : hash[d] <= hash[next]
        /\ \A a, b \in 1..m : t[b] = next => (t[a] \in done => a < b) /\ (t[a] \in due => b <= a)
    BY <1>5 DEF Walk, m
  <2>2. j # k
    BY <1>1, <1>5, <2>1
  <2>3. CASE i = k
    <3>1. u[i] = e /\ e \notin due
      BY <1>4, <2>1, <2>3, <1>1
    <3>2. ASSUME e \in done, j < k PROVE FALSE
      <4>1. j \in 1..m /\ t[j] = next
        BY <1>1, <1>2, <1>5, <3>2
      <4>2. hash[next] < hash[e]
        BY <1>1, <3>2, <4>1
      <4>3. hash[next] \in Nat /\ hash[e] \in Nat
        BY <1>3, <4>1
      <4> QED
        BY <2>1, <3>2, <4>2, <4>3
    <3> QED
      BY <1>1, <1>2, <2>2, <2>3, <3>1, <3>2
  <2>4. CASE i # k
    <3> DEFINE a == IF i < k THEN i ELSE i - 1
               b == IF j < k THEN j ELSE j - 1
    <3>1. a \in 1..m /\ u[i] = t[a]
      BY <1>1, <1>2, <1>4, <2>4
    <3>2. b \in 1..m /\ u[j] = t[b]
      BY <1>1, <1>2, <1>4, <2>2
    <3>3. (a < b => i < j) /\ (b <= a => j <= i)
      BY <1>1, <1>2, <2>2, <2>4
    <3> HIDE DEF a, b
    <3> QED
      BY <1>5, <2>1, <3>1, <3>2, <3>3
  <2> QED
    BY <2>3, <2>4
<1> QED
  BY <1>1, <1>5 DEF Walk, u

\* An entry that goes, other than the one that comes next.
LEMMA WalkUnlink ==
    ASSUME NEW t \in Seq(Entries), NoRepeats(t), NEW e \in Members(t),
           NEW next, NEW due, NEW done, next # e, Walk(next, due, done, t)
    PROVE  Walk(next, due \ {e}, done, Unlink(t, e))
<1> DEFINE k == Position(t, e)
           u == Unlink(t, e)
           m == Len(t)
<1>1. /\ u \in Seq(Entries) /\ Len(u) = m - 1 /\ Members(u) = Members(t) \ {e}
      /\ \A i \in 1..(m - 1) : u[i] = IF i < k THEN t[i] ELSE t[i + 1]
  BY UnlinkLemma
<1>2. m \in Nat /\ k \in 1..m
  BY PositionLemma
<1> HIDE DEF k, u, m
<1>3. ASSUME next # NULL, NEW i \in 1..(m - 1), NEW j \in 1..(m - 1), u[j] = next
      PROVE  (u[i] \in done => i < j) /\ (u[i] \in due \ {e} => j <= i)
  <2> DEFINE a == IF i < k THEN i ELSE i + 1
             b == IF j < k THEN j ELSE j + 1
  <2>1. a \in 1..m /\ b \in 1..m /\ u[i] = t[a] /\ u[j] = t[b]
    BY <1>1, <1>2
  <2>2. (a < b => i < j) /\ (b <= a => j <= i)
    BY <1>2
  <2> HIDE DEF a, b
  <2>3. (t[a] \in done => a < b) /\ (t[a] \in due => b <= a)
    BY <1>3, <2>1 DEF Walk, m
  <2> QED
    BY <2>1, <2>2, <2>3
<1> QED
  BY <1>1, <1>3 DEF Walk, u

-----------------------------------------------------------------------------
\* A name is a sequence.
LEMMA NameLemma ==
    ASSUME NEW n \in Names
    PROVE  /\ n \in Seq(Members(n)) /\ Len(n) \in Nat
           /\ SubSeq(n, 1, Len(n)) = n
           /\ Len(n) = 0 <=> n = ROOT
<1>1. n \in Seq(Members(n))
  BY NamesAssumption
<1> QED
  BY <1>1 DEF ROOT

\* What a name begins with is a name, and begins as the name does.
LEMMA PrefixLemma ==
    ASSUME NEW n \in Names, NEW i \in 0..Len(n)
    PROVE  /\ SubSeq(n, 1, i) \in Names
           /\ Len(SubSeq(n, 1, i)) = i
           /\ \A j \in 0..i : SubSeq(SubSeq(n, 1, i), 1, j) = SubSeq(n, 1, j)
<1>1. n \in Seq(Members(n)) /\ Len(n) \in Nat
  BY NameLemma
<1>2. SubSeq(n, 1, i) \in Names
  BY NamesAssumption
<1>3. SubSeq(n, 1, i) = [k \in 1..i |-> n[k]]
  BY <1>1
<1>4. Len(SubSeq(n, 1, i)) = i
  BY <1>1, <1>3
<1>5. ASSUME NEW j \in 0..i PROVE SubSeq(SubSeq(n, 1, i), 1, j) = SubSeq(n, 1, j)
  <2>1. SubSeq(n, 1, j) = [k \in 1..j |-> n[k]]
    BY <1>1
  <2>2. SubSeq(SubSeq(n, 1, i), 1, j) = [k \in 1..j |-> SubSeq(n, 1, i)[k]]
    BY <1>1, <1>3, <1>4
  <2>3. \A k \in 1..j : SubSeq(n, 1, i)[k] = n[k]
    BY <1>3
  <2> QED
    BY <2>1, <2>2, <2>3
<1> QED
  BY <1>2, <1>4, <1>5

\* The names above n are those it begins with, itself and the root left out.
LEMMA AboveLemma ==
    ASSUME NEW n \in Names
    PROVE  /\ Above(n) \subseteq Names
           /\ \A p \in Above(n) : Len(p) \in 1..(Len(n) - 1) /\ p = SubSeq(n, 1, Len(p))
           /\ \A i \in 1..(Len(n) - 1) : SubSeq(n, 1, i) \in Above(n)
           /\ \A p \in Above(n) : Above(p) \subseteq Above(n)
           /\ \A p \in Above(n) : \A q \in Above(n) : Len(q) < Len(p) => q \in Above(p)
<1>0. Len(n) \in Nat
  BY NameLemma
<1>1. ASSUME NEW p \in Above(n)
      PROVE  p \in Names /\ Len(p) \in 1..(Len(n) - 1) /\ p = SubSeq(n, 1, Len(p))
  <2>1. PICK i \in 1..(Len(n) - 1) : p = SubSeq(n, 1, i)
    BY DEF Above
  <2>2. i \in 0..Len(n)
    BY <1>0
  <2> QED
    BY <2>1, <2>2, PrefixLemma
<1>2. \A i \in 1..(Len(n) - 1) : SubSeq(n, 1, i) \in Above(n)
  BY DEF Above
<1>3. ASSUME NEW p \in Above(n), NEW j \in 1..(Len(p) - 1)
      PROVE  SubSeq(p, 1, j) = SubSeq(n, 1, j) /\ j \in 1..(Len(n) - 1)
  <2>1. Len(p) \in 0..Len(n) /\ p = SubSeq(n, 1, Len(p)) /\ j \in 0..Len(p) /\ j \in 1..(Len(n) - 1)
    BY <1>0, <1>1
  <2>2. \A m \in 0..Len(p) : SubSeq(SubSeq(n, 1, Len(p)), 1, m) = SubSeq(n, 1, m)
    BY <2>1, PrefixLemma
  <2> QED
    BY <2>1, <2>2
<1>4. ASSUME NEW p \in Above(n), NEW q \in Above(p) PROVE q \in Above(n)
  <2>1. PICK j \in 1..(Len(p) - 1) : q = SubSeq(p, 1, j)
    BY DEF Above
  <2> QED
    BY <1>2, <1>3, <2>1
<1>5. ASSUME NEW p \in Above(n), NEW q \in Above(n), Len(q) < Len(p) PROVE q \in Above(p)
  <2>1. Len(q) \in 1..(Len(p) - 1)
    BY <1>0, <1>1, <1>5
  <2>2. q = SubSeq(p, 1, Len(q))
    BY <1>1, <1>3, <2>1
  <2> QED
    BY <2>1, <2>2 DEF Above
<1> QED
  BY <1>1, <1>2, <1>4, <1>5

\* Kept finds the closest name above n that exists.
LEMMA KeptLemma ==
    ASSUME NEW n \in Names
    PROVE  /\ Kept(n) \in 0..Len(n)
           /\ n # ROOT => Kept(n) < Len(n)
           /\ Kept(n) > 0 => SubSeq(n, 1, Kept(n)) \in Above(n) \cap Present
           /\ \A p \in Above(n) \cap Present : Len(p) <= Kept(n)
<1> DEFINE have == {Len(p) : p \in Above(n) \cap Present}
<1>0. Len(n) \in Nat /\ (Len(n) = 0 <=> n = ROOT)
  BY NameLemma
<1>1. have \in SUBSET (0..Len(n)) /\ \A l \in have : l \in 1..(Len(n) - 1)
  BY <1>0, AboveLemma
<1>2. Kept(n) = IF have = {} THEN 0 ELSE CHOOSE l \in have : \A m \in have : m <= l
  BY DEF Kept
<1>3. CASE have = {}
  BY <1>0, <1>2, <1>3
<1>4. CASE have # {}
  <2>1. \E l \in have : \A m \in have : m <= l
    BY <1>0, <1>1, <1>4, GreatestLemma
  <2>2. Kept(n) \in have /\ \A m \in have : m <= Kept(n)
    BY <1>2, <1>4, <2>1
  <2>3. PICK p \in Above(n) \cap Present : Kept(n) = Len(p)
    BY <2>2
  <2>4. p = SubSeq(n, 1, Kept(n))
    BY <2>3, AboveLemma
  <2> QED
    BY <1>0, <1>1, <2>2, <2>3, <2>4
<1> QED
  BY <1>3, <1>4

\* What a write creates: the name, and the names above it that are longer than
\* the closest one that exists.
LEMMA CreatedLemma ==
    ASSUME NEW n \in Names
    PROVE  /\ Created(n) \subseteq {n} \cup Above(n) /\ n \in Created(n)
           /\ Created(n) \subseteq Names /\ IsFiniteSet(Created(n))
           /\ n = ROOT => Created(n) = {ROOT} /\ Cardinality(Created(n)) = 1
           /\ n # ROOT =>
                 /\ Created(n) = {SubSeq(n, 1, i) : i \in (Kept(n) + 1)..Len(n)}
                 /\ Cardinality(Created(n)) = Len(n) - Kept(n)
           /\ n \notin Present => Created(n) \cap Present = {}
<1>0. Len(n) \in Nat /\ (Len(n) = 0 <=> n = ROOT) /\ SubSeq(n, 1, Len(n)) = n
  BY NameLemma
<1>1. Created(n) \subseteq {n} \cup Above(n) /\ n \in Created(n)
  BY DEF Created
<1>2. Created(n) \subseteq Names
  BY <1>1, AboveLemma
<1>3. ASSUME n = ROOT PROVE Created(n) = {ROOT} /\ Cardinality(Created(n)) = 1
  <2>1. Above(n) = {}
    BY <1>0, <1>3, AboveLemma
  <2>2. Created(n) = {n}
    BY <1>1, <2>1
  <2> QED
    BY <1>3, <2>2, FS_Singleton
<1>4. ASSUME n # ROOT
      PROVE  /\ Created(n) = {SubSeq(n, 1, i) : i \in (Kept(n) + 1)..Len(n)}
             /\ Cardinality(Created(n)) = Len(n) - Kept(n)
             /\ IsFiniteSet(Created(n))
  <2> DEFINE I == (Kept(n) + 1)..Len(n)
             T == {SubSeq(n, 1, i) : i \in I}
             g == [i \in I |-> SubSeq(n, 1, i)]
  <2>1. Kept(n) \in Nat /\ Kept(n) < Len(n)
    BY <1>4, KeptLemma
  <2>2. ASSUME NEW i \in I
        PROVE  i > Kept(n) /\ i \in 0..Len(n) /\ (i # Len(n) => i \in 1..(Len(n) - 1))
    <3>1. i \in Int /\ Kept(n) + 1 <= i /\ i <= Len(n) /\ Len(n) \in Nat
      BY <1>0, <2>1
    <3> QED
      BY <2>1, <3>1
  <2>3. \A i \in I : Len(SubSeq(n, 1, i)) = i
    BY <2>2, PrefixLemma
  <2>4. Created(n) = T
    <3>1. ASSUME NEW p \in Created(n) PROVE p \in T
      <4>1. CASE p = n
        <5>1. Len(n) \in I
          BY <1>0, <2>1
        <5> QED
          BY <1>0, <4>1, <5>1
      <4>2. CASE p # n
        <5>1. p \in Above(n) /\ Len(p) > Kept(n)
          BY <4>2 DEF Created
        <5>2. Len(p) \in 1..(Len(n) - 1) /\ p = SubSeq(n, 1, Len(p))
          BY <5>1, AboveLemma
        <5>3. Len(p) \in I
          BY <1>0, <2>1, <5>1, <5>2
        <5> QED
          BY <5>2, <5>3
      <4> QED
        BY <4>1, <4>2
    <3>2. ASSUME NEW i \in I PROVE SubSeq(n, 1, i) \in Created(n)
      <4>1. CASE i = Len(n)
        BY <1>0, <1>1, <4>1
      <4>2. CASE i # Len(n)
        <5>1. i \in 1..(Len(n) - 1) /\ i > Kept(n)
          BY <2>2, <4>2
        <5>2. SubSeq(n, 1, i) \in Above(n)
          BY <5>1, AboveLemma
        <5> QED
          BY <2>3, <5>1, <5>2 DEF Created
      <4> QED
        BY <4>1, <4>2
    <3> QED
      BY <3>1, <3>2
  <2>5. IsFiniteSet(I) /\ Cardinality(I) = Len(n) - Kept(n)
    <3>1. Kept(n) + 1 \in Int /\ Len(n) \in Int /\ ~(Kept(n) + 1 > Len(n))
          /\ Len(n) - (Kept(n) + 1) + 1 = Len(n) - Kept(n)
      BY <1>0, <2>1
    <3> QED
      BY <3>1, FS_Interval
  <2>6. g \in [I -> T] /\ \A i, j \in I : g[i] = g[j] => i = j
    BY <2>3
  <2>7. \A t \in T : \E i \in I : g[i] = t
    OBVIOUS
  <2> HIDE DEF I, T, g
  <2>8. ExistsBijection(I, T)
    BY <2>6, <2>7, Fun_IsBij DEF ExistsBijection
  <2>9. IsFiniteSet(T) /\ Cardinality(T) = Cardinality(I)
    BY <2>5, <2>8, FS_Bijection
  <2> QED
    BY <2>4, <2>5, <2>9 DEF T, I
<1>5. IsFiniteSet(Created(n))
  BY <1>3, <1>4, FS_Singleton
<1>6. ASSUME n \notin Present, NEW p \in Created(n) PROVE p \notin Present
  <2>1. CASE p = n
    BY <1>6, <2>1
  <2>2. CASE p # n
    <3>1. p \in Above(n) /\ Len(p) > Kept(n)
      BY <2>2 DEF Created
    <3>2. Len(p) \in Nat /\ Kept(n) \in Nat
      BY <1>0, <3>1, AboveLemma, KeptLemma
    <3>3. p \in Present => Len(p) <= Kept(n)
      BY <3>1, KeptLemma
    <3> QED
      BY <3>1, <3>2, <3>3
  <2> QED
    BY <2>1, <2>2
<1> QED
  BY <1>1, <1>2, <1>3, <1>4, <1>5, <1>6

\* The events of a write: one for each name that it creates, outermost first.
LEMMA AddEventsLemma ==
    ASSUME NEW n \in Names
    PROVE  LET k == Cardinality(Created(n))
           IN  /\ k \in Nat \ {0}
               /\ \A i \in 1..k : SubSeq(n, 1, Len(n) - k + i) \in Created(n)
               /\ \A p \in Created(n) : \E i \in 1..k : p = SubSeq(n, 1, Len(n) - k + i)
               /\ AddEvents(n) = [i \in 1..k |-> Raise(SubSeq(n, 1, Len(n) - k + i), "add")]
               /\ AddEvents(n) \in Seq(Frames) /\ Len(AddEvents(n)) = k
               /\ Members(AddEvents(n)) = {Raise(p, "add") : p \in Created(n)}
<1> DEFINE k == Cardinality(Created(n))
<1>0. Len(n) \in Nat /\ (Len(n) = 0 <=> n = ROOT) /\ SubSeq(n, 1, Len(n)) = n
  BY NameLemma
<1>1. /\ k \in Nat \ {0}
      /\ \A i \in 1..k : SubSeq(n, 1, Len(n) - k + i) \in Created(n)
      /\ \A p \in Created(n) : \E i \in 1..k : p = SubSeq(n, 1, Len(n) - k + i)
  <2>1. CASE n = ROOT
    <3>1. k = 1 /\ Created(n) = {n}
      BY <2>1, CreatedLemma
    <3>2. \A i \in 1..k : i = 1 /\ Len(n) - k + i = Len(n)
      BY <1>0, <3>1
    <3>3. 1 \in 1..k
      BY <3>1
    <3> QED
      BY <1>0, <3>1, <3>2, <3>3
  <2>2. CASE n # ROOT
    <3>1. k = Len(n) - Kept(n) /\ Created(n) = {SubSeq(n, 1, i) : i \in (Kept(n) + 1)..Len(n)}
      BY <2>2, CreatedLemma
    <3>2. Kept(n) \in Nat /\ Kept(n) < Len(n)
      BY <2>2, KeptLemma
    <3>3. k \in Nat \ {0} /\ \A i \in 1..k : Len(n) - k + i \in (Kept(n) + 1)..Len(n)
      BY <1>0, <3>1, <3>2
    <3>4. \A j \in (Kept(n) + 1)..Len(n) : j - Kept(n) \in 1..k /\ Len(n) - k + (j - Kept(n)) = j
      BY <1>0, <3>1, <3>2
    <3> HIDE DEF k
    <3>5. ASSUME NEW p \in Created(n) PROVE \E i \in 1..k : p = SubSeq(n, 1, Len(n) - k + i)
      <4>1. PICK j \in (Kept(n) + 1)..Len(n) : p = SubSeq(n, 1, j)
        BY <3>1
      <4>2. j - Kept(n) \in 1..k /\ p = SubSeq(n, 1, Len(n) - k + (j - Kept(n)))
        BY <3>4, <4>1
      <4> QED
        BY <4>2
    <3> QED
      BY <3>1, <3>3, <3>5
  <2> QED
    BY <2>1, <2>2
<1>2. AddEvents(n) = [i \in 1..k |-> Raise(SubSeq(n, 1, Len(n) - k + i), "add")]
  BY DEF AddEvents
<1> HIDE DEF k
<1>3. \A p \in Created(n) : Raise(p, "add") \in Frames
  <2>1. ASSUME NEW p \in Created(n)
        PROVE  Raise(p, "add") \in [op : {"raise"}, name : Names, action : Actions]
    <3>1. p \in Names /\ "add" \in Actions
      BY CreatedLemma DEF Actions
    <3> QED
      BY <3>1 DEF Raise
  <2> QED
    BY <2>1 DEF Frames
<1>4. AddEvents(n) \in [1..k -> Frames]
  BY <1>1, <1>2, <1>3
<1>5. AddEvents(n) \in Seq(Frames) /\ Len(AddEvents(n)) = k
  <2>1. k \in Nat
    BY <1>1
  <2> QED
    BY <1>4, <2>1
<1>6. Members(AddEvents(n)) = {Raise(p, "add") : p \in Created(n)}
  <2>1. \A i \in 1..k : AddEvents(n)[i] = Raise(SubSeq(n, 1, Len(n) - k + i), "add")
    BY <1>2
  <2>2. Members(AddEvents(n)) = {AddEvents(n)[i] : i \in 1..k}
    BY <1>5 DEF Members
  <2>3. ASSUME NEW f \in Members(AddEvents(n)) PROVE f \in {Raise(p, "add") : p \in Created(n)}
    <3>1. PICK i \in 1..k : f = AddEvents(n)[i]
      BY <2>2
    <3> QED
      BY <1>1, <2>1, <3>1
  <2>4. ASSUME NEW p \in Created(n) PROVE Raise(p, "add") \in Members(AddEvents(n))
    <3>1. PICK i \in 1..k : p = SubSeq(n, 1, Len(n) - k + i)
      BY <1>1
    <3>2. AddEvents(n)[i] = Raise(p, "add")
      BY <2>1, <3>1
    <3> QED
      BY <2>2, <3>2
  <2> QED
    BY <2>3, <2>4
<1> QED
  BY <1>1, <1>2, <1>5, <1>6 DEF k

-----------------------------------------------------------------------------
\* A write with its missing parents: the table holds what it held and what was
\* created.
LEMMA WithLemma ==
    ASSUME NodesOK, NEW n \in Names, NEW node \in NodeRecords, NEW above,
           n # ROOT => above \in NodeRecords, nodes' = With(n, node, above)
    PROVE  NodesOK' /\ Present' = Present \cup Created(n)
<1>1. Present' = Present \cup Created(n)
  BY DEF With, Present
<1>2. Present \subseteq Names /\ IsFiniteSet(Present) /\ \A m \in Present : nodes[m] \in NodeRecords
  BY DEF NodesOK
<1>3. Created(n) \subseteq Names /\ IsFiniteSet(Created(n)) /\ (n = ROOT => Created(n) = {n})
  BY CreatedLemma
<1>4. IsFiniteSet(Present \cup Created(n))
  BY <1>2, <1>3, FS_Union
<1>5. \A m \in Present \cup Created(n) :
         nodes'[m] = IF m = n THEN node ELSE IF m \in Created(n) THEN above ELSE nodes[m]
  BY DEF With
<1>6. \A m \in Present \cup Created(n) : nodes'[m] \in NodeRecords
  BY <1>2, <1>3, <1>5
<1> QED
  BY <1>1, <1>2, <1>3, <1>4, <1>6 DEF NodesOK

\* The other writes: a change, and a deletion.
LEMMA WriteLemma ==
    ASSUME NodesOK,
           \/ nodes' = nodes
           \/ \E n \in Present, p \in NodeRecords : nodes' = [nodes EXCEPT ![n] = p]
           \/ \E D : nodes' = [m \in Present \ D |-> nodes[m]]
    PROVE  NodesOK'
<1>1. CASE nodes' = nodes
  BY <1>1 DEF NodesOK, Present
<1>2. ASSUME NEW n \in Present, NEW p \in NodeRecords, nodes' = [nodes EXCEPT ![n] = p]
      PROVE  NodesOK'
  <2>1. Present' = Present
    BY <1>2 DEF Present
  <2>2. \A m \in Present : nodes'[m] = IF m = n THEN p ELSE nodes[m]
    BY <1>2 DEF Present
  <2> QED
    BY <2>1, <2>2 DEF NodesOK
<1>3. ASSUME NEW D, nodes' = [m \in Present \ D |-> nodes[m]] PROVE NodesOK'
  <2>1. Present' = Present \ D
    BY <1>3 DEF Present
  <2>2. IsFiniteSet(Present \ D)
    BY FS_Subset DEF NodesOK
  <2>3. \A m \in Present \ D : nodes'[m] = nodes[m]
    BY <1>3
  <2> QED
    BY <2>1, <2>2, <2>3 DEF NodesOK
<1> QED
  BY <1>1, <1>2, <1>3

\* The frames of the kinds that walk and that raise.
LEMMA FrameLemma ==
    ASSUME NEW f \in Frames
    PROVE  /\ f.op = "level" =>
                 /\ f \in [op : {"level"}, name : Names, action : Actions, level : Names,
                          next : Entries \cup {NULL}, due : SUBSET Entries, done : SUBSET Entries]
                 /\ f.name \in Names /\ f.action \in Actions /\ f.level \in Names
                 /\ f.next \in Entries \cup {NULL}
                 /\ f.due \subseteq Entries /\ f.done \subseteq Entries
           /\ f.op = "raise" =>
                 /\ f \in [op : {"raise"}, name : Names, action : Actions]
                 /\ f.name \in Names /\ f.action \in Actions
           /\ f.op = "reinsert" => f = Reinsert
           /\ f.op \in {"raise", "level", "call", "reinsert"}
<1>1. CASE f \in [op : {"raise"}, name : Names, action : Actions]
  BY <1>1
<1>2. CASE f \in [op : {"level"}, name : Names, action : Actions, level : Names,
                  next : Entries \cup {NULL}, due : SUBSET Entries, done : SUBSET Entries]
  BY <1>2
<1>3. CASE f \in [op : {"call"}, cb : {w.cb : w \in Watches}]
  BY <1>3
<1>4. CASE f \in [op : {"reinsert"}]
  BY <1>4 DEF Reinsert
<1> QED
  BY <1>1, <1>2, <1>3, <1>4 DEF Frames

\* The frames that a write puts on the stack.
LEMMA RaiseLemma ==
    ASSUME NEW n \in Names, NEW a \in Actions
    PROVE  /\ Raise(n, a) \in Frames /\ <<Raise(n, a)>> \in Seq(Frames)
           /\ Members(<<Raise(n, a)>>) = {Raise(n, a)} /\ Raise(n, a).op = "raise"
           /\ Reinsert \in Frames /\ <<Reinsert>> \in Seq(Frames)
           /\ Members(<<Reinsert>>) = {Reinsert} /\ Reinsert.op = "reinsert"
<1>1. Raise(n, a) \in Frames /\ Raise(n, a).op = "raise"
  BY DEF Raise, Frames
<1>2. Reinsert \in Frames /\ Reinsert.op = "reinsert"
  BY DEF Reinsert, Frames
<1> HIDE DEF Raise, Reinsert
<1>3. \A f \in Frames : <<f>> \in Seq(Frames) /\ Members(<<f>>) = {f}
  BY DEF Members
<1> QED
  BY <1>1, <1>2, <1>3

\* Frames that are put on the stack, or in the place of its first one.
LEMMA PushLemma ==
    ASSUME stack \in Seq(Frames), NEW s \in Seq(Frames), NEW r,
           r = stack \/ (stack # <<>> /\ r = Tail(stack)), stack' = s \o r
    PROVE  /\ stack' \in Seq(Frames)
           /\ Members(stack') = Members(s) \cup Members(r)
           /\ Members(r) \subseteq Members(stack) /\ r \in Seq(Frames)
           /\ stack # <<>> => Members(stack) = {Head(stack)} \cup Members(Tail(stack))
<1>1. stack # <<>> => /\ Tail(stack) \in Seq(Frames)
                      /\ Members(stack) = {Head(stack)} \cup Members(Tail(stack))
  BY RestLemma
<1>2. r \in Seq(Frames) /\ Members(r) \subseteq Members(stack)
  BY <1>1
<1>3. s \o r \in Seq(Frames) /\ Members(s \o r) = Members(s) \cup Members(r)
  BY <1>2, ConcatLemma
<1> QED
  BY <1>1, <1>2, <1>3

\* A step that changes no table of callbacks, and puts frames on the stack.
LEMMA QuietStep ==
    ASSUME IterInv, NodesOK', view' \subseteq Names, UNCHANGED <<tables, hash>>,
           NEW s \in Seq(Frames), NEW r,
           r = stack \/ (stack # <<>> /\ r = Tail(stack)), stack' = s \o r,
           \A f \in Members(s) : WalkInv(f)
    PROVE  IterInv'
<1> USE DEF IterInv
<1>1. /\ stack' \in Seq(Frames) /\ Members(stack') = Members(s) \cup Members(r)
      /\ Members(r) \subseteq Members(stack)
  BY PushLemma
<1>2. \A f : WalkInv(f)' <=> WalkInv(f)
  BY DEF WalkInv, Walk
<1>3. \A f \in Members(stack') : WalkInv(f)'
  BY <1>1, <1>2
<1>4. TablesOK' /\ TablesInv'
  BY DEF TablesOK, TablesInv, Sorted
<1> QED
  BY <1>1, <1>3, <1>4

\* The writes.
LEMMA WriteIter ==
    ASSUME IterInv, NEW n \in Names,
           \/ \E p \in Payloads : Add(n, p) \/ AddFails(n, p) \/ Change(n, p)
           \/ Delete(n) \/ Fin(n) \/ ReinsertRoot
    PROVE  IterInv'
<1> USE DEF IterInv
<1>0. UNCHANGED <<tables, hash, view>>
  BY DEF Add, AddFails, Change, Delete, Fin, ReinsertRoot
<1>1. ASSUME NEW s \in Seq(Frames), \A f \in Members(s) : f.op # "level", NEW r,
             r = stack \/ (stack # <<>> /\ r = Tail(stack)), stack' = s \o r, NodesOK'
      PROVE  IterInv'
  BY <1>0, <1>1, QuietStep DEF WalkInv
<1>2. <<>> \in Seq(Frames) /\ Members(<<>>) = {} /\ (<<>> \o stack = stack)
  BY DEF Members
<1>3. ASSUME NEW m \in Names
      PROVE  AddEvents(m) \in Seq(Frames) /\ \A f \in Members(AddEvents(m)) : f.op # "level"
  <2>1. \A q : Raise(q, "add").op # "level"
    BY DEF Raise
  <2> QED
    BY <2>1, AddEventsLemma
<1>4. /\ [kind |-> "registry", val |-> 0] \in NodeRecords
      /\ [kind |-> "freed", val |-> 0] \in NodeRecords
      /\ Payloads \subseteq NodeRecords
  BY PayloadAssumption DEF NodeRecords, Kinds
<1>5. ASSUME NEW p \in Payloads, Add(n, p) PROVE IterInv'
  <2>1. NodesOK'
    BY <1>4, <1>5, WithLemma DEF Add
  <2>2. stack' = AddEvents(n) \o stack
    BY <1>5 DEF Add
  <2> QED
    BY <1>1, <1>3, <2>1, <2>2
<1>6. ASSUME NEW p \in Payloads, AddFails(n, p) PROVE IterInv'
  <2> DEFINE freed == [kind |-> "freed", val |-> 0]
             node  == IF p.kind = "array" THEN p ELSE freed
  <2>1. node \in NodeRecords /\ freed \in NodeRecords
    BY <1>4
  <2>2. nodes' = With(n, node, freed)
    BY <1>6 DEF AddFails
  <2>3. NodesOK'
    <3> HIDE DEF node, freed
    <3> QED
      BY <2>1, <2>2, WithLemma
  <2>4. stack' = <<>> \o stack
    BY <1>2, <1>6 DEF AddFails
  <2> QED
    BY <1>1, <1>2, <2>3, <2>4
<1>7. ASSUME NEW p \in Payloads, Change(n, p) PROVE IterInv'
  <2>1. NodesOK'
    BY <1>4, <1>7, WriteLemma DEF Change
  <2>2. stack' = <<Raise(n, "change")>> \o stack
    BY <1>7 DEF Change
  <2>3. "change" \in Actions
    BY DEF Actions
  <2> QED
    BY <1>1, <2>1, <2>2, <2>3, RaiseLemma
<1>8. CASE Delete(n)
  <2> DEFINE s == <<Raise(n, "delete")>> \o (IF n = ROOT THEN <<Reinsert>> ELSE <<>>)
  <2>1. NodesOK'
    BY <1>8, WriteLemma DEF Delete
  <2>2. "delete" \in Actions
    BY DEF Actions
  <2>3. s \in Seq(Frames) /\ Members(s) \subseteq {Raise(n, "delete"), Reinsert}
    <3> DEFINE e == <<Raise(n, "delete")>>
               i == IF n = ROOT THEN <<Reinsert>> ELSE <<>>
    <3>1. e \in Seq(Frames) /\ Members(e) = {Raise(n, "delete")}
      BY <2>2, RaiseLemma
    <3>2. i \in Seq(Frames) /\ Members(i) \subseteq {Reinsert}
      BY <1>2, <2>2, RaiseLemma
    <3> HIDE DEF e, i
    <3>3. e \o i \in Seq(Frames) /\ Members(e \o i) = Members(e) \cup Members(i)
      BY <3>1, <3>2, ConcatLemma
    <3> QED
      BY <3>1, <3>2, <3>3 DEF e, i
  <2>4. stack' = s \o stack
    <3>1. stack' = <<Raise(n, "delete")>> \o (IF n = ROOT THEN <<Reinsert>> ELSE <<>>) \o stack
      BY <1>8 DEF Delete
    <3> QED
      BY <3>1
  <2>5. \A f \in Members(s) : f.op # "level"
    BY <2>2, <2>3, RaiseLemma
  <2> HIDE DEF s
  <2> QED
    BY <1>1, <2>1, <2>3, <2>4, <2>5
<1>9. CASE Fin(n)
  <2>1. NodesOK'
    BY <1>9, WriteLemma DEF Fin
  <2>2. stack' = <<Raise(n, "final")>> \o stack
    BY <1>9 DEF Fin
  <2>3. "final" \in Actions
    BY DEF Actions
  <2> QED
    BY <1>1, <2>1, <2>2, <2>3, RaiseLemma
<1>10. CASE ReinsertRoot
  <2>1. stack # <<>> /\ Tail(stack) \in Seq(Frames)
    BY <1>10, RestLemma DEF ReinsertRoot, Top
  <2>2. CASE ROOT \in Present
    <3>1. NodesOK'
      BY <1>10, <2>2, WriteLemma DEF ReinsertRoot
    <3>2. stack' = <<>> \o Tail(stack)
      BY <1>10, <2>1, <2>2 DEF ReinsertRoot
    <3> QED
      BY <1>1, <1>2, <2>1, <3>1, <3>2
  <2>3. CASE ROOT \notin Present
    <3>0. ROOT \in Names
      BY NamesAssumption
    <3>1. NodesOK'
      BY <1>4, <1>10, <2>3, <3>0, WithLemma DEF ReinsertRoot
    <3>2. stack' = AddEvents(ROOT) \o Tail(stack)
      BY <1>10, <2>3 DEF ReinsertRoot
    <3> QED
      BY <1>1, <1>3, <2>1, <3>0, <3>1, <3>2
  <2> QED
    BY <2>2, <2>3
<1> QED
  BY <1>5, <1>6, <1>7, <1>8, <1>9, <1>10

\* A level that is entered.
LEMMA LevelLemma ==
    ASSUME IterInv, NEW n \in Names, NEW a \in Actions, NEW l \in Names
    PROVE  Level(n, a, l) \in Frames /\ WalkInv(Level(n, a, l))
<1> DEFINE t == tables[l]
<1>1. t \in Seq(Entries) /\ NoRepeats(t)
  BY DEF IterInv, TablesOK, TablesInv
<1> HIDE DEF t
<1>2. Walk(First(t, NULL), Members(t), {}, t) /\ Members(t) \subseteq Entries
  BY <1>1, WalkBegin, MembersLemma
<1>3. First(t, NULL) \in Entries \cup {NULL}
  BY <1>1, <1>2, FirstLemma, NullAssumption
<1>4. Level(n, a, l) = [op |-> "level", name |-> n, action |-> a, level |-> l,
                        next |-> First(t, NULL), due |-> Members(t), done |-> {}]
  BY DEF Level, t
<1>5. Level(n, a, l) \in [op : {"level"}, name : Names, action : Actions, level : Names,
                          next : Entries \cup {NULL}, due : SUBSET Entries, done : SUBSET Entries]
  BY <1>2, <1>3, <1>4
<1>6. WalkInv(Level(n, a, l))
  BY <1>2, <1>4 DEF WalkInv, t
<1> QED
  BY <1>5, <1>6 DEF Frames

\* The iterator moves on and is where it should be.
LEMMA VisitLemma ==
    ASSUME IterInv, NEW f \in Members(stack), f.op = "level", f.next # NULL,
           NEW g, g = [f EXCEPT !.next = NextIn(tables[f.level], f.next, NULL),
                                !.due = @ \ {f.next}, !.done = @ \cup {f.next}]
    PROVE  /\ g \in Frames /\ WalkInv(g) /\ f \in Frames /\ f.next \in Entries
           /\ g.op = "level" /\ g.name = f.name /\ g.action = f.action /\ g.level = f.level
           /\ g.due = f.due \ {f.next} /\ g.next = NextIn(tables[f.level], f.next, NULL)
<1> DEFINE t == tables[f.level]
           e == f.next
<1>0. f \in Frames /\ WalkInv(f)
  BY MembersLemma DEF IterInv
<1>1. /\ f \in [op : {"level"}, name : Names, action : Actions, level : Names,
                next : Entries \cup {NULL}, due : SUBSET Entries, done : SUBSET Entries]
      /\ f.level \in Names /\ e \in Entries /\ f.due \subseteq Entries /\ f.done \subseteq Entries
  BY <1>0, FrameLemma
<1>2. t \in Seq(Entries) /\ NoRepeats(t) /\ Sorted(t) /\ hash \in [Entries -> Nat]
  BY <1>1 DEF IterInv, TablesOK, TablesInv
<1>3. Walk(e, f.due, f.done, t)
  BY <1>0 DEF WalkInv
<1> HIDE DEF t, e
<1>4. /\ Walk(NextIn(t, e, NULL), f.due \ {e}, f.done \cup {e}, t)
      /\ NextIn(t, e, NULL) \in Entries \cup {NULL}
  BY <1>1, <1>2, <1>3, WalkVisit
<1>5. g = [f EXCEPT !.next = NextIn(t, e, NULL), !.due = @ \ {e}, !.done = @ \cup {e}]
  BY DEF t, e
<1>6. g \in [op : {"level"}, name : Names, action : Actions, level : Names,
             next : Entries \cup {NULL}, due : SUBSET Entries, done : SUBSET Entries]
  <2> DEFINE x == NextIn(t, e, NULL)
             y == f.due \ {e}
             z == f.done \cup {e}
  <2>1. x \in Entries \cup {NULL} /\ y \in SUBSET Entries /\ z \in SUBSET Entries
    BY <1>1, <1>4
  <2>2. g = [f EXCEPT !.next = x, !.due = y, !.done = z]
    BY <1>1, <1>5
  <2> HIDE DEF x, y, z
  <2> QED
    BY <1>1, <2>1, <2>2
<1>7. /\ g.op = "level" /\ g.name = f.name /\ g.action = f.action /\ g.level = f.level
      /\ g.next = NextIn(t, e, NULL) /\ g.due = f.due \ {e} /\ g.done = f.done \cup {e}
  BY <1>1, <1>5
<1>8. WalkInv(g)
  BY <1>4, <1>7 DEF WalkInv, t
<1> QED
  BY <1>0, <1>1, <1>6, <1>7, <1>8 DEF Frames, t, e

\* The events.
LEMMA EventIter ==
    ASSUME IterInv, BeginEvent \/ Visit \/ Climb \/ Return
    PROVE  IterInv'
<1> USE DEF IterInv
<1> DEFINE f == Head(stack)
<1>0. stack # <<>> /\ UNCHANGED <<nodes, tables, hash>>
  BY DEF BeginEvent, Visit, Climb, Return, Top
<1>1. f \in Frames /\ f \in Members(stack) /\ Tail(stack) \in Seq(Frames)
  BY <1>0, RestLemma
<1>2. NodesOK'
  BY <1>0, WriteLemma
<1>3. \A g \in Frames : <<g>> \in Seq(Frames) /\ Members(<<g>>) = {g}
  BY DEF Members
<1>4. <<>> \in Seq(Frames) /\ Members(<<>>) = {} /\ (<<>> \o Tail(stack) = Tail(stack))
  BY <1>1 DEF Members
<1>5. CASE BeginEvent
  <2>1. f.op = "raise" /\ view' = view
    BY <1>5 DEF BeginEvent, Top
  <2>2. f.name \in Names /\ f.action \in Actions
    BY <1>1, <2>1, FrameLemma
  <2> DEFINE lv == Level(f.name, f.action, f.name)
  <2>3. lv \in Frames /\ WalkInv(lv)
    BY <2>2, LevelLemma
  <2>4. stack' = <<>> \o Tail(stack) \/ stack' = <<lv>> \o Tail(stack)
    BY <1>5 DEF BeginEvent
  <2> HIDE DEF lv
  <2>5. CASE stack' = <<>> \o Tail(stack)
    BY <1>0, <1>2, <1>4, <2>1, <2>5, QuietStep
  <2>6. CASE stack' = <<lv>> \o Tail(stack)
    BY <1>0, <1>2, <1>3, <2>1, <2>3, <2>6, QuietStep
  <2> QED
    BY <2>4, <2>5, <2>6
<1>6. CASE Climb
  <2>1. f.op = "level" /\ view' = view
    BY <1>6 DEF Climb, Top
  <2>2. f.name \in Names /\ f.action \in Actions /\ f.level \in Names
    BY <1>1, <2>1, FrameLemma
  <2> DEFINE lv == Level(f.name, f.action, Parent(f.level))
  <2>3. f.level # ROOT => Parent(f.level) \in Names
    <3>1. Len(f.level) \in Nat /\ (Len(f.level) = 0 <=> f.level = ROOT)
      BY <2>2, NameLemma
    <3>2. f.level # ROOT => Len(f.level) - 1 \in 0..Len(f.level)
      BY <3>1
    <3> QED
      BY <2>2, <3>2, PrefixLemma DEF Parent
  <2>4. f.level # ROOT => lv \in Frames /\ WalkInv(lv)
    BY <2>2, <2>3, LevelLemma
  <2>5. \/ stack' = <<>> \o Tail(stack)
        \/ f.level # ROOT /\ stack' = <<lv>> \o Tail(stack)
    BY <1>6 DEF Climb
  <2> HIDE DEF lv
  <2>6. CASE stack' = <<>> \o Tail(stack)
    BY <1>0, <1>2, <1>4, <2>1, <2>6, QuietStep
  <2>7. CASE f.level # ROOT /\ stack' = <<lv>> \o Tail(stack)
    BY <1>0, <1>2, <1>3, <2>1, <2>4, <2>7, QuietStep
  <2> QED
    BY <2>5, <2>6, <2>7
<1>7. CASE Return
  <2>1. stack' = <<>> \o Tail(stack) /\ view' = view
    BY <1>4, <1>7 DEF Return
  <2> QED
    BY <1>0, <1>2, <1>4, <2>1, QuietStep
<1>8. CASE Visit
  <2> DEFINE e == f.next
             g == [f EXCEPT !.next = NextIn(tables[f.level], e, NULL),
                            !.due  = @ \ {e}, !.done = @ \cup {e}]
  <2>1. f.op = "level" /\ e # NULL
    BY <1>8 DEF Visit, Top
  <2>2. g \in Frames /\ WalkInv(g) /\ e \in Entries
    BY <1>1, <2>1, VisitLemma
  <2>3. /\ \/ e.cb # SEND_EVENT /\ stack' = <<Call(e), g>> \o Tail(stack)
           \/ stack' = <<g>> \o Tail(stack)
        /\ view' = view \/ view' = Seen(f.name, f.action)
    BY <1>8 DEF Visit
  <2> HIDE DEF g, e
  <2>4. view' \subseteq Names
    <3>1. f.name \in Names
      BY <1>1, <2>1, FrameLemma
    <3> QED
      BY <2>3, <3>1 DEF Seen
  <2>5. CASE stack' = <<g>> \o Tail(stack)
    BY <1>0, <1>1, <1>2, <1>3, <2>2, <2>4, <2>5, QuietStep
  <2>6. CASE e.cb # SEND_EVENT /\ stack' = <<Call(e), g>> \o Tail(stack)
    <3>1. e.cb \in {w.cb : w \in Watches}
      <4>1. PICK w \in Watches : e = [cb |-> w.cb, action |-> w.action]
        BY <2>2, <2>6 DEF Entries
      <4> QED
        BY <4>1
    <3>2. Call(e) \in Frames /\ Call(e).op = "call"
      BY <3>1 DEF Call, Frames
    <3>3. \A h \in Frames : <<h, g>> \in Seq(Frames) /\ Members(<<h, g>>) = {h, g}
      BY <2>2 DEF Members
    <3>4. <<Call(e), g>> \in Seq(Frames) /\ Members(<<Call(e), g>>) = {Call(e), g}
      BY <3>2, <3>3
    <3>5. WalkInv(Call(e))
      BY <3>2 DEF WalkInv
    <3> QED
      BY <1>0, <1>1, <1>2, <2>2, <2>4, <2>6, <3>4, <3>5, QuietStep
  <2> QED
    BY <2>3, <2>5, <2>6
<1> QED
  BY <1>5, <1>6, <1>7, <1>8

\* nr_reg_register_callback, also from a callback.
LEMMA RegisterIter ==
    ASSUME IterInv, NEW n \in Names, NEW e \in Entries, Register(n, e)
    PROVE  IterInv'
<1> USE DEF IterInv
<1> DEFINE t == tables[n]
<1>1. /\ e \notin Members(t) /\ tables' = [tables EXCEPT ![n] = Inserted(t, e)]
      /\ UNCHANGED <<nodes, hash, stack, view>>
  BY DEF Register
<1>2. t \in Seq(Entries) /\ NoRepeats(t) /\ Sorted(t) /\ hash \in [Entries -> Nat]
  BY DEF TablesOK, TablesInv
<1>3. Inserted(t, e) \in Seq(Entries) /\ NoRepeats(Inserted(t, e)) /\ Sorted(Inserted(t, e))
  BY <1>1, <1>2, InsertLemma
<1>4. \A m \in Names : tables'[m] = IF m = n THEN Inserted(t, e) ELSE tables[m]
  BY <1>1 DEF TablesOK
<1>5. TablesOK'
  BY <1>1, <1>3 DEF TablesOK
<1>6. TablesInv'
  BY <1>1, <1>3, <1>4 DEF TablesInv, Sorted
<1>7. NodesOK'
  BY <1>1, WriteLemma
<1>8. ASSUME NEW f \in Members(stack) PROVE WalkInv(f)'
  <2>0. f \in Frames /\ WalkInv(f)
    BY MembersLemma
  <2> SUFFICES ASSUME f.op = "level" PROVE Walk(f.next, f.due, f.done, tables[f.level])'
    BY DEF WalkInv
  <2>1. f.level \in Names /\ f.done \in SUBSET Entries /\ Walk(f.next, f.due, f.done, tables[f.level])
    BY <2>0, FrameLemma DEF WalkInv
  <2>2. Walk(f.next, f.due, f.done, tables'[f.level])
    <3>1. CASE f.level = n
      <4>1. Walk(f.next, f.due, f.done, Inserted(t, e))
        BY <1>1, <1>2, <2>1, <3>1, WalkInsert
      <4> QED
        BY <1>4, <2>1, <3>1, <4>1
    <3>2. CASE f.level # n
      BY <1>4, <2>1, <3>2
    <3> QED
      BY <3>1, <3>2
  <2> QED
    BY <1>1, <2>2 DEF Walk
<1> QED
  BY <1>1, <1>5, <1>6, <1>7, <1>8

\* nr_reg_unregister_callback, also from a callback.
LEMMA UnregisterIter ==
    ASSUME IterInv, NEW n \in Names, NEW e \in Entries, Unregister(n, e)
    PROVE  IterInv'
<1> USE DEF IterInv
<1> DEFINE t == tables[n]
           D(f) == IF f.op = "level" /\ f.level = n THEN [f EXCEPT !.due = @ \ {e}] ELSE f
<1>1. /\ e \in Members(t) /\ ~Awaited(n, e) /\ tables' = [tables EXCEPT ![n] = Unlink(t, e)]
      /\ stack' = [i \in 1..Len(stack) |-> D(stack[i])]
      /\ UNCHANGED <<nodes, hash, view>>
  BY DEF Unregister
<1>2. t \in Seq(Entries) /\ NoRepeats(t) /\ Sorted(t) /\ hash \in [Entries -> Nat]
  BY DEF TablesOK, TablesInv
<1>3. /\ Unlink(t, e) \in Seq(Entries) /\ NoRepeats(Unlink(t, e)) /\ Len(Unlink(t, e)) = Len(t) - 1
      /\ \A i \in 1..(Len(t) - 1) : Unlink(t, e)[i] = IF i < Position(t, e) THEN t[i] ELSE t[i + 1]
  <2> HIDE DEF t
  <2> QED
    BY <1>1, <1>2, UnlinkLemma
<1>4. Sorted(Unlink(t, e))
  <2> DEFINE u == Unlink(t, e)
             k == Position(t, e)
             m == Len(t)
  <2> SUFFICES ASSUME NEW i \in 1..(m - 1), NEW j \in 1..(m - 1), i <= j
               PROVE  hash[u[i]] <= hash[u[j]]
    BY <1>3 DEF Sorted
  <2>1. m \in Nat /\ k \in 1..m
    BY <1>1, <1>2, PositionLemma
  <2> DEFINE a == IF i < k THEN i ELSE i + 1
             b == IF j < k THEN j ELSE j + 1
  <2>2. u[i] = t[a] /\ u[j] = t[b]
    BY <1>3
  <2> HIDE DEF u, k, m
  <2>3. a \in 1..m /\ b \in 1..m /\ a <= b
    BY <2>1
  <2> HIDE DEF a, b
  <2> QED
    BY <1>2, <2>2, <2>3 DEF Sorted, m
<1>5. \A m \in Names : tables'[m] = IF m = n THEN Unlink(t, e) ELSE tables[m]
  BY <1>1 DEF TablesOK
<1>6. TablesOK'
  BY <1>1, <1>3 DEF TablesOK
<1>7. TablesInv'
  <2>1. hash' = hash
    BY <1>1
  <2>2. ASSUME NEW m \in Names PROVE NoRepeats(tables'[m]) /\ Sorted(tables'[m])
    <3>1. CASE m = n
      <4>1. tables'[m] = Unlink(t, e)
        BY <1>5, <3>1
      <4> QED
        BY <1>3, <1>4, <4>1
    <3>2. CASE m # n
      <4>1. tables'[m] = tables[m] /\ NoRepeats(tables[m]) /\ Sorted(tables[m])
        BY <1>5, <3>2 DEF TablesInv
      <4> QED
        BY <4>1
    <3> QED
      BY <3>1, <3>2
  <2> QED
    BY <2>1, <2>2 DEF TablesInv, Sorted
<1>8. NodesOK'
  BY <1>1, WriteLemma
<1>9. ASSUME NEW f \in Members(stack) PROVE D(f) \in Frames /\ WalkInv(D(f))'
  <2>0. f \in Frames /\ WalkInv(f)
    BY MembersLemma
  <2>1. CASE f.op # "level"
    BY <2>0, <2>1 DEF WalkInv
  <2>2. CASE f.op = "level"
    <3>1. /\ f \in [op : {"level"}, name : Names, action : Actions, level : Names,
                    next : Entries \cup {NULL}, due : SUBSET Entries, done : SUBSET Entries]
          /\ f.level \in Names /\ f.due \subseteq Entries
      BY <2>0, <2>2, FrameLemma
    <3>2. Walk(f.next, f.due, f.done, tables[f.level])
      BY <2>0, <2>2 DEF WalkInv
    <3>3. CASE f.level # n
      <4>1. tables'[f.level] = tables[f.level] /\ D(f) = f
        BY <1>5, <3>1, <3>3
      <4>2. Walk(f.next, f.due, f.done, tables[f.level])'
        BY <1>1, <3>2, <4>1 DEF Walk
      <4> QED
        BY <2>0, <4>1, <4>2 DEF WalkInv
    <3>4. CASE f.level = n
      <4> DEFINE y == f.due \ {e}
                 g == [f EXCEPT !.due = y]
      <4>1. y \in SUBSET Entries /\ D(f) = g
        BY <2>2, <3>1, <3>4
      <4>2. f.next # e
        <5>1. PICK i \in 1..Len(stack) : stack[i] = f
          BY DEF Members
        <5> QED
          BY <1>1, <2>2, <3>4, <5>1 DEF Awaited
      <4>3. Walk(f.next, y, f.done, Unlink(t, e))
        BY <1>1, <1>2, <3>2, <3>4, <4>2, WalkUnlink
      <4> HIDE DEF y
      <4>4. /\ g \in [op : {"level"}, name : Names, action : Actions, level : Names,
                      next : Entries \cup {NULL}, due : SUBSET Entries, done : SUBSET Entries]
            /\ g.next = f.next /\ g.due = y /\ g.done = f.done /\ g.level = f.level
        BY <3>1, <4>1
      <4> HIDE DEF g
      <4>5. Walk(g.next, g.due, g.done, tables'[g.level])
        BY <1>5, <3>1, <3>4, <4>3, <4>4
      <4>6. WalkInv(g)'
        BY <1>1, <4>5 DEF WalkInv, Walk
      <4> QED
        BY <4>1, <4>4, <4>6 DEF Frames
    <3> QED
      BY <3>3, <3>4
  <2> QED
    BY <2>1, <2>2
<1>10. \A i \in 1..Len(stack) : stack[i] \in Members(stack)
  BY DEF Members
<1>11. stack' \in Seq(Frames) /\ Len(stack') = Len(stack)
  <2>1. Len(stack) \in Nat /\ stack' \in [1..Len(stack) -> Frames]
    <3> HIDE DEF D
    <3> QED
      BY <1>1, <1>9, <1>10
  <2> QED
    BY <2>1
<1>12. ASSUME NEW f \in Members(stack') PROVE WalkInv(f)'
  <2>1. PICK i \in 1..Len(stack) : f = stack'[i]
    BY <1>11 DEF Members
  <2>2. f = D(stack[i])
    BY <1>1, <2>1
  <2> HIDE DEF D
  <2> QED
    BY <1>9, <1>10, <2>2
<1> QED
  BY <1>1, <1>6, <1>7, <1>8, <1>11, <1>12

-----------------------------------------------------------------------------
\* The table of the root when registryd has started.
LEMMA RootTable ==
    ASSUME Init
    PROVE  /\ hash \in [Entries -> Nat]
           /\ tables[ROOT] \in Seq(Entries) /\ NoRepeats(tables[ROOT]) /\ Sorted(tables[ROOT])
           /\ Members(tables[ROOT]) = [cb : {SEND_EVENT}, action : Actions]
<1> DEFINE Ent(a) == [cb |-> SEND_EVENT, action |-> a]
           ea == Ent("add")
           ec == Ent("change")
           ed == Ent("delete")
           ef == Ent("final")
<1>1. hash \in [Entries -> Nat]
  BY HashAssumption DEF Init
<1>2. {ea, ec, ed, ef} = [cb : {SEND_EVENT}, action : Actions]
  <2>1. \A a \in Actions : Ent(a) \in [cb : {SEND_EVENT}, action : Actions]
    OBVIOUS
  <2>2. \A x \in [cb : {SEND_EVENT}, action : Actions] : x.action \in Actions /\ x = Ent(x.action)
    OBVIOUS
  <2>3. Actions = {"add", "change", "delete", "final"}
    BY DEF Actions
  <2> DEFINE R == [cb : {SEND_EVENT}, action : Actions]
  <2>4. ea \in R /\ ec \in R /\ ed \in R /\ ef \in R
    BY <2>1, <2>3
  <2>5. ASSUME NEW x \in R PROVE x \in {ea, ec, ed, ef}
    <3>1. PICK a \in Actions : x = Ent(a)
      BY <2>2
    <3> QED
      BY <2>3, <3>1
  <2> HIDE DEF R, ea, ec, ed, ef
  <2>6. {ea, ec, ed, ef} = R
    BY <2>4, <2>5
  <2> QED
    BY <2>6 DEF R
<1>3. /\ ea \in Entries /\ ec \in Entries /\ ed \in Entries /\ ef \in Entries
      /\ ec # ea /\ ed \notin {ea, ec} /\ ef \notin {ea, ec, ed}
  BY <1>2 DEF Entries
<1>4. tables[ROOT] = Inserted(Inserted(Inserted(<<ea>>, ec), ed), ef)
  BY NamesAssumption DEF Init
<1> HIDE DEF ea, ec, ed, ef
<1> DEFINE t0 == <<ea>>
<1>5. t0 \in Seq(Entries) /\ NoRepeats(t0) /\ Members(t0) = {ea}
  BY <1>3 DEF NoRepeats, Members
<1>6. Sorted(t0)
  BY <1>1, <1>3 DEF Sorted
<1> HIDE DEF t0
<1> DEFINE t1 == Inserted(t0, ec)
           t2 == Inserted(t1, ed)
           t3 == Inserted(t2, ef)
<1>7. t1 \in Seq(Entries) /\ NoRepeats(t1) /\ Sorted(t1) /\ Members(t1) = {ea, ec}
  BY <1>1, <1>3, <1>5, <1>6, InsertLemma
<1> HIDE DEF t1
<1>8. t2 \in Seq(Entries) /\ NoRepeats(t2) /\ Sorted(t2) /\ Members(t2) = {ea, ec, ed}
  BY <1>1, <1>3, <1>7, InsertLemma
<1> HIDE DEF t2
<1>9. t3 \in Seq(Entries) /\ NoRepeats(t3) /\ Sorted(t3) /\ Members(t3) = {ea, ec, ed, ef}
  BY <1>1, <1>3, <1>8, InsertLemma
<1>10. tables[ROOT] = t3
  BY <1>4 DEF t0, t1, t2
<1> QED
  BY <1>1, <1>2, <1>9, <1>10

\* The invariant holds initially.
LEMMA InitIter == Init => IterInv
<1> SUFFICES ASSUME Init PROVE IterInv
  OBVIOUS
<1>0. ROOT \in Names
  BY NamesAssumption
<1>1. /\ hash \in [Entries -> Nat]
      /\ tables[ROOT] \in Seq(Entries) /\ NoRepeats(tables[ROOT]) /\ Sorted(tables[ROOT])
  BY RootTable
<1>2. <<>> \in Seq(Entries) /\ NoRepeats(<<>>) /\ Sorted(<<>>)
  BY DEF NoRepeats, Sorted
<1>3. /\ tables = [n \in Names |-> tables[n]]
      /\ \A n \in Names : n # ROOT => tables[n] = <<>>
  BY DEF Init
<1>4. TablesOK
  BY <1>1, <1>2, <1>3 DEF TablesOK
<1>5. TablesInv
  BY <1>1, <1>2, <1>3 DEF TablesInv
<1>6. NodesOK
  <2>1. Present = {ROOT} /\ nodes[ROOT] = [kind |-> "registry", val |-> 0]
    BY DEF Init, Present
  <2>2. IsFiniteSet({ROOT})
    BY FS_Singleton
  <2> QED
    BY <1>0, <2>1, <2>2 DEF NodesOK, NodeRecords, Kinds
<1>7. stack \in Seq(Frames) /\ Members(stack) = {}
  BY DEF Init, Members
<1> QED
  BY <1>0, <1>4, <1>5, <1>6, <1>7 DEF IterInv, Init

\* Every step keeps it.
LEMMA NextIter == IterInv /\ [Next]_vars => IterInv'
<1> SUFFICES ASSUME IterInv, [Next]_vars PROVE IterInv'
  OBVIOUS
<1>1. ASSUME NEW w \in Watches,
             LET e == [cb |-> w.cb, action |-> w.action]
             IN  Register(w.name, e) \/ Unregister(w.name, e)
      PROVE  IterInv'
  <2> DEFINE e == [cb |-> w.cb, action |-> w.action]
  <2>1. e \in Entries /\ w.name \in Names
    BY WatchAssumption DEF Entries
  <2> QED
    BY <1>1, <2>1, RegisterIter, UnregisterIter
<1>2. CASE ReinsertRoot
  BY <1>2, NamesAssumption, WriteIter
<1>3. CASE UNCHANGED vars
  BY <1>3 DEF vars, IterInv, NodesOK, Present, TablesOK, TablesInv, Sorted, WalkInv, Walk
<1>4. CASE ClientStep
  BY <1>1, <1>4, WriteIter DEF ClientStep
<1>5. CASE CallStep
  BY <1>2, <1>5, EventIter DEF CallStep
<1> QED
  BY <1>3, <1>4, <1>5 DEF Next

\* The invariant holds in every reachable state.
THEOREM IterInvariance == Spec => []IterInv
BY InitIter, NextIter, PTL DEF Spec

\* Type correctness: of the tree, the tables of callbacks, the calls in progress and
\* what the watcher has seen.
THEOREM RegistryTypeCorrect == Spec => []TypeOK
<1>1. IterInv => TypeOK
  <2> SUFFICES ASSUME IterInv PROVE TypeOK
    OBVIOUS
  <2>1. \A i \in 1..Len(stack) : stack[i] \in Frames
    BY DEF IterInv
  <2> QED
    BY <2>1 DEF IterInv, TypeOK, NodesOK, NodeRecords, TablesOK
<1> QED
  BY <1>1, IterInvariance, PTL

\* Callbacks may register and unregister while an event walks over their table: none
\* is visited twice, none that stays is skipped, and the iterator's pointer to the
\* next entry is always to one that is in the table.
THEOREM ToldOnce == Spec => []EachToldOnce
<1>1. IterInv => EachToldOnce
  <2> SUFFICES ASSUME IterInv, NEW i \in 1..Len(stack), stack[i].op = "level"
               PROVE  /\ stack[i].next \notin stack[i].done
                      /\ stack[i].next # NULL =>
                            stack[i].next \in Members(tables[stack[i].level])
                      /\ stack[i].next = NULL => stack[i].due = {}
    BY DEF EachToldOnce
  <2> DEFINE f == stack[i]
  <2>1. f \in Members(stack) /\ f \in Frames
    BY DEF IterInv, Members
  <2>2. Walk(f.next, f.due, f.done, tables[f.level])
    BY <2>1 DEF IterInv, WalkInv
  <2>3. f.done \subseteq Entries
    BY <2>1, FrameLemma
  <2>4. f.next = NULL => f.next \notin f.done
    BY <2>3, NullAssumption
  <2> QED
    BY <2>2, <2>4 DEF Walk
<1> QED
  BY <1>1, IterInvariance, PTL

-----------------------------------------------------------------------------
(***************************************************************************)
(* The tree.                                                                *)
(***************************************************************************)
\* The names that get_children copies fit into the array that count_children
\* sizes, and they are the children.
THEOREM ChildrenListed == Spec => []ListsChildren
<1>1. IterInv => ListsChildren
  <2> SUFFICES ASSUME IterInv, NEW p \in Present
               PROVE  ChildRegistries(p) = {n \in Present \ {ROOT} : Parent(n) = p}
    BY DEF ListsChildren
  <2>0. Present \subseteq Names /\ IsFiniteSet(Present) /\ p \in Names
    BY DEF IterInv, NodesOK
  <2> DEFINE C == {n \in Present \cap Under(p) :
                      IF p = ROOT THEN n # ROOT ELSE Len(n) = Len(p) + 1}
             F == Found(p)
  <2>1. Len(p) \in Nat /\ (Len(p) = 0 <=> p = ROOT)
    BY <2>0, NameLemma
  <2>2. F \subseteq Present /\ \A n \in F : n \in Names /\ n \in Under(p) /\ Len(n) = Len(p) + 1
    BY <2>0 DEF Found
  <2>3. \A n \in F : n # ROOT
    <3>1. \A n \in F : Len(n) # 0
      BY <2>1, <2>2
    <3> QED
      BY <2>2, <3>1, NameLemma
  <2>4. F \subseteq C
    BY <2>2, <2>3
  <2>5. IsFiniteSet(C)
    BY <2>0, FS_Subset
  <2>6. Cardinality(F) <= Cardinality(C) /\ IsFiniteSet(F)
    <3> HIDE DEF F, C
    <3> QED
      BY <2>4, <2>5, FS_Subset
  <2>7. Cardinality(F) \in Nat /\ Cardinality(C) \in Nat
    BY <2>5, <2>6, FS_CardinalityType
  <2>8. CountChildren(p) = Cardinality(C)
    BY DEF CountChildren
  <2>9. ChildRegistries(p) = F
    <3> HIDE DEF C, F
    <3>1. ~(Cardinality(F) >= Cardinality(C) + 1)
      BY <2>6, <2>7
    <3> QED
      BY <2>8, <3>1 DEF ChildRegistries, GetChildren, F
  <2>10. ASSUME NEW n \in Present, n # ROOT, Parent(n) = p PROVE n \in F
    <3>1. n \in Names /\ Len(n) \in Nat /\ Len(n) # 0
      BY <2>0, <2>10, NameLemma
    <3>2. Len(n) - 1 \in 0..Len(n)
      BY <3>1
    <3>3. Len(p) = Len(n) - 1
      BY <2>10, <3>1, <3>2, PrefixLemma DEF Parent
    <3>4. Len(n) >= Len(p) /\ Len(n) = Len(p) + 1
      BY <3>1, <3>3
    <3>5. SubSeq(n, 1, Len(p)) = p
      BY <2>10, <3>3 DEF Parent
    <3> QED
      BY <3>1, <3>4, <3>5 DEF Found, Under
  <2>11. ASSUME NEW n \in F PROVE Parent(n) = p
    <3>1. Len(n) - 1 = Len(p)
      BY <2>1, <2>2
    <3>2. SubSeq(n, 1, Len(p)) = p
      BY <2>2 DEF Under
    <3> QED
      BY <3>1, <3>2 DEF Parent
  <2> HIDE DEF F
  <2> QED
    BY <2>2, <2>3, <2>9, <2>10, <2>11
<1> QED
  BY <1>1, IterInvariance, PTL

\* Every name above one that exists exists, and the root does or comes back.
Closed == \A n \in Present : Above(n) \subseteq Present
Promised == \E f \in Members(stack) : f.op = "reinsert"
TreeInv == Closed /\ (ROOT \in Present \/ Promised)

\* A write closes the gap between the name and the closest one that exists.
LEMMA GrowTree ==
    ASSUME NodesOK, Closed, NEW n \in Names, Present' = Present \cup Created(n)
    PROVE  Closed'
<1>1. ASSUME NEW m \in Created(n), NEW q \in Above(m) PROVE q \in Present \cup Created(n)
  <2>1. m \in {n} \cup Above(n) /\ m \in Names
    BY CreatedLemma
  <2>2. q \in Above(n)
    BY <2>1, AboveLemma
  <2>3. CASE Len(q) > Kept(n)
    BY <2>2, <2>3 DEF Created
  <2>4. CASE ~(Len(q) > Kept(n))
    <3>1. Len(q) \in Nat \ {0} /\ Len(n) \in Nat /\ Kept(n) \in Nat /\ q = SubSeq(n, 1, Len(q))
      BY <2>2, AboveLemma, KeptLemma, NameLemma
    <3>2. Kept(n) > 0 /\ Len(q) <= Kept(n)
      BY <2>4, <3>1
    <3> DEFINE p == SubSeq(n, 1, Kept(n))
    <3>3. p \in Above(n) /\ p \in Present
      BY <3>2, KeptLemma
    <3>4. Len(p) = Kept(n)
      BY KeptLemma, PrefixLemma
    <3> HIDE DEF p
    <3>5. CASE Len(q) = Kept(n)
      BY <3>1, <3>3, <3>5 DEF p
    <3>6. CASE Len(q) # Kept(n)
      <4>1. Len(q) < Len(p)
        BY <3>1, <3>2, <3>4, <3>6
      <4>2. q \in Above(p)
        BY <2>2, <3>3, <4>1, AboveLemma
      <4> QED
        BY <3>3, <4>2 DEF Closed
    <3> QED
      BY <3>5, <3>6
  <2> QED
    BY <2>3, <2>4
<1> QED
  BY <1>1 DEF Closed

\* A deletion takes what is below the name with it.
LEMMA PruneTree ==
    ASSUME NodesOK, Closed, NEW n \in Names, Present' = Present \ Under(n)
    PROVE  Closed' /\ (n # ROOT => ROOT \notin Under(n))
<1>0. Present \subseteq Names /\ Len(n) \in Nat
  BY NameLemma DEF NodesOK
<1>1. ASSUME NEW m \in Present, m \notin Under(n), NEW q \in Above(m)
      PROVE  q \in Present \ Under(n)
  <2>1. q \in Present
    BY DEF Closed
  <2>2. m \in Names /\ Len(m) \in Nat /\ Len(q) \in 1..(Len(m) - 1) /\ q = SubSeq(m, 1, Len(q))
    BY <1>0, AboveLemma, NameLemma
  <2>3. ASSUME q \in Under(n) PROVE FALSE
    <3>1. Len(q) >= Len(n) /\ SubSeq(q, 1, Len(n)) = n
      BY <2>3 DEF Under
    <3>2. Len(q) \in 0..Len(m) /\ Len(n) \in 0..Len(q) /\ Len(m) >= Len(n)
      BY <1>0, <2>2, <3>1
    <3>3. SubSeq(SubSeq(m, 1, Len(q)), 1, Len(n)) = SubSeq(m, 1, Len(n))
      BY <2>2, <3>2, PrefixLemma
    <3>4. SubSeq(m, 1, Len(n)) = n
      BY <2>2, <3>1, <3>3
    <3> QED
      BY <1>1, <2>2, <3>2, <3>4 DEF Under
  <2> QED
    BY <2>1, <2>3
<1>2. ASSUME n # ROOT, ROOT \in Under(n) PROVE FALSE
  <2>1. Len(ROOT) >= Len(n) /\ Len(ROOT) = 0
    BY <1>2 DEF Under, ROOT
  <2>2. Len(n) = 0
    BY <1>0, <2>1
  <2> QED
    BY <1>2, <2>2, NameLemma
<1> QED
  BY <1>1, <1>2 DEF Closed

\* Every step keeps the tree.
LEMMA NextTree == IterInv /\ TreeInv /\ [Next]_vars => TreeInv'
<1> SUFFICES ASSUME IterInv, TreeInv, [Next]_vars PROVE TreeInv'
  OBVIOUS
<1> USE DEF TreeInv
<1>0. NodesOK /\ stack \in Seq(Frames)
  BY DEF IterInv
<1>p. ASSUME NEW s \in Seq(Frames), stack' = s \o stack, Promised PROVE Promised'
  BY <1>0, <1>p, PushLemma DEF Promised
<1>e. <<>> \in Seq(Frames) /\ (<<>> \o stack = stack)
  BY <1>0
<1>1. ASSUME NEW n \in Names, NEW p \in Payloads, Add(n, p) \/ AddFails(n, p) PROVE TreeInv'
  <2>1. Present' = Present \cup Created(n)
    BY <1>1 DEF Add, AddFails, With, Present
  <2>2. stack' = AddEvents(n) \o stack \/ stack' = <<>> \o stack
    BY <1>1, <1>e DEF Add, AddFails
  <2>3. Promised => Promised'
    BY <1>p, <1>e, <2>2, AddEventsLemma
  <2> QED
    BY <1>0, <2>1, <2>3, GrowTree
<1>2. ASSUME NEW n \in Names, NEW p \in Payloads, Change(n, p) PROVE TreeInv'
  <2>1. Present' = Present
    BY <1>2 DEF Change, Present
  <2>2. stack' = <<Raise(n, "change")>> \o stack /\ "change" \in Actions
    BY <1>2 DEF Change, Actions
  <2>3. Promised => Promised'
    BY <1>p, <2>2, RaiseLemma
  <2> QED
    BY <2>1, <2>3 DEF Closed
<1>3. ASSUME NEW n \in Names, Delete(n) PROVE TreeInv'
  <2> DEFINE e == <<Raise(n, "delete")>>
             i == IF n = ROOT THEN <<Reinsert>> ELSE <<>>
  <2>1. Present' = Present \ Under(n)
    BY <1>3 DEF Delete, Deleted, Present
  <2>2. Closed' /\ (n # ROOT => ROOT \notin Under(n))
    BY <1>0, <2>1, PruneTree
  <2>3. e \in Seq(Frames) /\ i \in Seq(Frames) /\ (n = ROOT => Reinsert \in Members(i))
        /\ Reinsert.op = "reinsert"
    <3>1. "delete" \in Actions
      BY DEF Actions
    <3> QED
      BY <1>e, <3>1, RaiseLemma
  <2>4. stack' = e \o i \o stack
    BY <1>3 DEF Delete
  <2> HIDE DEF e, i
  <2>5. e \o i \in Seq(Frames) /\ Members(e \o i) = Members(e) \cup Members(i)
    BY <2>3, ConcatLemma
  <2> DEFINE s == e \o i
  <2>6. s \in Seq(Frames) /\ stack' = s \o stack /\ Members(s) = Members(e) \cup Members(i)
    BY <2>4, <2>5
  <2> HIDE DEF s
  <2>7. Members(stack') = Members(s) \cup Members(stack)
    BY <1>0, <2>6, PushLemma
  <2>8. n = ROOT => Promised'
    BY <2>3, <2>6, <2>7 DEF Promised
  <2>9. Promised => Promised'
    BY <2>7 DEF Promised
  <2> QED
    BY <2>1, <2>2, <2>8, <2>9
<1>4. ASSUME NEW n \in Names, Fin(n) PROVE TreeInv'
  <2>1. Present' = Present
    BY <1>4 DEF Fin, Present
  <2>2. stack' = <<Raise(n, "final")>> \o stack /\ "final" \in Actions
    BY <1>4 DEF Fin, Actions
  <2>3. Promised => Promised'
    BY <1>p, <2>2, RaiseLemma
  <2> QED
    BY <2>1, <2>3 DEF Closed
<1>5. CASE ReinsertRoot
  <2>1. CASE ROOT \in Present
    BY <1>5, <2>1 DEF ReinsertRoot, Closed, Present
  <2>2. CASE ROOT \notin Present
    <3>1. Present' = Present \cup Created(ROOT)
      BY <1>5, <2>2 DEF ReinsertRoot, With, Present
    <3>2. ROOT \in Names /\ ROOT \in Created(ROOT)
      BY NamesAssumption, CreatedLemma
    <3> QED
      BY <1>0, <3>1, <3>2, GrowTree
  <2> QED
    BY <2>1, <2>2
<1>6. ASSUME NEW n, NEW e, Register(n, e) PROVE TreeInv'
  BY <1>6 DEF Register, Closed, Present, Promised
<1>7. ASSUME NEW n, NEW e, Unregister(n, e) PROVE TreeInv'
  <2>1. /\ Present' = Present
        /\ stack' = [i \in 1..Len(stack) |->
                       IF stack[i].op = "level" /\ stack[i].level = n
                       THEN [stack[i] EXCEPT !.due = @ \ {e}] ELSE stack[i]]
    BY <1>7 DEF Unregister, Present
  <2>2. Len(stack) \in Nat /\ Len(stack') = Len(stack)
    BY <1>0, <2>1
  <2>3. ASSUME Promised PROVE Promised'
    <3>1. PICK i \in 1..Len(stack) : stack[i].op = "reinsert"
      BY <2>3 DEF Promised, Members
    <3>2. stack'[i] = stack[i] /\ i \in 1..Len(stack')
      BY <2>1, <2>2, <3>1
    <3> QED
      BY <3>1, <3>2 DEF Promised, Members
  <2> QED
    BY <2>1, <2>3 DEF Closed
<1>8. CASE BeginEvent \/ Visit \/ Climb \/ Return
  <2>1. Present' = Present /\ stack # <<>> /\ Head(stack).op # "reinsert"
    BY <1>8 DEF BeginEvent, Visit, Climb, Return, Top, Present
  <2>2. Tail(stack) \in Seq(Frames) /\ Members(stack) = {Head(stack)} \cup Members(Tail(stack))
    BY <1>0, <2>1, RestLemma
  <2>3. \E s : stack' = s \o Tail(stack) /\ (s = <<>> \/ \E f : s = <<f>> \/ \E g : s = <<f, g>>)
    <3>1. CASE Return
      BY <2>2, <3>1 DEF Return
    <3>2. CASE BeginEvent
      BY <3>2 DEF BeginEvent
    <3>3. CASE Climb
      BY <3>3 DEF Climb
    <3>4. CASE Visit
      BY <3>4 DEF Visit
    <3> QED
      BY <1>8, <3>1, <3>2, <3>3, <3>4
  <2>4. PICK s : stack' = s \o Tail(stack) /\ (s = <<>> \/ \E f : s = <<f>> \/ \E g : s = <<f, g>>)
    BY <2>3
  <2>5. Members(Tail(stack)) \subseteq Members(stack')
    <3> DEFINE S == Frames \cup Members(s)
    <3>0. s = <<>> \/ (\E f : s = <<f>>) \/ (\E f, g : s = <<f, g>>)
      BY <2>4
    <3>1. s \in Seq(S)
      <4>1. CASE s = <<>>
        BY <4>1
      <4>2. ASSUME NEW f, s = <<f>> PROVE s \in Seq(S)
        <5>1. f \in S
          BY <4>2 DEF Members
        <5> HIDE DEF S
        <5> QED
          BY <4>2, <5>1
      <4>3. ASSUME NEW f, NEW g, s = <<f, g>> PROVE s \in Seq(S)
        <5>1. f \in S /\ g \in S
          BY <4>3 DEF Members
        <5> HIDE DEF S
        <5> QED
          BY <4>3, <5>1
      <4> QED
        BY <3>0, <4>1, <4>2, <4>3
    <3>3. Tail(stack) \in Seq(S)
      <4>1. Frames \subseteq S
        OBVIOUS
      <4> HIDE DEF S
      <4> QED
        BY <2>2, <4>1
    <3> HIDE DEF S
    <3>2. Members(s \o Tail(stack)) = Members(s) \cup Members(Tail(stack))
      <4>1. \A p, q \in Seq(S) : Members(p \o q) = Members(p) \cup Members(q)
        BY ConcatLemma
      <4> QED
        BY <3>1, <3>3, <4>1
    <3> QED
      BY <2>4, <3>2
  <2>6. Promised => Promised'
    BY <2>1, <2>2, <2>5 DEF Promised
  <2> QED
    BY <2>1, <2>6 DEF Closed
<1>9. CASE UNCHANGED vars
  BY <1>9 DEF vars, Closed, Present, Promised
<1> QED
  BY <1>1, <1>2, <1>3, <1>4, <1>5, <1>6, <1>7, <1>8, <1>9 DEF Next, ClientStep, CallStep

\* The tree is there when registryd has started.
LEMMA InitTree == Init => TreeInv
<1> SUFFICES ASSUME Init PROVE TreeInv
  OBVIOUS
<1>1. Present = {ROOT}
  BY DEF Init, Present
<1>2. Above(ROOT) = {}
  <2>1. ROOT \in Names /\ Len(ROOT) = 0
    BY NamesAssumption DEF ROOT
  <2> QED
    BY <2>1, AboveLemma
<1> QED
  BY <1>1, <1>2 DEF TreeInv, Closed

\* Whatever callbacks write in the middle of a write, no name exists without the
\* names above it, and the root is missing only while its deletion is under way.
THEOREM AncestorsExist == Spec => []AncestorsPresent
<1>1. TreeInv => AncestorsPresent
  BY DEF TreeInv, Closed, Promised, Members, AncestorsPresent
<1> QED
  BY <1>1, InitTree, NextTree, IterInvariance, PTL DEF Spec

-----------------------------------------------------------------------------
(***************************************************************************)
(* The watcher of the root, when callbacks do not write.                    *)
(***************************************************************************)
Event(f)   == f.op \in {"raise", "level"}
Adds(f)    == Event(f) /\ f.action = "add"
Deletes(f) == Event(f) /\ f.action = "delete"

\* registryd's own entry for an action; an event that has not come to it yet.
Sender(a) == [cb |-> SEND_EVENT, action |-> a]
Untold(f) == \/ f.op = "raise"
             \/ f.op = "level" /\ (f.level # ROOT \/ Sender(f.action) \in f.due)
Pending(n, a) == \E f \in Members(stack) : Untold(f) /\ f.name = n /\ f.action = a

\* What a failed call left below a leaf; a name that the watcher knows of, or will.
Lost(n)  == \E q \in Above(n) : Leaf(q)
Known(n) == n \in view \/ Lost(n) \/ Pending(n, "add")

SendersInv ==
    \A n \in Names, a \in Actions : Sender(a) \in Members(tables[n]) <=> n = ROOT

\* The events of a write are raised outermost first, and the root is inserted again
\* after them.
Before(f, g) ==
    /\ f.op # "reinsert"
    /\ Adds(f) /\ Adds(g) => Len(f.name) < Len(g.name)
Ordered(s) == \A i, j \in 1..Len(s) : i < j => Before(s[i], s[j])

\* An event says what is true while it is raised.
TrueInv ==
    \A f \in Members(stack) :
        /\ Adds(f) => f.name \in Present
        /\ Deletes(f) => Under(f.name) \cap Present = {}

\* The watcher has seen what exists and what it will be told has gone,
\* and what exists it knows of.
SeenInv ==
    /\ \A n \in view : n \in Present \/ \E m \in Names : Pending(m, "delete") /\ n \in Under(m)
    /\ \A n \in Present : Known(n)

WatchInv == SendersInv /\ Ordered(stack) /\ TrueInv /\ SeenInv

\* The order of a stack is that of its first frame before the others, and of those.
LEMMA OrderLemma ==
    ASSUME NEW s \in Seq(Frames), s # <<>>
    PROVE  Ordered(s) <=> Ordered(Tail(s)) /\ \A g \in Members(Tail(s)) : Before(Head(s), g)
<1> DEFINE t == Tail(s)
           m == Len(t)
<1>1. /\ m \in Nat /\ Len(s) = m + 1 /\ Head(s) = s[1]
      /\ \A i \in 1..m : t[i] = s[i + 1]
  <2>1. t \in Seq(Frames) /\ m = Len(s) - 1 /\ \A i \in 1..(Len(s) - 1) : t[i] = s[i + 1]
    BY RestLemma
  <2>2. Head(s) = s[1] /\ Len(s) \in Nat \ {0}
    OBVIOUS
  <2> QED
    BY <2>1, <2>2
<1>2. Members(t) = {t[i] : i \in 1..m}
  BY DEF Members
<1> HIDE DEF t, m
<1>3. ASSUME Ordered(s) PROVE Ordered(t) /\ \A g \in Members(t) : Before(Head(s), g)
  <2>1. \A i, j \in 1..(m + 1) : i < j => Before(s[i], s[j])
    BY <1>1, <1>3 DEF Ordered
  <2>2. \A i \in 1..m : 1 \in 1..(m + 1) /\ i + 1 \in 1..(m + 1) /\ 1 < i + 1
    BY <1>1
  <2>3. \A i, j \in 1..m : i < j => i + 1 < j + 1
    BY <1>1
  <2>4. \A i, j \in 1..m : i < j => Before(t[i], t[j])
    BY <1>1, <2>1, <2>2, <2>3
  <2>5. \A i \in 1..m : Before(s[1], t[i])
    BY <1>1, <2>1, <2>2
  <2> QED
    BY <1>1, <1>2, <2>4, <2>5 DEF Ordered, m
<1>4. ASSUME Ordered(t), \A g \in Members(t) : Before(Head(s), g) PROVE Ordered(s)
  <2> SUFFICES ASSUME NEW i \in 1..(m + 1), NEW j \in 1..(m + 1), i < j PROVE Before(s[i], s[j])
    BY <1>1 DEF Ordered
  <2>1. j - 1 \in 1..m /\ (j - 1) + 1 = j
    BY <1>1
  <2>2. s[j] = t[j - 1]
    BY <1>1, <2>1
  <2>3. CASE i = 1
    <3>1. s[j] \in Members(t)
      BY <1>2, <2>1, <2>2
    <3> QED
      BY <1>1, <1>4, <2>3, <3>1
  <2>4. CASE i # 1
    <3>1. i - 1 \in 1..m /\ i - 1 < j - 1 /\ (i - 1) + 1 = i
      BY <1>1, <2>4
    <3>2. s[i] = t[i - 1]
      BY <1>1, <3>1
    <3> QED
      BY <1>4, <2>1, <2>2, <3>1, <3>2 DEF Ordered, m
  <2> QED
    BY <2>3, <2>4
<1> QED
  BY <1>3, <1>4 DEF t

\* A frame put in front of a stack.
LEMMA ConsLemma ==
    ASSUME NEW r \in Seq(Frames), NEW f \in Frames
    PROVE  /\ <<f>> \o r \in Seq(Frames) /\ Members(<<f>> \o r) = {f} \cup Members(r)
           /\ Ordered(<<f>> \o r) <=> Ordered(r) /\ \A g \in Members(r) : Before(f, g)
<1> DEFINE e == <<f>>
           s == e \o r
<1>1. e \in Seq(Frames) /\ Members(e) = {f} /\ Len(e) = 1 /\ e[1] = f
  BY DEF Members
<1> HIDE DEF e
<1>2. s \in Seq(Frames) /\ Members(s) = {f} \cup Members(r)
  BY <1>1, ConcatLemma
<1>3. Len(s) = Len(r) + 1 /\ Len(r) \in Nat /\ s[1] = f /\ \A i \in 1..Len(r) : s[i + 1] = r[i]
  <2>0. e \in Seq(Frames)
    BY <1>1
  <2>1. /\ Len(r) \in Nat /\ Len(s) = Len(e) + Len(r)
        /\ \A i \in 1..Len(e) : s[i] = e[i]
        /\ \A i \in 1..Len(r) : s[Len(e) + i] = r[i]
    BY <2>0
  <2>2. 1 \in 1..Len(e) /\ \A i \in 1..Len(r) : Len(e) + i = i + 1
    BY <1>1, <2>1
  <2> HIDE DEF s
  <2> QED
    BY <1>1, <2>1, <2>2
<1> HIDE DEF s
<1>4. s # <<>> /\ Head(s) = f
  BY <1>2, <1>3
<1>5. Tail(s) = r
  <2>1. Tail(s) \in Seq(Frames) /\ Len(Tail(s)) = Len(s) - 1
        /\ \A i \in 1..(Len(s) - 1) : Tail(s)[i] = s[i + 1]
    BY <1>2, <1>4, RestLemma
  <2>2. Len(Tail(s)) = Len(r) /\ \A i \in 1..Len(r) : Tail(s)[i] = r[i]
    BY <1>3, <2>1
  <2> QED
    BY <2>1, <2>2
<1> QED
  BY <1>2, <1>4, <1>5, OrderLemma DEF s, e

\* Nothing is written, nothing is seen, and what was to be told still is.
LEMMA SeenKept ==
    ASSUME SeenInv, UNCHANGED <<nodes, view>>, \A n, a : Pending(n, a) => Pending(n, a)'
    PROVE  SeenInv'
<1>1. Present' = Present /\ view' = view
  BY DEF Present
<1>2. \A n : Lost(n)' <=> Lost(n)
  BY DEF Lost, Leaf, Present
<1>3. \A n : Known(n) => Known(n)'
  BY <1>1, <1>2 DEF Known
<1> QED
  BY <1>1, <1>3 DEF SeenInv

\* A call or an event that the watcher has been told of is over.
LEMMA PopWatch ==
    ASSUME stack \in Seq(Frames), Ordered(stack), TrueInv, SeenInv, stack # <<>>,
           UNCHANGED <<nodes, view>>, stack' = Tail(stack), ~Untold(Head(stack))
    PROVE  Ordered(stack') /\ TrueInv' /\ SeenInv'
<1>1. Members(stack) = {Head(stack)} \cup Members(stack')
  BY RestLemma
<1>2. Ordered(stack')
  BY OrderLemma
<1>3. Present' = Present
  BY DEF Present
<1>4. TrueInv'
  BY <1>1, <1>3 DEF TrueInv
<1>5. \A n, a : Pending(n, a) => Pending(n, a)'
  BY <1>1 DEF Pending
<1> QED
  BY <1>2, <1>4, <1>5, SeenKept

\* An event moves on, and may call a callback.
LEMMA MoveWatch ==
    ASSUME stack \in Seq(Frames), Ordered(stack), TrueInv, stack # <<>>, nodes' = nodes,
           NEW f, f = Head(stack), Event(f),
           NEW g \in Frames, Event(g), g.name = f.name, g.action = f.action,
           \/ stack' = <<g>> \o Tail(stack)
           \/ \E c \in Frames : c.op = "call" /\ stack' = <<c>> \o (<<g>> \o Tail(stack))
    PROVE  /\ Ordered(stack') /\ TrueInv'
           /\ \A n, a : Pending(n, a) => Pending(n, a)' \/ (n = f.name /\ a = f.action)
           /\ Untold(g) => Pending(f.name, f.action)'
<1> DEFINE r == Tail(stack)
           s == <<g>> \o r
<1>1. r \in Seq(Frames) /\ Members(stack) = {f} \cup Members(r) /\ f \in Frames
  BY RestLemma
<1>2. Ordered(r) /\ \A h \in Members(r) : Before(f, h)
  BY OrderLemma
<1>3. f.op # "reinsert" /\ g.op # "reinsert" /\ (Adds(f) <=> Adds(g)) /\ (Deletes(f) <=> Deletes(g))
  BY DEF Event, Adds, Deletes
<1>4. \A h \in Members(r) : Before(g, h)
  BY <1>2, <1>3 DEF Before
<1> HIDE DEF r
<1>5. s \in Seq(Frames) /\ Members(s) = {g} \cup Members(r) /\ Ordered(s)
  BY <1>1, <1>2, <1>4, ConsLemma
<1>6. ASSUME NEW c \in Frames, c.op = "call", stack' = <<c>> \o s
      PROVE  Ordered(stack') /\ Members(stack') = {c} \cup Members(s)
  <2>1. \A h : Before(c, h)
    BY <1>6 DEF Before, Adds, Event
  <2> HIDE DEF s
  <2> QED
    BY <1>5, <1>6, <2>1, ConsLemma
<1>7. stack' = s \/ \E c \in Frames : c.op = "call" /\ stack' = <<c>> \o s
  BY DEF r
<1> HIDE DEF s
<1>8. /\ Ordered(stack') /\ Members(s) \subseteq Members(stack')
      /\ \A h \in Members(stack') : h \in Members(s) \/ h.op = "call"
  BY <1>5, <1>6, <1>7
<1>9. TrueInv'
  <2>1. Present' = Present
    BY DEF Present
  <2> SUFFICES ASSUME NEW h \in Members(stack')
               PROVE  /\ Adds(h) => h.name \in Present
                      /\ Deletes(h) => Under(h.name) \cap Present = {}
    BY <2>1 DEF TrueInv
  <2>2. CASE h.op = "call"
    BY <2>2 DEF Adds, Deletes, Event
  <2>3. CASE h = g
    <3>1. f \in Members(stack)
      BY <1>1
    <3> QED
      BY <1>3, <2>3, <3>1 DEF TrueInv
  <2>4. CASE h \in Members(r)
    BY <1>1, <2>4 DEF TrueInv
  <2> QED
    BY <1>5, <1>8, <2>2, <2>3, <2>4
<1>10. ASSUME NEW n, NEW a, Pending(n, a) PROVE Pending(n, a)' \/ (n = f.name /\ a = f.action)
  <2>1. PICK h \in Members(stack) : Untold(h) /\ h.name = n /\ h.action = a
    BY <1>10 DEF Pending
  <2>2. CASE h = f
    BY <2>1, <2>2
  <2>3. CASE h \in Members(r)
    BY <1>5, <1>8, <2>1, <2>3 DEF Pending
  <2> QED
    BY <1>1, <2>2, <2>3
<1>11. Untold(g) => Pending(f.name, f.action)'
  <2>1. g \in Members(stack')
    BY <1>5, <1>8
  <2> QED
    BY <2>1 DEF Pending
<1> QED
  BY <1>8, <1>9, <1>10, <1>11

\* A level that is entered: the watcher is still to be told, at the root.
LEMMA LevelWatch ==
    ASSUME SendersInv, NEW n \in Names, NEW a \in Actions, NEW l \in Names
    PROVE  /\ Level(n, a, l).op = "level" /\ Level(n, a, l).name = n /\ Level(n, a, l).action = a
           /\ Untold(Level(n, a, l))
<1> DEFINE d == Members(tables[l])
           x == First(tables[l], NULL)
<1>1. l = ROOT => Sender(a) \in d
  BY DEF SendersInv
<1>2. Level(n, a, l) = [op |-> "level", name |-> n, action |-> a, level |-> l,
                        next |-> x, due |-> d, done |-> {}]
  BY DEF Level
<1> HIDE DEF d, x
<1> QED
  BY <1>1, <1>2 DEF Untold

\* The events.
LEMMA EventWatch ==
    ASSUME IterInv, WatchInv, BeginEvent \/ Visit \/ Climb \/ Return
    PROVE  WatchInv'
<1> USE DEF WatchInv
<1>f. PICK f, r : f = Head(stack) /\ r = Tail(stack)
  OBVIOUS
<1>0. stack # <<>> /\ UNCHANGED <<nodes, tables, hash>> /\ stack \in Seq(Frames)
  BY DEF BeginEvent, Visit, Climb, Return, Top, IterInv
<1>1. f \in Frames /\ f \in Members(stack) /\ r \in Seq(Frames)
  BY <1>0, <1>f, RestLemma
<1>2. SendersInv'
  BY <1>0 DEF SendersInv
<1>3. <<>> \o r = r
  BY <1>1
<1>4. ASSUME stack' = r, view' = view, ~Untold(f) PROVE WatchInv'
  BY <1>0, <1>2, <1>4, <1>f, PopWatch
<1>5. ASSUME NEW g \in Frames, g.op = "level", f.op \in {"raise", "level"},
             g.name = f.name, g.action = f.action, Untold(f) => Untold(g), view' = view,
             \/ stack' = <<g>> \o r
             \/ \E c \in Frames : c.op = "call" /\ stack' = <<c>> \o (<<g>> \o r)
      PROVE  WatchInv'
  <2>1. Event(f) /\ Event(g)
    BY <1>5 DEF Event
  <2>2. /\ Ordered(stack') /\ TrueInv'
        /\ \A n, a : Pending(n, a) => Pending(n, a)' \/ (n = f.name /\ a = f.action)
        /\ Untold(g) => Pending(f.name, f.action)'
    BY <1>0, <1>5, <1>f, <2>1, MoveWatch
  <2>3. ASSUME NEW n, NEW a, Pending(n, a) PROVE Pending(n, a)'
    <3>1. CASE Untold(f)
      BY <1>5, <2>2, <2>3, <3>1
    <3>2. CASE ~Untold(f)
      <4>1. PICK h \in Members(stack) : Untold(h) /\ h.name = n /\ h.action = a
        BY <2>3 DEF Pending
      <4>2. h \in Members(r)
        BY <1>0, <1>f, <3>2, <4>1, RestLemma
      <4>3. Members(r) \subseteq Members(stack')
        <5> DEFINE s == <<g>> \o r
        <5>1. s \in Seq(Frames) /\ Members(r) \subseteq Members(s)
          BY <1>1, ConsLemma
        <5> HIDE DEF s
        <5>2. ASSUME NEW c \in Frames PROVE Members(s) \subseteq Members(<<c>> \o s)
          <6>1. Members(<<c>> \o s) = {c} \cup Members(s)
            BY <5>1, ConsLemma
          <6> QED
            BY <6>1
        <5>3. stack' = s \/ \E c \in Frames : stack' = <<c>> \o s
          BY <1>5 DEF s
        <5> QED
          BY <5>1, <5>2, <5>3
      <4> QED
        BY <4>1, <4>2, <4>3 DEF Pending
    <3> QED
      BY <3>1, <3>2
  <2>4. SeenInv'
    BY <1>0, <1>5, <2>3, SeenKept
  <2> QED
    BY <1>2, <2>2, <2>4
<1>6. CASE BeginEvent
  <2>1. f.op = "raise" /\ view' = view
    BY <1>6, <1>f DEF BeginEvent, Top
  <2>2. f.name \in Names /\ f.action \in Actions
    BY <1>1, <2>1, FrameLemma
  <2> DEFINE lv == Level(f.name, f.action, f.name)
  <2>3. lv \in Frames /\ lv.op = "level" /\ lv.name = f.name /\ lv.action = f.action /\ Untold(lv)
    BY <2>2, LevelLemma, LevelWatch
  <2>4. ~(\A n \in Names : tables[n] = <<>>)
    <3>1. ROOT \in Names /\ "add" \in Actions
      BY NamesAssumption DEF Actions
    <3>2. Sender("add") \in Members(tables[ROOT])
      BY <3>1 DEF SendersInv
    <3>3. Members(<<>>) = {}
      BY DEF Members
    <3> QED
      BY <3>1, <3>2, <3>3
  <2>5. stack' = <<lv>> \o r
    BY <1>6, <1>f, <2>4 DEF BeginEvent
  <2> HIDE DEF lv
  <2> QED
    BY <1>5, <2>1, <2>3, <2>5
<1>7. CASE Climb
  <2>1. f.op = "level" /\ view' = view /\ f.next = NULL
    BY <1>7, <1>f DEF Climb, Top
  <2>2. f.name \in Names /\ f.action \in Actions /\ f.level \in Names
    BY <1>1, <2>1, FrameLemma
  <2>3. CASE f.level = ROOT
    <3>1. stack' = r
      BY <1>3, <1>7, <1>f, <2>3 DEF Climb
    <3>2. f.due = {}
      BY <1>1, <2>1 DEF IterInv, WalkInv, Walk
    <3> QED
      BY <1>4, <2>1, <2>3, <3>1, <3>2 DEF Untold
  <2>4. CASE f.level # ROOT
    <3> DEFINE lv == Level(f.name, f.action, Parent(f.level))
    <3>1. Parent(f.level) \in Names
      <4>1. Len(f.level) - 1 \in 0..Len(f.level)
        <5>1. Len(f.level) \in Nat /\ Len(f.level) # 0
          BY <2>2, <2>4, NameLemma
        <5> QED
          BY <5>1
      <4> QED
        BY <2>2, <4>1, PrefixLemma DEF Parent
    <3>2. lv \in Frames /\ lv.op = "level" /\ lv.name = f.name /\ lv.action = f.action /\ Untold(lv)
      BY <2>2, <3>1, LevelLemma, LevelWatch
    <3>3. stack' = <<lv>> \o r
      BY <1>7, <1>f, <2>4 DEF Climb
    <3> HIDE DEF lv
    <3> QED
      BY <1>5, <2>1, <3>2, <3>3
  <2> QED
    BY <2>3, <2>4
<1>8. CASE Return
  <2>1. f.op = "call" /\ stack' = r /\ view' = view
    BY <1>8, <1>f DEF Return, Top
  <2> QED
    BY <1>4, <2>1 DEF Untold
<1>9. CASE Visit
  <2> DEFINE e == f.next
             g == [f EXCEPT !.next = NextIn(tables[f.level], e, NULL),
                            !.due  = @ \ {e}, !.done = @ \cup {e}]
  <2>1. f.op = "level" /\ e # NULL
    BY <1>9, <1>f DEF Visit, Top
  <2>2. /\ f.name \in Names /\ f.action \in Actions /\ f.level \in Names
        /\ e \in Members(tables[f.level])
    BY <1>1, <2>1, FrameLemma DEF IterInv, WalkInv, Walk
  <2>3. /\ g \in Frames /\ e \in Entries /\ g.op = "level" /\ g.name = f.name
        /\ g.action = f.action /\ g.level = f.level /\ g.due = f.due \ {e}
    BY <1>1, <2>1, VisitLemma
  <2>4. e = [cb |-> e.cb, action |-> e.action]
    <3>1. CASE e \in {[cb |-> w.cb, action |-> w.action] : w \in Watches}
      BY <3>1
    <3>2. CASE e \in [cb : {SEND_EVENT}, action : Actions]
      BY <3>2
    <3> QED
      BY <2>3, <3>1, <3>2 DEF Entries
  <2>5. /\ \/ /\ e.action = f.action /\ e.cb # SEND_EVENT
              /\ stack' = <<Call(e), g>> \o r
           \/ ~(e.action = f.action /\ e.cb # SEND_EVENT) /\ stack' = <<g>> \o r
        /\ view' = IF e.action = f.action /\ e.cb = SEND_EVENT
                   THEN Seen(f.name, f.action) ELSE view
    BY <1>9, <1>f DEF Visit
  <2> HIDE DEF g, e
  <2>6. CASE e # Sender(f.action)
    <3>1. view' = view
      BY <2>4, <2>5, <2>6 DEF Sender
    <3>2. Untold(f) => Untold(g)
      BY <2>1, <2>3, <2>6 DEF Untold
    <3>3. \/ stack' = <<g>> \o r
          \/ \E c \in Frames : c.op = "call" /\ stack' = <<c>> \o (<<g>> \o r)
      <4>1. CASE stack' = <<g>> \o r
        BY <4>1
      <4>2. CASE e.cb # SEND_EVENT /\ stack' = <<Call(e), g>> \o r
        <5>1. PICK w \in Watches : e = [cb |-> w.cb, action |-> w.action]
          BY <2>3, <4>2 DEF Entries
        <5>2. Call(e) \in Frames /\ Call(e).op = "call"
          BY <5>1 DEF Call, Frames
        <5> DEFINE c == Call(e)
        <5> HIDE DEF c
        <5>3. <<c, g>> \o r = <<c>> \o (<<g>> \o r)
          BY <1>1
        <5> QED
          BY <4>2, <5>2, <5>3 DEF c
      <4> QED
        BY <2>5, <4>1, <4>2
    <3> QED
      BY <1>5, <2>1, <2>3, <3>1, <3>2, <3>3
  <2>7. CASE e = Sender(f.action)
    <3>1. f.level = ROOT
      BY <2>2, <2>7 DEF SendersInv
    <3>2. stack' = <<g>> \o r /\ view' = Seen(f.name, f.action)
      BY <2>5, <2>7 DEF Sender
    <3>3. Event(f) /\ Event(g)
      BY <2>1, <2>3 DEF Event
    <3>4. /\ Ordered(stack') /\ TrueInv'
          /\ \A n, a : Pending(n, a) => Pending(n, a)' \/ (n = f.name /\ a = f.action)
      BY <1>0, <1>f, <2>3, <3>2, <3>3, MoveWatch
    <3>5. Present' = Present /\ \A n : Lost(n)' <=> Lost(n)
      BY <1>0 DEF Lost, Leaf, Present
    <3>6. /\ f.action = "add" => f.name \in Present
          /\ f.action = "delete" => Under(f.name) \cap Present = {}
      BY <1>1, <3>3 DEF TrueInv, Adds, Deletes
    <3>7. /\ f.action = "add" => view' = view \cup {f.name}
          /\ f.action = "delete" => view' = view \ Under(f.name)
          /\ f.action \notin {"add", "delete"} => view' = view
      BY <3>2 DEF Seen
    <3>8. ASSUME NEW n \in view'
          PROVE  n \in Present \/ \E m \in Names : Pending(m, "delete")' /\ n \in Under(m)
      <4>1. (n \in view \/ (f.action = "add" /\ n = f.name))
            /\ (f.action = "delete" => n \notin Under(f.name))
        BY <3>7
      <4>2. CASE n \in view /\ n \notin Present
        <5>1. PICK m \in Names : Pending(m, "delete") /\ n \in Under(m)
          BY <4>2 DEF SeenInv
        <5> QED
          BY <3>4, <4>1, <5>1
      <4> QED
        BY <3>6, <4>1, <4>2
    <3>9. ASSUME NEW n \in Present PROVE Known(n)'
      <4>1. n \in view => n \in view'
        BY <3>6, <3>7
      <4>2. Pending(n, "add") => Pending(n, "add")' \/ n \in view'
        BY <3>4, <3>7
      <4>3. n \in view \/ Lost(n) \/ Pending(n, "add")
        BY DEF SeenInv, Known
      <4> QED
        BY <3>5, <4>1, <4>2, <4>3 DEF Known
    <3>10. SeenInv'
      BY <3>5, <3>8, <3>9 DEF SeenInv
    <3> QED
      BY <1>2, <3>4, <3>10
  <2> QED
    BY <2>6, <2>7
<1> QED
  BY <1>6, <1>7, <1>8, <1>9

\* When callbacks do not write, a write begins outside every call.
LEMMA OutsideLemma ==
    ASSUME MaxDepth = 0, stack \in Seq(Frames), MayWrite
    PROVE  stack = <<>>
<1> SUFFICES ASSUME stack # <<>> PROVE FALSE
  OBVIOUS
<1> DEFINE C == {i \in 1..Len(stack) : stack[i].op = "call"}
<1>1. Head(stack).op = "call" /\ Cardinality(C) <= 0
  BY DEF MayWrite, UserRuns, Top, Depth
<1>2. Head(stack) = stack[1] /\ 1 \in 1..Len(stack) /\ Len(stack) \in Nat
  OBVIOUS
<1>3. 1 \in C
  BY <1>1, <1>2
<1>4. IsFiniteSet(1..Len(stack))
  BY <1>2, FS_Interval
<1>5. IsFiniteSet(C)
  BY <1>4, FS_Subset
<1> HIDE DEF C
<1>6. Cardinality(C) \in Nat /\ C # {}
  BY <1>3, <1>5, FS_CardinalityType
<1>7. Cardinality(C) # 0
  BY <1>5, <1>6, FS_EmptySet
<1> QED
  BY <1>1, <1>6, <1>7

\* Between calls nothing is left to be told.
LEMMA QuietWatch ==
    ASSUME SeenInv, \A n, a : ~Pending(n, a)
    PROVE  view \subseteq Present /\ \A n \in Present : n \in view \/ Lost(n)
BY DEF SeenInv, Known

\* The events of a write are in order.
LEMMA AddEventsOrder ==
    ASSUME NEW n \in Names
    PROVE  Ordered(AddEvents(n))
<1> DEFINE k == Cardinality(Created(n))
           s == AddEvents(n)
<1>1. /\ k \in Nat \ {0} /\ Len(s) = k
      /\ \A i \in 1..k : s[i] = Raise(SubSeq(n, 1, Len(n) - k + i), "add")
  BY AddEventsLemma
<1>2. Len(n) \in Nat /\ (Len(n) = 0 <=> n = ROOT)
  BY NameLemma
<1>3. n = ROOT => k = 1
  BY CreatedLemma
<1>4. n # ROOT => k = Len(n) - Kept(n) /\ Kept(n) \in 0..Len(n)
  BY CreatedLemma, KeptLemma
<1> HIDE DEF k, s
<1>5. \A i \in 1..k : Len(n) - k + i \in 0..Len(n)
  BY <1>1, <1>2, <1>3, <1>4
<1>6. ASSUME NEW i \in 1..k
      PROVE  s[i].op = "raise" /\ Len(s[i].name) = Len(n) - k + i
  <2> DEFINE p == SubSeq(n, 1, Len(n) - k + i)
  <2>1. Len(p) = Len(n) - k + i
    BY <1>5, PrefixLemma
  <2>2. s[i] = Raise(p, "add")
    BY <1>1
  <2> HIDE DEF p
  <2> QED
    BY <2>1, <2>2 DEF Raise
<1>7. \A i, j \in 1..k : i < j => Len(n) - k + i < Len(n) - k + j
  BY <1>1, <1>2
<1> QED
  BY <1>1, <1>6, <1>7 DEF Ordered, Before, s

\* What is lost below a leaf stays lost while the leaf stays.
LEMMA LostKept ==
    ASSUME NEW n, Lost(n), \A q \in Above(n) : Leaf(q) => Leaf(q)'
    PROVE  Lost(n)'
BY DEF Lost

\* A write creates a name and the names above it, and raises an event for each.
LEMMA GrowWatch ==
    ASSUME NodesOK, SeenInv, \A n, a : ~Pending(n, a),
           NEW n \in Names, n \notin Present, NEW node, NEW above,
           nodes' = With(n, node, above), view' = view, stack' = AddEvents(n)
    PROVE  Ordered(stack') /\ TrueInv' /\ SeenInv'
<1>1. Present' = Present \cup Created(n) /\ Created(n) \cap Present = {}
  BY CreatedLemma DEF With, Present
<1>2. Members(stack') = {Raise(p, "add") : p \in Created(n)}
  BY AddEventsLemma
<1>3. \A p : /\ Raise(p, "add").op = "raise" /\ Raise(p, "add").name = p
             /\ Raise(p, "add").action = "add"
  BY DEF Raise
<1>4. TrueInv'
  BY <1>1, <1>2, <1>3 DEF TrueInv, Deletes
<1>5. \A q : Leaf(q) => Leaf(q)'
  <2> SUFFICES ASSUME NEW q, Leaf(q) PROVE Leaf(q)'
    OBVIOUS
  <2>1. q \in Present /\ q \notin Created(n) /\ q # n
    BY <1>1 DEF Leaf
  <2>2. nodes'[q] = nodes[q]
    BY <2>1 DEF With
  <2> QED
    BY <1>1, <2>1, <2>2 DEF Leaf
<1>6. view \subseteq Present /\ \A m \in Present : m \in view \/ Lost(m)
  BY QuietWatch
<1>7. \A p \in Created(n) : Pending(p, "add")'
  BY <1>2, <1>3 DEF Pending, Untold
<1>8. \A m \in Present' : Known(m)'
  BY <1>1, <1>5, <1>6, <1>7, LostKept DEF Known
<1>9. SeenInv'
  BY <1>1, <1>6, <1>8 DEF SeenInv
<1> QED
  BY <1>4, <1>9, AddEventsOrder

\* One event for what a write did, and the insertion of the root after it.
LEMMA RaiseWatch ==
    ASSUME NEW n \in Names, NEW a \in Actions \ {"add"}, NEW s,
           s = <<>> \/ s = <<Reinsert>>, stack' = <<Raise(n, a)>> \o s
    PROVE  /\ Ordered(stack') /\ Pending(n, a)'
           /\ \A f \in Members(stack') : ~Adds(f) /\ (Deletes(f) => a = "delete" /\ f.name = n)
<1>0. a \in Actions
  OBVIOUS
<1> DEFINE f == Raise(n, a)
<1>1. f \in Frames /\ f.op = "raise" /\ f.name = n /\ f.action = a
  BY <1>0, RaiseLemma DEF Raise
<1>2. s \in Seq(Frames) /\ Members(s) \subseteq {Reinsert} /\ Reinsert.op = "reinsert"
  <2>1. Members(<<>>) = {} /\ <<>> \in Seq(Frames)
    BY DEF Members
  <2> QED
    BY <1>0, <2>1, RaiseLemma
<1>3. Ordered(s)
  <2>1. Ordered(<<>>)
    BY DEF Ordered
  <2>2. \A g : Ordered(<<g>>)
    BY DEF Ordered
  <2> QED
    BY <2>1, <2>2
<1> HIDE DEF f
<1>4. \A g \in Members(s) : Before(f, g)
  BY <1>1, <1>2 DEF Before, Adds, Event
<1>5. Ordered(stack') /\ Members(stack') = {f} \cup Members(s)
  BY <1>1, <1>2, <1>3, <1>4, ConsLemma DEF f
<1>6. ~Adds(f) /\ Untold(f) /\ ~Adds(Reinsert) /\ ~Deletes(Reinsert) /\ (Deletes(f) => a = "delete")
  BY <1>1, <1>2 DEF Adds, Deletes, Event, Untold
<1> QED
  BY <1>1, <1>2, <1>5, <1>6 DEF Pending

\* The writes.
LEMMA WriteWatch ==
    ASSUME MaxDepth = 0, IterInv, TreeInv, WatchInv, NEW n \in Names,
           \/ \E p \in Payloads : Add(n, p) \/ AddFails(n, p) \/ Change(n, p)
           \/ Delete(n) \/ Fin(n)
    PROVE  WatchInv'
<1> USE DEF WatchInv
<1>0. NodesOK /\ stack \in Seq(Frames) /\ Present \subseteq Names
  BY DEF IterInv, NodesOK
<1>1. UNCHANGED <<tables, view>> /\ MayWrite
  BY DEF Add, AddFails, Change, Delete, Fin
<1>2. stack = <<>>
  BY <1>0, <1>1, OutsideLemma
<1>3. Members(<<>>) = {} /\ Ordered(<<>>)
  BY DEF Members, Ordered
<1>4. \A m, a : ~Pending(m, a)
  BY <1>2, <1>3 DEF Pending
<1>5. view \subseteq Present /\ \A m \in Present : m \in view \/ Lost(m)
  BY <1>4, QuietWatch
<1>6. SendersInv'
  BY <1>1 DEF SendersInv
<1>7. ASSUME NEW p \in Payloads, Add(n, p) PROVE WatchInv'
  <2>1. n \notin Present /\ nodes' = With(n, p, [kind |-> "registry", val |-> 0])
    BY <1>7 DEF Add
  <2>2. stack' = AddEvents(n)
    <3>1. AddEvents(n) \in Seq(Frames) /\ stack' = AddEvents(n) \o <<>>
      BY <1>2, <1>7, AddEventsLemma DEF Add
    <3> HIDE DEF AddEvents
    <3> QED
      BY <3>1
  <2> QED
    BY <1>0, <1>1, <1>4, <1>6, <2>1, <2>2, GrowWatch
<1>8. ASSUME NEW p \in Payloads, AddFails(n, p) PROVE WatchInv'
  <2> DEFINE freed == [kind |-> "freed", val |-> 0]
             node  == IF p.kind = "array" THEN p ELSE freed
  <2>0. PICK q : q = SubSeq(n, 1, Kept(n))
    OBVIOUS
  <2>1. n \notin Present /\ ParentRefuses(n) /\ nodes' = With(n, node, freed) /\ stack' = stack
    BY <1>8 DEF AddFails
  <2> HIDE DEF node, freed
  <2>2. Present' = Present \cup Created(n) /\ Created(n) \cap Present = {}
    BY <2>1, CreatedLemma DEF With, Present
  <2>3. Kept(n) > 0 /\ nodes[q].kind # "registry"
    BY <2>0, <2>1 DEF ParentRefuses, Differs
  <2>4. q \in Above(n) /\ q \in Present /\ Len(q) = Kept(n)
    BY <2>0, <2>3, KeptLemma, PrefixLemma
  <2>5. \A m : Leaf(m) => Leaf(m)'
    <3> SUFFICES ASSUME NEW m, Leaf(m) PROVE Leaf(m)'
      OBVIOUS
    <3>1. m \in Present /\ m \notin Created(n) /\ m # n
      BY <2>1, <2>2 DEF Leaf
    <3>2. nodes'[m] = nodes[m]
      BY <2>1, <3>1 DEF With
    <3> QED
      BY <2>2, <3>1, <3>2 DEF Leaf
  <2>6. Leaf(q)'
    <3>1. Leaf(q)
      BY <2>3, <2>4 DEF Leaf
    <3> QED
      BY <2>5, <3>1
  <2>7. \A m \in Created(n) : q \in Above(m)
    <3> SUFFICES ASSUME NEW m \in Created(n), m # n PROVE q \in Above(m)
      BY <2>4
    <3>1. m \in Above(n) /\ Len(m) > Kept(n)
      BY DEF Created
    <3>2. Len(m) \in Int /\ Kept(n) \in Int
      BY <3>1, AboveLemma, KeptLemma
    <3>3. Len(q) < Len(m)
      BY <2>4, <3>1, <3>2
    <3> QED
      BY <2>4, <3>1, <3>3, AboveLemma
  <2>8. \A m \in Present' : Known(m)'
    <3>1. \A m \in Created(n) : Lost(m)'
      BY <2>6, <2>7 DEF Lost
    <3>2. \A m \in Present : m \in view' \/ Lost(m)'
      BY <1>1, <1>5, <2>5, LostKept
    <3> QED
      BY <2>2, <3>1, <3>2 DEF Known
  <2>9. SeenInv'
    BY <1>1, <1>5, <2>2, <2>8 DEF SeenInv
  <2>10. TrueInv' /\ Ordered(stack')
    BY <1>2, <1>3, <2>1 DEF TrueInv
  <2> QED
    BY <1>6, <2>9, <2>10
<1>9. ASSUME NEW p \in Payloads, Change(n, p) PROVE WatchInv'
  <2>1. /\ n \in Present /\ p.kind # "registry"
        /\ nodes' = nodes \/ nodes' = [nodes EXCEPT ![n] = p]
    BY <1>9 DEF Change
  <2>2. Present' = Present
    BY <2>1 DEF Present
  <2>3. \A m : Leaf(m) => Leaf(m)'
    <3> SUFFICES ASSUME NEW m, Leaf(m) PROVE Leaf(m)'
      OBVIOUS
    <3>1. m \in Present /\ nodes[m].kind # "registry"
      BY DEF Leaf
    <3>2. nodes'[m] = nodes[m] \/ nodes'[m] = p
      BY <2>1, <3>1 DEF Present
    <3>3. nodes'[m].kind # "registry"
      BY <2>1, <3>1, <3>2
    <3> QED
      BY <2>2, <3>1, <3>3 DEF Leaf
  <2>4. stack' = <<Raise(n, "change")>> \o <<>> /\ "change" \in Actions \ {"add"}
    BY <1>2, <1>9 DEF Change, Actions
  <2>5. /\ Ordered(stack')
        /\ \A f \in Members(stack') : ~Adds(f) /\ (Deletes(f) => "change" = "delete")
    BY <2>4, RaiseWatch
  <2>6. TrueInv'
    BY <2>5 DEF TrueInv
  <2>7. \A m \in Present : m \in view' \/ Lost(m)'
    BY <1>1, <1>5, <2>3, LostKept
  <2>8. SeenInv'
    BY <1>1, <1>5, <2>2, <2>7 DEF SeenInv, Known
  <2> QED
    BY <1>6, <2>5, <2>6, <2>8
<1>10. CASE Delete(n)
  <2> DEFINE s == IF n = ROOT THEN <<Reinsert>> ELSE <<>>
  <2>1. Present' = Present \ Under(n) /\ nodes' = [m \in Present \ Under(n) |-> nodes[m]]
    BY <1>10 DEF Delete, Deleted, Present
  <2>2. Closed'
    BY <1>0, <2>1, PruneTree DEF TreeInv
  <2>3. stack' = <<Raise(n, "delete")>> \o s
    <3>1. stack' = <<Raise(n, "delete")>> \o s \o <<>>
      BY <1>2, <1>10 DEF Delete
    <3> QED
      BY <3>1
  <2>4. s = <<>> \/ s = <<Reinsert>>
    OBVIOUS
  <2>5. "delete" \in Actions \ {"add"}
    BY DEF Actions
  <2> HIDE DEF s
  <2>6. /\ Ordered(stack') /\ Pending(n, "delete")'
        /\ \A f \in Members(stack') : ~Adds(f) /\ (Deletes(f) => f.name = n)
    BY <2>3, <2>4, <2>5, RaiseWatch
  <2>7. TrueInv'
    BY <2>1, <2>6 DEF TrueInv
  <2>8. ASSUME NEW m \in Present', Lost(m) PROVE Lost(m)'
    <3>1. PICK q \in Above(m) : Leaf(q)
      BY <2>8 DEF Lost
    <3>2. q \in Present'
      BY <2>2 DEF Closed
    <3>3. nodes'[q] = nodes[q]
      BY <2>1, <3>2
    <3> QED
      BY <3>1, <3>2, <3>3 DEF Leaf, Lost
  <2>9. \A m \in Present' : Known(m)'
    BY <1>1, <1>5, <2>1, <2>8 DEF Known
  <2>10. \A m \in view' : m \in Present' \/ m \in Under(n)
    BY <1>1, <1>5, <2>1
  <2>11. SeenInv'
    BY <2>6, <2>9, <2>10 DEF SeenInv
  <2> QED
    BY <1>6, <2>6, <2>7, <2>11
<1>11. CASE Fin(n)
  <2>1. nodes' = nodes
    BY <1>11 DEF Fin
  <2>2. stack' = <<Raise(n, "final")>> \o <<>> /\ "final" \in Actions \ {"add"}
    BY <1>2, <1>11 DEF Fin, Actions
  <2>3. /\ Ordered(stack')
        /\ \A f \in Members(stack') : ~Adds(f) /\ (Deletes(f) => "final" = "delete")
    BY <2>2, RaiseWatch
  <2>4. TrueInv'
    BY <2>3 DEF TrueInv
  <2>5. SeenInv'
    BY <1>1, <1>4, <2>1, SeenKept
  <2> QED
    BY <1>6, <2>3, <2>4, <2>5
<1> QED
  BY <1>7, <1>8, <1>9, <1>10, <1>11

\* The root is inserted again: that is the last thing its deletion does.
LEMMA ReinsertWatch ==
    ASSUME IterInv, WatchInv, ReinsertRoot
    PROVE  WatchInv'
<1> USE DEF WatchInv
<1>0. NodesOK /\ stack \in Seq(Frames) /\ stack # <<>> /\ UNCHANGED <<tables, view>>
  BY DEF IterInv, ReinsertRoot, Top
<1>1. Head(stack).op = "reinsert"
  BY DEF ReinsertRoot, Top
<1>2. Members(Tail(stack)) = {} /\ Tail(stack) \in Seq(Frames)
  BY <1>0, <1>1, OrderLemma, RestLemma DEF Before
<1>3. Tail(stack) = <<>>
  <2> DEFINE t == Tail(stack)
  <2>1. Members(t) = {} /\ t \in Seq(Frames)
    BY <1>2
  <2> HIDE DEF t
  <2>2. Len(t) \in Nat /\ (Len(t) # 0 => 1 \in 1..Len(t))
    BY <2>1
  <2>3. Len(t) = 0
    BY <2>1, <2>2 DEF Members
  <2>4. t = <<>>
    BY <2>1, <2>3
  <2> QED
    BY <2>4 DEF t
<1>4. ~Untold(Head(stack))
  BY <1>1 DEF Untold
<1>5. \A m, a : ~Pending(m, a)
  BY <1>0, <1>2, <1>4, RestLemma DEF Pending
<1>6. SendersInv'
  BY <1>0 DEF SendersInv
<1>7. CASE ROOT \in Present
  BY <1>0, <1>4, <1>6, <1>7, PopWatch DEF ReinsertRoot
<1>8. CASE ROOT \notin Present
  <2>1. /\ stack' = AddEvents(ROOT) \o <<>>
        /\ nodes' = With(ROOT, [kind |-> "registry", val |-> 0], NULL)
    BY <1>3, <1>8 DEF ReinsertRoot
  <2>2. ROOT \in Names
    BY NamesAssumption
  <2>3. AddEvents(ROOT) \in Seq(Frames)
    BY <2>2, AddEventsLemma
  <2>4. stack' = AddEvents(ROOT)
    <3> HIDE DEF AddEvents
    <3> QED
      BY <2>1, <2>3
  <2> QED
    BY <1>0, <1>5, <1>6, <1>8, <2>1, <2>2, <2>4, GrowWatch
<1> QED
  BY <1>7, <1>8

\* Callbacks come and go; registryd's own stay.
LEMMA RegisterWatch ==
    ASSUME IterInv, WatchInv, NEW n \in Names, NEW e \in Entries, e.cb # SEND_EVENT,
           Register(n, e) \/ Unregister(n, e)
    PROVE  WatchInv'
<1> USE DEF WatchInv
<1> DEFINE t == tables[n]
<1>0. stack \in Seq(Frames) /\ t \in Seq(Entries) /\ NoRepeats(t) /\ Sorted(t)
      /\ hash \in [Entries -> Nat] /\ tables \in [Names -> Seq(Entries)]
  BY DEF IterInv, TablesOK, TablesInv
<1>1. \A a : Sender(a) # e
  BY DEF Sender
<1>2. ASSUME NEW u, tables' = [tables EXCEPT ![n] = u],
             Members(u) = Members(t) \cup {e} \/ Members(u) = Members(t) \ {e}
      PROVE  SendersInv'
  <2>1. \A m \in Names : tables'[m] = IF m = n THEN u ELSE tables[m]
    BY <1>0, <1>2
  <2>2. \A m \in Names : \A a : Sender(a) \in Members(tables'[m]) <=> Sender(a) \in Members(tables[m])
    BY <1>1, <1>2, <2>1
  <2> QED
    BY <2>2 DEF SendersInv
<1>3. CASE Register(n, e)
  <2>1. /\ e \notin Members(t) /\ tables' = [tables EXCEPT ![n] = Inserted(t, e)]
        /\ UNCHANGED <<nodes, stack, view>>
    BY <1>3 DEF Register
  <2>2. Members(Inserted(t, e)) = Members(t) \cup {e}
    BY <1>0, <2>1, InsertLemma
  <2>3. SendersInv'
    BY <1>2, <2>1, <2>2
  <2>4. SeenInv'
    BY <2>1, SeenKept DEF Pending
  <2>5. TrueInv'
    BY <2>1 DEF TrueInv, Present
  <2> QED
    BY <2>1, <2>3, <2>4, <2>5
<1>4. CASE Unregister(n, e)
  <2> DEFINE D(f) == IF f.op = "level" /\ f.level = n THEN [f EXCEPT !.due = @ \ {e}] ELSE f
  <2>1. /\ e \in Members(t) /\ tables' = [tables EXCEPT ![n] = Unlink(t, e)]
        /\ stack' = [i \in 1..Len(stack) |-> D(stack[i])]
        /\ UNCHANGED <<nodes, view>>
    BY <1>4 DEF Unregister
  <2>2. Members(Unlink(t, e)) = Members(t) \ {e}
    BY <1>0, <2>1, UnlinkLemma
  <2>3. SendersInv'
    BY <1>2, <2>1, <2>2
  <2>4. ASSUME NEW f \in Frames
        PROVE  /\ D(f).op = f.op /\ (Event(f) => D(f).name = f.name /\ D(f).action = f.action)
               /\ Untold(f) => Untold(D(f))
    <3>1. CASE f.op = "level" /\ f.level = n
      <4> DEFINE y == f.due \ {e}
      <4>1. f \in [op : {"level"}, name : Names, action : Actions, level : Names,
                   next : Entries \cup {NULL}, due : SUBSET Entries, done : SUBSET Entries]
        BY <3>1, FrameLemma
      <4>2. D(f) = [f EXCEPT !.due = y]
        BY <3>1
      <4>3. Sender(f.action) \in f.due => Sender(f.action) \in y
        BY <1>1
      <4> HIDE DEF y, D
      <4>4. /\ D(f).op = f.op /\ D(f).name = f.name /\ D(f).action = f.action
            /\ D(f).level = f.level /\ D(f).due = y
        BY <4>1, <4>2
      <4> QED
        BY <3>1, <4>3, <4>4 DEF Untold
    <3>2. CASE ~(f.op = "level" /\ f.level = n)
      BY <3>2
    <3> QED
      BY <3>1, <3>2
  <2> HIDE DEF D
  <2>5. /\ Len(stack) \in Nat /\ Len(stack') = Len(stack)
        /\ \A i \in 1..Len(stack) : stack'[i] = D(stack[i]) /\ stack[i] \in Frames
    BY <1>0, <2>1
  <2>6. \A f \in Frames : (Adds(D(f)) <=> Adds(f)) /\ (Deletes(D(f)) <=> Deletes(f))
    BY <2>4 DEF Adds, Deletes, Event
  <2>7. \A f \in Frames : (Adds(f) \/ Deletes(f)) => D(f).name = f.name
    BY <2>4 DEF Adds, Deletes
  <2>8. Ordered(stack')
    <3>1. \A f, g \in Frames : Before(f, g) => Before(D(f), D(g))
      BY <2>4, <2>6, <2>7 DEF Before
    <3> QED
      BY <2>5, <3>1 DEF Ordered
  <2>9. TrueInv'
    <3> SUFFICES ASSUME NEW i \in 1..Len(stack)
                 PROVE  /\ Adds(D(stack[i])) => D(stack[i]).name \in Present
                        /\ Deletes(D(stack[i])) => Under(D(stack[i]).name) \cap Present = {}
      BY <2>1, <2>5 DEF TrueInv, Members, Present
    <3>1. stack[i] \in Members(stack) /\ stack[i] \in Frames
      BY <2>5 DEF Members
    <3> QED
      BY <2>6, <2>7, <3>1 DEF TrueInv
  <2>10. ASSUME NEW m, NEW a, Pending(m, a) PROVE Pending(m, a)'
    <3>1. PICK i \in 1..Len(stack) : Untold(stack[i]) /\ stack[i].name = m /\ stack[i].action = a
      BY <2>10 DEF Pending, Members
    <3>2. Event(stack[i])
      BY <3>1 DEF Event, Untold
    <3>3. Untold(stack'[i]) /\ stack'[i].name = m /\ stack'[i].action = a
      BY <2>4, <2>5, <3>1, <3>2
    <3> QED
      BY <2>5, <3>3 DEF Pending, Members
  <2>11. SeenInv'
    BY <2>1, <2>10, SeenKept
  <2> QED
    BY <2>3, <2>8, <2>9, <2>11
<1> QED
  BY <1>3, <1>4

\* The watcher's invariant holds initially,
LEMMA InitWatch == Init => WatchInv
<1> SUFFICES ASSUME Init PROVE WatchInv
  OBVIOUS
<1>1. Present = {ROOT} /\ view = {ROOT} /\ stack = <<>>
  BY DEF Init, Present
<1>2. Members(<<>>) = {} /\ Ordered(<<>>)
  BY DEF Members, Ordered
<1>3. SendersInv
  <2>1. \A n \in Names : n # ROOT => tables[n] = <<>>
    BY DEF Init
  <2>2. Members(tables[ROOT]) = [cb : {SEND_EVENT}, action : Actions]
    BY RootTable
  <2>3. \A a \in Actions : Sender(a) \in [cb : {SEND_EVENT}, action : Actions]
    BY DEF Sender
  <2> QED
    BY <1>2, <2>1, <2>2, <2>3 DEF SendersInv
<1>4. TrueInv /\ SeenInv
  BY <1>1, <1>2 DEF TrueInv, SeenInv, Known
<1> QED
  BY <1>1, <1>2, <1>3, <1>4 DEF WatchInv

\* and every step keeps it.
LEMMA NextWatch ==
    ASSUME MaxDepth = 0
    PROVE  IterInv /\ TreeInv /\ WatchInv /\ [Next]_vars => WatchInv'
<1> SUFFICES ASSUME IterInv, TreeInv, WatchInv, [Next]_vars PROVE WatchInv'
  OBVIOUS
<1>1. ASSUME NEW w \in Watches,
             LET e == [cb |-> w.cb, action |-> w.action]
             IN  Register(w.name, e) \/ Unregister(w.name, e)
      PROVE  WatchInv'
  <2> DEFINE e == [cb |-> w.cb, action |-> w.action]
  <2>1. e \in Entries /\ w.name \in Names /\ e.cb # SEND_EVENT
    BY WatchAssumption DEF Entries
  <2> QED
    BY <1>1, <2>1, RegisterWatch
<1>2. CASE UNCHANGED vars
  BY <1>2 DEF vars, WatchInv, SendersInv, TrueInv, SeenInv, Known, Pending, Lost, Leaf, Present
<1>3. CASE ClientStep
  BY <1>1, <1>3, WriteWatch DEF ClientStep
<1>4. CASE CallStep
  BY <1>4, EventWatch, ReinsertWatch DEF CallStep
<1> QED
  BY <1>2, <1>3, <1>4 DEF Next

\* The three invariants together, when callbacks do not write.
THEOREM WatchInvariance ==
    ASSUME MaxDepth = 0
    PROVE  Spec => [](IterInv /\ TreeInv /\ WatchInv)
BY InitIter, NextIter, InitTree, NextTree, InitWatch, NextWatch, PTL DEF Spec

\* A client that follows the events knows, between two calls, what exists: for any
\* names, callbacks and hash functions.  (A callback that writes raises its events
\* in the middle of the outer write's, and the client can be misled.)
THEOREM WatcherKnows ==
    ASSUME MaxDepth = 0
    PROVE  Spec => []WatcherAgrees
<1>1. WatchInv => WatcherAgrees
  <2> SUFFICES ASSUME WatchInv, stack = <<>>
               PROVE  view \subseteq Present /\ \A n \in Present \ view : Lost(n)
    BY DEF WatcherAgrees, Lost
  <2>1. \A n, a : ~Pending(n, a)
    BY DEF Pending, Members
  <2> QED
    BY <2>1, QuietWatch DEF WatchInv
<1> QED
  BY <1>1, WatchInvariance, PTL

\* It is told of a registry before it is told of what is in it.
THEOREM ParentsToldFirst ==
    ASSUME MaxDepth = 0
    PROVE  Spec => ParentsFirst
<1>1. IterInv /\ TreeInv /\ WatchInv /\ [Next]_vars =>
         [\A n \in view' \ view : \A p \in Above(n) :
             p \in view \/ \E q \in Above(p) : Leaf(q)]_vars
  <2> SUFFICES ASSUME IterInv, TreeInv, WatchInv, Next, NEW n \in view' \ view, NEW p \in Above(n)
               PROVE  p \in view \/ Lost(p)
    BY DEF Lost
  <2>0. stack \in Seq(Frames) /\ Present \subseteq Names
    BY DEF IterInv, NodesOK
  <2>1. Visit
    BY DEF Next, ClientStep, CallStep, Add, AddFails, Change, Delete, Fin, Register,
           Unregister, ReinsertRoot, BeginEvent, Climb, Return
  <2>2. PICK f : f = Head(stack)
    OBVIOUS
  <2>3. stack # <<>> /\ f.op = "level" /\ n = f.name /\ f.action = "add"
    BY <2>1, <2>2 DEF Visit, Top, Seen
  <2>4. Members(stack) = {f} \cup Members(Tail(stack))
    BY <2>0, <2>2, <2>3, RestLemma
  <2>5. Adds(f)
    BY <2>3 DEF Adds, Event
  <2>6. n \in Present
    BY <2>3, <2>4, <2>5 DEF WatchInv, TrueInv
  <2>7. p \in Present
    BY <2>6 DEF TreeInv, Closed
  <2>8. Len(n) \in Nat /\ Len(p) \in 1..(Len(n) - 1)
    BY <2>0, <2>6, NameLemma, AboveLemma
  <2>9. ASSUME Pending(p, "add") PROVE FALSE
    <3>1. PICK h \in Members(stack) : Untold(h) /\ h.name = p /\ h.action = "add"
      BY <2>9 DEF Pending
    <3>2. Adds(h)
      BY <3>1 DEF Untold, Adds, Event
    <3>3. CASE h = f
      BY <2>3, <2>8, <3>1, <3>3
    <3>4. CASE h \in Members(Tail(stack))
      <4>1. Before(f, h)
        BY <2>0, <2>2, <2>3, <3>4, OrderLemma DEF WatchInv
      <4>2. Len(n) < Len(p)
        BY <2>3, <2>5, <3>1, <3>2, <4>1 DEF Before
      <4> QED
        BY <2>8, <4>2
    <3> QED
      BY <2>4, <3>3, <3>4
  <2> QED
    BY <2>7, <2>9 DEF WatchInv, SeenInv, Known
<1> QED
  BY <1>1, WatchInvariance, PTL DEF Spec, ParentsFirst
=============================================================================
