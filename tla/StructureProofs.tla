-------------------------- MODULE StructureProofs --------------------------
(***************************************************************************)
(* Proofs about the data structures: the hash table, the lists and the     *)
(* chains of buffers, for any keys, hash function, data, buffer size and   *)
(* bounds.  They do not share state; each has an inductive invariant of    *)
(* its own, which says of which sequences the pointers are an image.       *)
(***************************************************************************)
EXTENDS RAssoc, Containers, CallbackQueueTheorems, FiniteSetTheorems, TLAPS

-----------------------------------------------------------------------------
(* The hash table. *)
Pointers == 0..CellCt
Elements == [key : AssocKeys, prev : Pointers, next : Pointers]

\* The cells of s are linked in this order, from first on.
Linked(h, first, s) ==
    /\ first = IF s = <<>> THEN NULL ELSE s[1]
    /\ \A i \in 1..Len(s) :
          /\ s[i] \in DOMAIN h
          /\ h[s[i]].prev = IF i = 1 THEN NULL ELSE s[i - 1]
          /\ h[s[i]].next = IF i = Len(s) THEN NULL ELSE s[i + 1]

\* A chain is not longer than there are cells.
LEMMA LengthLemma == ASSUME NEW s \in Seq(Cells), NoRepeats(s) PROVE Len(s) \in Nat /\ Len(s) <= CellCt
<1>1. CellCt \in Nat /\ Len(s) \in Nat /\ DOMAIN s = 1..Len(s)
  BY AssocAssumption
<1>2. /\ IsFiniteSet(1..CellCt) /\ Cardinality(1..CellCt) = CellCt
      /\ IsFiniteSet(1..Len(s)) /\ Cardinality(1..Len(s)) = Len(s)
  <2>1. ASSUME NEW n \in Nat PROVE IsFiniteSet(1..n) /\ Cardinality(1..n) = n
    <3>1. 1 \in Int /\ n \in Int /\ (1 > n => n = 0) /\ n - 1 + 1 = n
      OBVIOUS
    <3> QED
      BY <3>1, FS_Interval
  <2> QED
    BY <1>1, <2>1
<1> DEFINE f == [i \in 1..Len(s) |-> s[i]]
<1>3. f \in [1..Len(s) -> 1..CellCt]
  <2>1. \A i \in 1..Len(s) : s[i] \in Cells
    OBVIOUS
  <2> QED
    BY <2>1 DEF Cells
<1> QED
  <2> SUFFICES ASSUME CellCt < Len(s) PROVE FALSE
    BY <1>1
  <2>1. \E x, y \in 1..Len(s) : x # y /\ f[x] = f[y]
    <3> HIDE DEF f
    <3> QED
      BY <1>2, <1>3, FS_PigeonHole
  <2> QED
    BY <2>1 DEF NoRepeats

\* The walk along a chain meets its cells in order, and then NULL.
LEMMA AlongLemma ==
    ASSUME NEW s \in Seq(Cells), NEW first, Linked(heap, first, s)
    PROVE  \A n \in 0..CellCt : Along(first)[n] = IF n < Len(s) THEN s[n + 1] ELSE NULL
<1> DEFINE w == [n \in 0..CellCt |-> IF n < Len(s) THEN s[n + 1] ELSE NULL]
           Step(g) == [n \in 0..CellCt |-> IF n = 0 THEN first ELSE IF g[n - 1] = NULL THEN NULL ELSE heap[g[n - 1]].next]
<1>0. CellCt \in Nat /\ Len(s) \in Nat /\ NULL = 0
  BY AssocAssumption DEF NULL
<1>1. Along(first) = CHOOSE g : g = Step(g)
  BY DEF Along
<1>2. w = Step(w)
  <2>1. ASSUME NEW n \in 0..CellCt PROVE w[n] = Step(w)[n]
    <3>1. CASE n = 0
      <4>1. s # <<>> <=> 0 < Len(s)
        OBVIOUS
      <4> QED
        BY <1>0, <3>1, <4>1 DEF Linked
    <3>2. CASE n # 0 /\ n - 1 < Len(s)
      <4>1. n - 1 \in 0..CellCt /\ n \in 1..Len(s) /\ w[n - 1] = s[n]
        BY <1>0, <3>2
      <4>2. s[n] # NULL /\ heap[s[n]].next = IF n = Len(s) THEN NULL ELSE s[n + 1]
        <5>1. s[n] # NULL
          BY <1>0, <4>1 DEF Cells
        <5>2. \A i \in 1..Len(s) : heap[s[i]].next = IF i = Len(s) THEN NULL ELSE s[i + 1]
          BY <1>0 DEF Linked
        <5> QED
          BY <4>1, <5>1, <5>2
      <4>3. (n < Len(s)) <=> (n # Len(s))
        BY <1>0, <4>1
      <4> QED
        BY <1>0, <3>2, <4>1, <4>2, <4>3
    <3>3. CASE n # 0 /\ ~(n - 1 < Len(s))
      <4>1. n - 1 \in 0..CellCt /\ ~(n < Len(s)) /\ w[n - 1] = NULL
        BY <1>0, <3>3
      <4> QED
        BY <3>3, <4>1
    <3> QED
      BY <3>1, <3>2, <3>3
  <2> QED
    BY <2>1
<1> HIDE DEF w
<1>3. Along(first) = Step(Along(first))
  <2>1. (CHOOSE g : g = Step(g)) = Step(CHOOSE g : g = Step(g))
    BY <1>2, Zenon
  <2> QED
    BY <1>1, <2>1
<1>4. ASSUME NEW n \in 0..CellCt, Along(first)[n] # w[n] PROVE FALSE
  <2> DEFINE D == {m \in 0..CellCt : Along(first)[m] # w[m]}
  <2>1. D \in SUBSET Nat /\ D # {}
    BY <1>4
  <2>2. PICK d \in D : \A e \in D : d <= e
    BY <2>1, LeastLemma
  <2>3. d # 0
    BY <1>2, <1>3, <2>2
  <2>4. d \in 1..CellCt /\ d - 1 \in 0..CellCt /\ d - 1 \notin D
    BY <1>0, <2>2, <2>3
  <2>5. Along(first)[d - 1] = w[d - 1]
    BY <2>4
  <2>6. Step(Along(first))[d] = Step(w)[d]
    BY <2>4, <2>5
  <2> QED
    BY <1>2, <1>3, <2>2, <2>6
<1> QED
  BY <1>4 DEF w

-----------------------------------------------------------------------------
\* The cells of s are the chain c that begins at first: linked in this order, with
\* different keys that belong there.
ChainIs(h, first, s, c) ==
    /\ s \in Seq(Cells) /\ NoRepeats(s)
    /\ Linked(h, first, s)
    /\ \A a \in Members(s) : h[a] \in Elements /\ HashOf[h[a].key] = c
    /\ \A a, b \in Members(s) : h[a].key = h[b].key => a = b

\* A chain stays what it is as long as its cells do.
LEMMA ChainFrame ==
    ASSUME NEW h, NEW first, NEW s, NEW c, ChainIs(h, first, s, c),
           NEW g, \A a \in Members(s) : a \in DOMAIN g /\ g[a] = h[a]
    PROVE  ChainIs(g, first, s, c)
<1>1. \A i \in 1..Len(s) : s[i] \in Members(s)
  BY DEF Members
<1>2. Linked(g, first, s)
  BY <1>1 DEF ChainIs, Linked
<1> QED
  BY <1>2 DEF ChainIs

\* An empty chain.
LEMMA ChainEmpty == ASSUME NEW h, NEW c PROVE ChainIs(h, NULL, <<>>, c)
<1>1. <<>> \in Seq(Cells) /\ Len(<<>>) = 0
  OBVIOUS
<1>2. 1..0 = {}
  OBVIOUS
<1> QED
  BY <1>1, <1>2 DEF ChainIs, Linked, Members, NoRepeats

\* A list with one more in front.
LEMMA FrontLemma ==
    ASSUME NEW S, NEW s \in Seq(S), NEW a \in S
    PROVE  /\ <<a>> \o s \in Seq(S) /\ Len(<<a>> \o s) = Len(s) + 1
           /\ (<<a>> \o s)[1] = a
           /\ \A i \in 1..Len(s) : (<<a>> \o s)[i + 1] = s[i]
           /\ \A i \in 2..(Len(s) + 1) : (<<a>> \o s)[i] = s[i - 1]
           /\ Members(<<a>> \o s) = Members(s) \cup {a}
           /\ NoRepeats(s) /\ a \notin Members(s) => NoRepeats(<<a>> \o s)
<1>1. <<a>> \in Seq(S) /\ Len(<<a>>) = 1 /\ <<a>>[1] = a /\ Len(s) \in Nat
  OBVIOUS
<1> DEFINE z == <<a>> \o s
<1>2. z \in Seq(S) /\ Len(z) = Len(s) + 1
  BY <1>1
<1>3. z[1] = a /\ \A i \in 2..(Len(s) + 1) : z[i] = s[i - 1]
  BY <1>1
<1> HIDE DEF z
<1>4. \A i \in 1..Len(s) : z[i + 1] = s[i]
  BY <1>1, <1>3
<1>5. Members(z) = Members(s) \cup {a}
  <2>1. ASSUME NEW i \in 1..Len(z) PROVE z[i] \in Members(s) \cup {a}
    <3>1. CASE i = 1
      BY <1>3, <3>1
    <3>2. CASE i # 1
      <4>1. i \in 2..(Len(s) + 1) /\ i - 1 \in 1..Len(s)
        BY <1>1, <1>2, <3>2
      <4> QED
        BY <1>3, <4>1 DEF Members
    <3> QED
      BY <3>1, <3>2
  <2>2. ASSUME NEW i \in 1..Len(s) PROVE s[i] \in Members(z)
    <3>1. i + 1 \in 1..Len(z)
      BY <1>1, <1>2
    <3> QED
      BY <1>4, <3>1 DEF Members
  <2>3. a \in Members(z)
    <3>1. 1 \in 1..Len(z)
      BY <1>1, <1>2
    <3> QED
      BY <1>3, <3>1 DEF Members
  <2> QED
    BY <2>1, <2>2, <2>3 DEF Members
<1>6. ASSUME NoRepeats(s), a \notin Members(s) PROVE NoRepeats(z)
  <2> SUFFICES ASSUME NEW i \in 1..Len(z), NEW j \in 1..Len(z), z[i] = z[j] PROVE i = j
    BY DEF NoRepeats
  <2>0. \A k \in 1..Len(z) : k # 1 => k \in 2..(Len(s) + 1) /\ k - 1 \in 1..Len(s) /\ z[k] = s[k - 1]
    BY <1>1, <1>2, <1>3
  <2>1. CASE i = 1 /\ j # 1
    BY <1>3, <1>6, <2>0, <2>1 DEF Members
  <2>2. CASE i # 1 /\ j = 1
    BY <1>3, <1>6, <2>0, <2>2 DEF Members
  <2>3. CASE i # 1 /\ j # 1
    <3>1. i - 1 = j - 1
      BY <1>6, <2>0, <2>3 DEF NoRepeats
    <3> QED
      BY <1>2, <3>1
  <2> QED
    BY <2>1, <2>2, <2>3
<1> QED
  BY <1>2, <1>3, <1>4, <1>5, <1>6 DEF z

\* The chain with one more cell at its head.
PushedOn(h, g, s, first, a) ==
    \A x \in Members(s) : x \in DOMAIN g /\ g[x] = IF x = first THEN [h[x] EXCEPT !.prev = a] ELSE h[x]
HasNot(h, s, k) == \A b \in Members(s) : h[b].key # k
\* r_assoc_insert at the head of a chain.
LEMMA ChainPush ==
    ASSUME NEW h, NEW first, NEW s, NEW c, ChainIs(h, first, s, c),
           NEW a \in Cells, a \notin Members(s), NEW k \in AssocKeys, HashOf[k] = c,
           HasNot(h, s, k),
           NEW g, a \in DOMAIN g, g[a] = [key |-> k, prev |-> NULL, next |-> first],
           PushedOn(h, g, s, first, a)
    PROVE  ChainIs(g, a, <<a>> \o s, c)
<1> DEFINE z == <<a>> \o s
<1>0. CellCt \in Nat /\ Len(s) \in Nat /\ s \in Seq(Cells) /\ NoRepeats(s)
  BY AssocAssumption DEF ChainIs
<1>1. /\ z \in Seq(Cells) /\ Len(z) = Len(s) + 1
      /\ z[1] = a
      /\ \A i \in 2..(Len(s) + 1) : z[i] = s[i - 1]
      /\ Members(z) = Members(s) \cup {a}
      /\ NoRepeats(z)
  BY <1>0, FrontLemma
<1> HIDE DEF z
<1>2. z # <<>>
  BY <1>0, <1>1
<1>3. first \in Pointers
  <2>1. CASE s = <<>>
    BY <1>0, <2>1 DEF ChainIs, Linked, Pointers, NULL
  <2>2. CASE s # <<>>
    <3>1. 1 \in 1..Len(s) /\ first = s[1]
      BY <1>0, <2>2 DEF ChainIs, Linked
    <3> QED
      BY <1>0, <3>1 DEF Cells, Pointers
  <2> QED
    BY <2>1, <2>2
<1>4. a \in Pointers /\ NULL \in Pointers
  BY <1>0 DEF Cells, Pointers, NULL
<1>5. ASSUME NEW x \in Members(s)
      PROVE  /\ g[x] \in Elements /\ g[x].key = h[x].key /\ g[x].next = h[x].next
             /\ x = first => g[x].prev = a
             /\ x # first => g[x].prev = h[x].prev
  <2>1. h[x] \in Elements
    BY DEF ChainIs
  <2>2. CASE x = first
    <3>1. g[x] = [h[x] EXCEPT !.prev = a]
      BY <2>2 DEF PushedOn
    <3> QED
      BY <1>4, <2>1, <2>2, <3>1 DEF Elements
  <2>3. CASE x # first
    <3>1. g[x] = h[x]
      BY <2>3 DEF PushedOn
    <3> QED
      BY <2>1, <2>3, <3>1
  <2> QED
    BY <2>2, <2>3
<1>6. g[a] \in Elements /\ g[a].key = k /\ g[a].prev = NULL /\ g[a].next = first
  BY <1>3, <1>4 DEF Elements
<1>7. Linked(g, a, z)
  <2> SUFFICES ASSUME NEW i \in 1..Len(z)
               PROVE  /\ z[i] \in DOMAIN g
                      /\ g[z[i]].prev = IF i = 1 THEN NULL ELSE z[i - 1]
                      /\ g[z[i]].next = IF i = Len(z) THEN NULL ELSE z[i + 1]
    BY <1>1, <1>2 DEF Linked
  <2>1. CASE i = 1
    <3>1. first = IF i = Len(z) THEN NULL ELSE z[i + 1]
      <4>1. s = <<>> <=> Len(s) = 0
        BY <1>0
      <4>2. CASE Len(s) = 0
        BY <1>1, <2>1, <4>1, <4>2 DEF ChainIs, Linked
      <4>3. CASE Len(s) # 0
        <5>1. 2 \in 2..(Len(s) + 1) /\ z[2] = s[1] /\ i # Len(z)
          BY <1>0, <1>1, <2>1, <4>3
        <5> QED
          BY <2>1, <4>1, <4>3, <5>1 DEF ChainIs, Linked
      <4> QED
        BY <4>2, <4>3
    <3> QED
      BY <1>1, <1>6, <2>1, <3>1
  <2>2. CASE i # 1
    <3> DEFINE m == i - 1
    <3>1. m \in 1..Len(s) /\ z[i] = s[m] /\ i = m + 1 /\ (i = Len(z) <=> m = Len(s))
      BY <1>0, <1>1, <2>2
    <3>2. s[m] \in Members(s)
      BY <3>1 DEF Members
    <3>3. h[s[m]].prev = (IF m = 1 THEN NULL ELSE s[m - 1]) /\ h[s[m]].next = IF m = Len(s) THEN NULL ELSE s[m + 1]
      BY <3>1 DEF ChainIs, Linked
    <3>4. m # Len(s) => z[i + 1] = s[m + 1]
      <4> SUFFICES ASSUME m # Len(s) PROVE z[i + 1] = s[m + 1]
        OBVIOUS
      <4>1. i + 1 \in 2..(Len(s) + 1) /\ (i + 1) - 1 = m + 1
        BY <1>0, <1>1, <3>1
      <4> QED
        BY <1>1, <4>1
    <3>5. CASE m = 1
      <4>1. s[m] = first
        <5>1. s # <<>>
          BY <1>0, <3>1
        <5> QED
          BY <3>5, <5>1 DEF ChainIs, Linked
      <4>2. z[i - 1] = a
        BY <1>1, <3>1, <3>5
      <4> QED
        BY <1>5, <2>2, <3>1, <3>2, <3>3, <3>4, <4>1, <4>2 DEF PushedOn
    <3>6. CASE m # 1
      <4>1. s[m] # first
        <5>1. s # <<>> /\ 1 \in 1..Len(s)
          BY <1>0, <3>1
        <5>2. first = s[1]
          BY <5>1 DEF ChainIs, Linked
        <5> QED
          BY <1>0, <3>1, <3>6, <5>1, <5>2 DEF NoRepeats
      <4>2. z[i - 1] = s[m - 1]
        <5>1. i - 1 \in 2..(Len(s) + 1) /\ (i - 1) - 1 = m - 1
          BY <1>0, <3>1, <3>6
        <5> QED
          BY <1>1, <5>1
      <4> QED
        BY <1>5, <2>2, <3>1, <3>2, <3>3, <3>4, <3>6, <4>1, <4>2 DEF PushedOn
    <3> QED
      BY <3>5, <3>6
  <2> QED
    BY <2>1, <2>2
<1>8. \A b \in Members(z) : g[b] \in Elements /\ HashOf[g[b].key] = c
  BY <1>1, <1>5, <1>6 DEF ChainIs
<1>9. \A b, d \in Members(z) : g[b].key = g[d].key => b = d
  BY <1>1, <1>5, <1>6 DEF ChainIs, HasNot
<1> QED
  BY <1>1, <1>7, <1>8, <1>9 DEF ChainIs, z

\* Unlinking one cell: its neighbours are linked to each other.
CutOut(h, g, s, a) ==
    \A x \in Members(s) \ {a} :
        /\ x \in DOMAIN g
        /\ g[x] = IF x = h[a].prev THEN [h[x] EXCEPT !.next = h[a].next]
                  ELSE IF x = h[a].next THEN [h[x] EXCEPT !.prev = h[a].prev]
                  ELSE h[x]
\* What is left is a chain.
LEMMA ChainCut ==
    ASSUME NEW h, NEW first, NEW s, NEW c, ChainIs(h, first, s, c), NEW a \in Members(s),
           NEW g, NEW first1, first1 = IF h[a].prev = NULL THEN h[a].next ELSE first,
           CutOut(h, g, s, a)
    PROVE  ChainIs(g, first1, Unlink(s, a), c)
<1> DEFINE z == Unlink(s, a)
           p == Position(s, a)
<1>0. CellCt \in Nat /\ Len(s) \in Nat /\ s \in Seq(Cells) /\ NoRepeats(s)
  BY AssocAssumption DEF ChainIs
<1>1. p \in 1..Len(s) /\ s[p] = a
  BY <1>0, PositionLemma
<1>2. /\ z \in Seq(Cells) /\ Len(z) = Len(s) - 1
      /\ \A i \in 1..(Len(s) - 1) : z[i] = IF i < p THEN s[i] ELSE s[i + 1]
      /\ Members(z) = Members(s) \ {a}
  BY <1>0, UnlinkLemma
<1>3. NoRepeats(z)
  BY <1>0, UnlinkLemma
<1> HIDE DEF z, p
<1>4. h[a].prev = (IF p = 1 THEN NULL ELSE s[p - 1]) /\ h[a].next = (IF p = Len(s) THEN NULL ELSE s[p + 1])
  BY <1>1 DEF ChainIs, Linked
<1>5. \A i \in 1..Len(s) : s[i] \in Members(s) /\ s[i] # NULL /\ s[i] \in Pointers /\ s[i] \in Cells
  BY <1>0 DEF Members, Cells, NULL, Pointers
<1>6. NULL \in Pointers /\ NULL \notin Cells
  BY <1>0 DEF NULL, Pointers, Cells
<1>7. h[a].prev \in Pointers /\ h[a].next \in Pointers
  BY DEF ChainIs, Elements
<1>8. ASSUME NEW i \in 1..Len(s), i # p
      PROVE  /\ s[i] \in DOMAIN g /\ g[s[i]] \in Elements /\ g[s[i]].key = h[s[i]].key
             /\ g[s[i]].next = IF i = p - 1 THEN h[a].next ELSE h[s[i]].next
             /\ g[s[i]].prev = IF i = p + 1 THEN h[a].prev ELSE h[s[i]].prev
  <2>1. s[i] \in Members(s) \ {a} /\ h[s[i]] \in Elements
    BY <1>0, <1>1, <1>5, <1>8 DEF NoRepeats, ChainIs
  <2>2. s[i] = h[a].prev <=> i = p - 1
    <3>1. CASE p = 1
      BY <1>4, <1>5, <3>1
    <3>2. CASE p # 1
      <4>1. p - 1 \in 1..Len(s)
        BY <1>0, <1>1, <3>2
      <4> QED
        BY <1>0, <1>4, <3>2, <4>1 DEF NoRepeats
    <3> QED
      BY <3>1, <3>2
  <2>3. s[i] = h[a].next <=> i = p + 1
    <3>1. CASE p = Len(s)
      BY <1>0, <1>4, <1>5, <3>1
    <3>2. CASE p # Len(s)
      <4>1. p + 1 \in 1..Len(s)
        BY <1>0, <1>1, <3>2
      <4> QED
        BY <1>0, <1>4, <3>2, <4>1 DEF NoRepeats
    <3> QED
      BY <3>1, <3>2
  <2>4. ~(i = p - 1 /\ i = p + 1)
    BY <1>0, <1>1
  <2>5. CASE i = p - 1
    <3>1. g[s[i]] = [h[s[i]] EXCEPT !.next = h[a].next] /\ s[i] \in DOMAIN g
      BY <2>1, <2>2, <2>5 DEF CutOut
    <3> QED
      BY <1>7, <2>1, <2>4, <2>5, <3>1 DEF Elements
  <2>6. CASE i = p + 1
    <3>1. g[s[i]] = [h[s[i]] EXCEPT !.prev = h[a].prev] /\ s[i] \in DOMAIN g
      BY <2>1, <2>2, <2>3, <2>4, <2>6 DEF CutOut
    <3> QED
      BY <1>7, <2>1, <2>4, <2>6, <3>1 DEF Elements
  <2>7. CASE i # p - 1 /\ i # p + 1
    <3>1. g[s[i]] = h[s[i]] /\ s[i] \in DOMAIN g
      BY <2>1, <2>2, <2>3, <2>7 DEF CutOut
    <3> QED
      BY <2>1, <2>7, <3>1
  <2> QED
    BY <2>4, <2>5, <2>6, <2>7
<1>9. first1 = IF z = <<>> THEN NULL ELSE z[1]
  <2>0. s # <<>> /\ first = s[1] /\ 1 \in 1..Len(s)
    BY <1>0, <1>1 DEF ChainIs, Linked
  <2>1. CASE p = 1 /\ Len(s) = 1
    <3>1. z = <<>>
      BY <1>2, <2>1
    <3> QED
      BY <1>4, <2>1, <3>1
  <2>2. CASE p = 1 /\ Len(s) # 1
    <3>1. z # <<>> /\ z[1] = s[2]
      <4>1. 1 \in 1..(Len(s) - 1)
        <5>1. Len(s) \in Nat /\ Len(s) # 1 /\ Len(s) # 0
          BY <1>0, <2>0, <2>2
        <5> QED
          BY <5>1
      <4>2. \A i \in 1..(Len(s) - 1) : ~(i < p) => z[i] = s[i + 1]
        BY <1>2
      <4>3. ~(1 < p) /\ 1 + 1 = 2
        BY <2>2
      <4>4. z[1] = s[2]
        BY <4>1, <4>2, <4>3
      <4>5. Len(z) # 0
        BY <1>2, <4>1
      <4> QED
        BY <4>4, <4>5
    <3> QED
      BY <1>4, <2>2, <3>1
  <2>3. CASE p # 1
    <3>1. h[a].prev # NULL
      <4>1. p - 1 \in 1..Len(s)
        BY <1>0, <1>1, <2>3
      <4> QED
        BY <1>4, <1>5, <2>3, <4>1
    <3>2. z # <<>> /\ z[1] = s[1]
      <4>1. 1 \in 1..(Len(s) - 1) /\ 1 < p
        BY <1>0, <1>1, <2>3
      <4> QED
        BY <1>2, <4>1
    <3> QED
      BY <2>0, <3>1, <3>2
  <2> QED
    BY <2>1, <2>2, <2>3
<1>10. ASSUME NEW i \in 1..Len(z)
       PROVE  /\ z[i] \in DOMAIN g
              /\ g[z[i]].prev = IF i = 1 THEN NULL ELSE z[i - 1]
              /\ g[z[i]].next = IF i = Len(z) THEN NULL ELSE z[i + 1]
  <2> DEFINE m == IF i < p THEN i ELSE i + 1
  <2>1. m \in 1..Len(s) /\ m # p /\ z[i] = s[m] /\ i \in 1..(Len(s) - 1) /\ Len(z) = Len(s) - 1
    BY <1>0, <1>1, <1>2
  <2>2. h[s[m]].prev = (IF m = 1 THEN NULL ELSE s[m - 1]) /\ h[s[m]].next = IF m = Len(s) THEN NULL ELSE s[m + 1]
    BY <2>1 DEF ChainIs, Linked
  <2>3. i # 1 => z[i - 1] = IF i - 1 < p THEN s[i - 1] ELSE s[i]
    <3> SUFFICES ASSUME i # 1 PROVE z[i - 1] = IF i - 1 < p THEN s[i - 1] ELSE s[i]
      OBVIOUS
    <3>1. i - 1 \in 1..(Len(s) - 1) /\ (i - 1) + 1 = i
      BY <1>0, <2>1
    <3> QED
      BY <1>2, <3>1
  <2>4. i # Len(z) => z[i + 1] = IF i + 1 < p THEN s[i + 1] ELSE s[i + 2]
    <3> SUFFICES ASSUME i # Len(z) PROVE z[i + 1] = IF i + 1 < p THEN s[i + 1] ELSE s[i + 2]
      OBVIOUS
    <3>1. i + 1 \in 1..(Len(s) - 1) /\ (i + 1) + 1 = i + 2
      BY <1>0, <2>1
    <3> QED
      BY <1>2, <3>1
  <2>5. /\ s[m] \in DOMAIN g
        /\ g[s[m]].next = IF m = p - 1 THEN h[a].next ELSE h[s[m]].next
        /\ g[s[m]].prev = IF m = p + 1 THEN h[a].prev ELSE h[s[m]].prev
    BY <1>8, <2>1
  <2>6. CASE i < p - 1
    <3>1. m = i /\ m # p - 1 /\ m # p + 1 /\ m # Len(s) /\ i # Len(z) /\ i + 1 < p /\ (i # 1 => i - 1 < p)
      BY <1>0, <1>1, <2>1, <2>6
    <3> QED
      BY <2>1, <2>2, <2>3, <2>4, <2>5, <3>1
  <2>7. CASE i = p - 1
    <3>1. m = i /\ m = p - 1 /\ m # p + 1 /\ ~(i + 1 < p) /\ (i # 1 => i - 1 < p) /\ i + 2 = p + 1 /\ (i = Len(z) <=> p = Len(s))
      BY <1>0, <1>1, <2>1, <2>7
    <3> QED
      BY <1>4, <2>1, <2>2, <2>3, <2>4, <2>5, <3>1
  <2>8. CASE i = p
    <3>1. m = p + 1 /\ m # p - 1 /\ ~(i + 1 < p) /\ (i # 1 => i - 1 < p) /\ i + 2 = m + 1 /\ (i = Len(z) <=> m = Len(s))
      BY <1>0, <1>1, <2>1, <2>8
    <3> QED
      BY <1>4, <2>1, <2>2, <2>3, <2>4, <2>5, <2>8, <3>1
  <2>9. CASE i > p
    <3>0. i \in Nat /\ p \in Nat /\ ~(i < p) /\ p >= 1 /\ i > p
      BY <1>0, <1>1, <2>1, <2>9
    <3>a. m = i + 1
      BY <3>0
    <3> HIDE DEF m
    <3>1. /\ m = i + 1 /\ m # p - 1 /\ m # p + 1 /\ ~(i + 1 < p) /\ ~(i - 1 < p) /\ i # 1 /\ m # 1
          /\ i + 2 = m + 1 /\ i = m - 1 /\ (i = Len(z) <=> m = Len(s))
      BY <1>0, <2>1, <3>0, <3>a
    <3>2. g[s[m]].prev = s[m - 1] /\ z[i - 1] = s[i]
      BY <2>2, <2>3, <2>5, <3>1
    <3>3. m - 1 = i
      BY <3>0, <3>a
    <3>4. g[s[m]].next = h[s[m]].next /\ (m # Len(s) => z[i + 1] = s[m + 1])
      BY <2>4, <2>5, <3>1
    <3> QED
      BY <2>1, <2>2, <2>5, <3>1, <3>2, <3>3, <3>4
  <2>10. i < p - 1 \/ i = p - 1 \/ i = p \/ i > p
    BY <1>0, <1>1, <2>1
  <2> QED
    BY <2>6, <2>7, <2>8, <2>9, <2>10
<1>11. Linked(g, first1, z)
  BY <1>9, <1>10 DEF Linked
<1>12. ASSUME NEW b \in Members(z) PROVE g[b] \in Elements /\ g[b].key = h[b].key /\ b \in Members(s)
  <2>1. PICK i \in 1..Len(s) : b = s[i]
    BY <1>2 DEF Members
  <2>2. i # p
    BY <1>1, <1>2, <2>1
  <2> QED
    BY <1>2, <1>8, <2>1, <2>2
<1>13. \A b \in Members(z) : g[b] \in Elements /\ HashOf[g[b].key] = c
  BY <1>12 DEF ChainIs
<1>14. \A b, d \in Members(z) : g[b].key = g[d].key => b = d
  BY <1>12 DEF ChainIs
<1> QED
  BY <1>2, <1>3, <1>11, <1>13, <1>14 DEF ChainIs, z

-----------------------------------------------------------------------------
(* All chains of both tables. *)
ChainNos == 0..(ChainCt - 1)
CellsIn(q, t) == UNION {Members(q[t][c]) : c \in ChainNos}

\* What it is to be a cell of one of the tables.
LEMMA CellsLemma ==
    ASSUME NEW q, NEW a
    PROVE  a \in UNION {CellsIn(q, t) : t \in Tables} <=> \E t \in Tables, c \in ChainNos : a \in Members(q[t][c])
  BY DEF CellsIn

\* No cell is in two chains.
Apart(q) ==
    \A t, u \in Tables, c, d \in ChainNos :
        \A a \in Members(q[t][c]) : a \in Members(q[u][d]) => t = u /\ c = d

\* q says which cells are in which chain.
Laid(h, ch, q) ==
    /\ q \in [Tables -> [ChainNos -> Seq(Cells)]]
    /\ Apart(q)
    /\ DOMAIN h = UNION {CellsIn(q, t) : t \in Tables}
    /\ \A t \in Tables, c \in ChainNos : ChainIs(h, ch[t][c], q[t][c], c)

IsTable(q, S) == q \in [Tables -> [ChainNos -> S]]
Put(q, t, c, s) == [q EXCEPT ![t] = [q[t] EXCEPT ![c] = s]]

\* One chain is replaced.
LEMMA PutLemma ==
    ASSUME NEW S, NEW q, IsTable(q, S), NEW t \in Tables, NEW c \in ChainNos, NEW s \in S
    PROVE  /\ IsTable(Put(q, t, c, s), S)
           /\ Put(q, t, c, s)[t][c] = s
           /\ \A u \in Tables, d \in ChainNos : u # t \/ d # c => Put(q, t, c, s)[u][d] = q[u][d]
<1> DEFINE r == [q[t] EXCEPT ![c] = s]
<1>1. q \in [Tables -> [ChainNos -> S]] /\ q[t] \in [ChainNos -> S]
  BY DEF IsTable
<1>2. r \in [ChainNos -> S] /\ r[c] = s /\ \A d \in ChainNos : d # c => r[d] = q[t][d]
  BY <1>1
<1> HIDE DEF r
<1>3. Put(q, t, c, s) = [q EXCEPT ![t] = r]
  BY DEF Put, r
<1>4. IsTable(Put(q, t, c, s), S)
  BY <1>1, <1>2, <1>3 DEF IsTable
<1>5. Put(q, t, c, s)[t] = r /\ \A u \in Tables : u # t => Put(q, t, c, s)[u] = q[u]
  BY <1>1, <1>3
<1> QED
  BY <1>2, <1>4, <1>5

\* The chains but one are as they were.
Others(h, g, ch, dh, q, t, c) ==
    \A u \in Tables, d \in ChainNos : u # t \/ d # c =>
        dh[u][d] = ch[u][d] /\ \A a \in Members(q[u][d]) : a \in DOMAIN g /\ g[a] = h[a]

\* The cells of the chain that replaces another come from there or are new.
Renewed(h, g, q, t, c, s) ==
    /\ \A a \in Members(s) : a \in Members(q[t][c]) \/ a \notin DOMAIN h
    /\ DOMAIN g = (DOMAIN h \ Members(q[t][c])) \cup Members(s)

\* A change of one chain.
LEMMA LaidPut ==
    ASSUME NEW h, NEW ch, NEW q, Laid(h, ch, q), NEW t \in Tables, NEW c \in ChainNos,
           NEW g, NEW dh, NEW s, ChainIs(g, dh[t][c], s, c),
           Others(h, g, ch, dh, q, t, c), Renewed(h, g, q, t, c, s)
    PROVE  Laid(g, dh, Put(q, t, c, s))
<1> DEFINE z == Put(q, t, c, s)
<1>0. s \in Seq(Cells) /\ q \in [Tables -> [ChainNos -> Seq(Cells)]]
  BY DEF ChainIs, Laid
<1>1. /\ z \in [Tables -> [ChainNos -> Seq(Cells)]]
      /\ z[t][c] = s
      /\ \A u \in Tables, d \in ChainNos : u # t \/ d # c => z[u][d] = q[u][d]
  <2> DEFINE S == Seq(Cells)
  <2>1. s \in S /\ IsTable(q, S)
    BY <1>0 DEF IsTable
  <2> HIDE DEF S
  <2>2. /\ IsTable(z, S)
        /\ z[t][c] = s
        /\ \A u \in Tables, d \in ChainNos : u # t \/ d # c => z[u][d] = q[u][d]
    BY <2>1, PutLemma
  <2> QED
    BY <2>2 DEF S, IsTable
<1> HIDE DEF z
<1>2. \A u \in Tables, d \in ChainNos : \A a \in Members(q[u][d]) : a \in DOMAIN h
  BY DEF Laid, CellsIn
<1>3. Apart(z)
  <2> SUFFICES ASSUME NEW u \in Tables, NEW v \in Tables, NEW d \in ChainNos, NEW e \in ChainNos,
                      NEW a \in Members(z[u][d]), a \in Members(z[v][e])
               PROVE  u = v /\ d = e
    BY DEF Apart
  <2>1. CASE (u # t \/ d # c) /\ (v # t \/ e # c)
    <3>1. a \in Members(q[u][d]) /\ a \in Members(q[v][e])
      BY <1>1, <2>1
    <3>2. Apart(q)
      BY DEF Laid
    <3> QED
      BY <3>1, <3>2 DEF Apart
  <2>2. CASE (u = t /\ d = c) /\ (v # t \/ e # c)
    <3>1. a \in Members(s) /\ a \in Members(q[v][e])
      BY <1>1, <2>2
    <3>2. a \in Members(q[t][c])
      BY <1>2, <3>1 DEF Renewed
    <3> QED
      BY <2>2, <3>1, <3>2 DEF Laid, Apart
  <2>3. CASE (u # t \/ d # c) /\ (v = t /\ e = c)
    <3>1. a \in Members(s) /\ a \in Members(q[u][d])
      BY <1>1, <2>3
    <3>2. a \in Members(q[t][c])
      BY <1>2, <3>1 DEF Renewed
    <3> QED
      BY <2>3, <3>1, <3>2 DEF Laid, Apart
  <2> QED
    BY <2>1, <2>2, <2>3
<1>4. DOMAIN g = UNION {CellsIn(z, u) : u \in Tables}
  <2>1. ASSUME NEW a \in DOMAIN g PROVE \E u \in Tables, d \in ChainNos : a \in Members(z[u][d])
    <3>1. CASE a \in Members(s)
      BY <1>1, <3>1
    <3>2. CASE a \notin Members(s)
      <4>1. a \in DOMAIN h /\ a \notin Members(q[t][c])
        BY <2>1, <3>2 DEF Renewed
      <4>2. PICK u \in Tables, d \in ChainNos : a \in Members(q[u][d])
        BY <4>1 DEF Laid, CellsIn
      <4> QED
        BY <1>1, <4>1, <4>2
    <3> QED
      BY <3>1, <3>2
  <2>2. ASSUME NEW u \in Tables, NEW d \in ChainNos, NEW a \in Members(z[u][d]) PROVE a \in DOMAIN g
    <3>1. CASE u = t /\ d = c
      <4>1. a \in Members(s)
        BY <1>1, <3>1
      <4> QED
        BY <4>1 DEF Renewed
    <3>2. CASE u # t \/ d # c
      <4>1. a \in Members(q[u][d])
        BY <1>1, <3>2
      <4> QED
        BY <3>2, <4>1 DEF Others
    <3> QED
      BY <3>1, <3>2
  <2>3. \A a : a \in DOMAIN g <=> a \in UNION {CellsIn(z, u) : u \in Tables}
    BY <2>1, <2>2, CellsLemma
  <2> QED
    BY <2>3
<1>5. ASSUME NEW u \in Tables, NEW d \in ChainNos PROVE ChainIs(g, dh[u][d], z[u][d], d)
  <2>1. CASE u = t /\ d = c
    BY <1>1, <2>1
  <2>2. CASE u # t \/ d # c
    <3>1. ChainIs(h, ch[u][d], q[u][d], d)
      BY DEF Laid
    <3>2. dh[u][d] = ch[u][d] /\ \A a \in Members(q[u][d]) : a \in DOMAIN g /\ g[a] = h[a]
      BY <2>2 DEF Others
    <3>3. ChainIs(g, ch[u][d], q[u][d], d)
      BY <3>1, <3>2, ChainFrame
    <3> QED
      BY <1>1, <2>2, <3>2, <3>3
  <2> QED
    BY <2>1, <2>2
<1> QED
  BY <1>1, <1>3, <1>4, <1>5 DEF Laid, z

-----------------------------------------------------------------------------
\* A walk along a chain meets exactly its cells.
LEMMA WalkLemma ==
    ASSUME NEW q, Laid(heap, chains, q), NEW t \in Tables
    PROVE  (\A c \in ChainNos : ChainOf(t, c) = Members(q[t][c])) /\ CellsOf(t) = CellsIn(q, t)
<1>1. ASSUME NEW c \in ChainNos PROVE ChainOf(t, c) = Members(q[t][c])
  <2> DEFINE s == q[t][c]
             walk == Along(chains[t][c])
  <2>1. s \in Seq(Cells) /\ NoRepeats(s) /\ Linked(heap, chains[t][c], s)
    BY DEF Laid, ChainIs
  <2>2. \A n \in 0..CellCt : walk[n] = IF n < Len(s) THEN s[n + 1] ELSE NULL
    <3> HIDE DEF s
    <3> QED
      BY <2>1, AlongLemma
  <2>3. Len(s) \in Nat /\ Len(s) <= CellCt /\ CellCt \in Nat
    <3> HIDE DEF s
    <3> QED
      BY <2>1, LengthLemma, AssocAssumption
  <2>4. ChainOf(t, c) = {walk[n] : n \in 0..CellCt} \ {NULL}
    BY DEF ChainOf
  <2> HIDE DEF s, walk
  <2>5. ASSUME NEW n \in 0..CellCt, walk[n] # NULL PROVE walk[n] \in Members(s)
    <3>1. n < Len(s) /\ n + 1 \in 1..Len(s) /\ walk[n] = s[n + 1]
      BY <2>2, <2>3, <2>5
    <3> QED
      BY <3>1 DEF Members
  <2>6. ASSUME NEW i \in 1..Len(s) PROVE s[i] # NULL /\ \E n \in 0..CellCt : s[i] = walk[n]
    <3>1. i - 1 \in 0..CellCt /\ i - 1 < Len(s) /\ (i - 1) + 1 = i
      BY <2>3
    <3>2. walk[i - 1] = s[i]
      BY <2>2, <3>1
    <3>3. s[i] \in Cells /\ NULL \notin Cells
      BY <2>1, <2>3 DEF NULL, Cells
    <3> QED
      BY <3>1, <3>2, <3>3
  <2>7. {walk[n] : n \in 0..CellCt} \ {NULL} = Members(s)
    BY <2>5, <2>6 DEF Members
  <2> QED
    BY <2>4, <2>7 DEF s
<1>2. CellsOf(t) = CellsIn(q, t)
  BY <1>1 DEF CellsOf, CellsIn, ChainNos
<1> QED
  BY <1>1, <1>2

\* r_assoc_fetch_bucket finds the cell of a key, and only that.
LEMMA BucketLemma ==
    ASSUME NEW q, Laid(heap, chains, q), NEW t \in Tables, NEW k \in AssocKeys
    PROVE  /\ HashOf[k] \in ChainNos
           /\ Bucket(t, k) # NULL => Bucket(t, k) \in Members(q[t][HashOf[k]]) /\ heap[Bucket(t, k)].key = k
           /\ \A a \in Members(q[t][HashOf[k]]) : heap[a].key = k => Bucket(t, k) = a
<1> DEFINE c == HashOf[k]
           s == q[t][c]
           walk == Along(chains[t][c])
           hits == {n \in 0..CellCt : walk[n] # NULL /\ heap[walk[n]].key = k}
<1>0. c \in ChainNos
  BY AssocAssumption DEF ChainNos
<1>1. s \in Seq(Cells) /\ NoRepeats(s) /\ Linked(heap, chains[t][c], s)
  BY <1>0 DEF Laid, ChainIs
<1>2. \A n \in 0..CellCt : walk[n] = IF n < Len(s) THEN s[n + 1] ELSE NULL
  <2> HIDE DEF s
  <2> QED
    BY <1>1, AlongLemma
<1>3. Len(s) \in Nat /\ Len(s) <= CellCt /\ CellCt \in Nat
  <2> HIDE DEF s
  <2> QED
    BY <1>1, LengthLemma, AssocAssumption
<1>4. Bucket(t, k) = IF hits = {} THEN NULL ELSE walk[Least(hits)]
  BY DEF Bucket
<1>5. \A a, b \in Members(s) : heap[a].key = heap[b].key => a = b
  BY <1>0 DEF Laid, ChainIs
<1> HIDE DEF c, s, walk
<1>6. ASSUME NEW n \in 0..CellCt, walk[n] # NULL PROVE walk[n] \in Members(s)
  <2>1. n < Len(s) /\ n + 1 \in 1..Len(s) /\ walk[n] = s[n + 1]
    BY <1>2, <1>3, <1>6
  <2> QED
    BY <2>1 DEF Members
<1>7. hits # {} => Least(hits) \in hits
  <2> SUFFICES ASSUME hits # {} PROVE Least(hits) \in hits
    OBVIOUS
  <2>1. hits \in SUBSET Nat
    BY <1>3
  <2> HIDE DEF hits
  <2>2. \E d \in hits : \A e \in hits : d <= e
    BY <2>1, LeastLemma
  <2> QED
    BY <2>2 DEF Least
<1>8. Bucket(t, k) # NULL => Bucket(t, k) \in Members(s) /\ heap[Bucket(t, k)].key = k
  BY <1>4, <1>6, <1>7
<1>9. ASSUME NEW a \in Members(s), heap[a].key = k PROVE Bucket(t, k) = a
  <2>1. PICK i \in 1..Len(s) : s[i] = a
    BY DEF Members
  <2>2. i - 1 \in 0..CellCt /\ i - 1 < Len(s) /\ (i - 1) + 1 = i
    BY <1>3
  <2>3. walk[i - 1] = a
    BY <1>2, <2>1, <2>2
  <2>4. a # NULL
    <3>1. a \in Cells
      BY <1>1, <2>1
    <3> QED
      BY <1>3, <3>1 DEF Cells, NULL
  <2>5. hits # {} /\ Least(hits) \in hits
    BY <1>7, <1>9, <2>2, <2>3, <2>4
  <2>6. Bucket(t, k) \in Members(s) /\ heap[Bucket(t, k)].key = k
    BY <1>4, <1>6, <2>5
  <2> QED
    BY <1>5, <1>9, <2>6
<1> QED
  BY <1>0, <1>8, <1>9 DEF s, c

-----------------------------------------------------------------------------
\* The cells of the tables are finitely many, and each is in one table.
LEMMA LaidCells ==
    ASSUME NEW h, NEW ch, NEW q, Laid(h, ch, q)
    PROVE  /\ DOMAIN h \in SUBSET Cells /\ IsFiniteSet(DOMAIN h) /\ Cardinality(DOMAIN h) \in Nat
           /\ \A t \in Tables : /\ CellsIn(q, t) \in SUBSET DOMAIN h /\ IsFiniteSet(CellsIn(q, t))
                                /\ Cardinality(CellsIn(q, t)) \in Nat
           /\ \A t, u \in Tables : \A a \in CellsIn(q, t) : a \in CellsIn(q, u) => t = u
           /\ \A t \in Tables, c \in ChainNos : Members(q[t][c]) \in SUBSET DOMAIN h
<1>1. CellCt \in Nat /\ IsFiniteSet(Cells)
  <2>1. CellCt \in Nat /\ 1 \in Int /\ CellCt \in Int
    BY AssocAssumption
  <2> QED
    BY <2>1, FS_Interval DEF Cells
<1>2. ASSUME NEW t \in Tables, NEW c \in ChainNos PROVE Members(q[t][c]) \in SUBSET Cells
  <2>1. q[t][c] \in Seq(Cells)
    BY DEF Laid, ChainIs
  <2> QED
    BY <2>1, MembersLemma
<1>3. DOMAIN h \in SUBSET Cells
  BY <1>2, CellsLemma DEF Laid
<1>4. IsFiniteSet(DOMAIN h) /\ Cardinality(DOMAIN h) \in Nat
  <2>1. IsFiniteSet(DOMAIN h)
    BY <1>1, <1>3, FS_Subset
  <2> QED
    BY <2>1, FS_CardinalityType
<1>5. ASSUME NEW t \in Tables
      PROVE  CellsIn(q, t) \in SUBSET DOMAIN h /\ IsFiniteSet(CellsIn(q, t)) /\ Cardinality(CellsIn(q, t)) \in Nat
  <2>1. CellsIn(q, t) \in SUBSET DOMAIN h
    BY DEF Laid
  <2>2. IsFiniteSet(CellsIn(q, t))
    BY <1>4, <2>1, FS_Subset
  <2> QED
    BY <2>1, <2>2, FS_CardinalityType
<1>6. ASSUME NEW t \in Tables, NEW u \in Tables, NEW a \in CellsIn(q, t), a \in CellsIn(q, u) PROVE t = u
  <2>1. PICK c \in ChainNos : a \in Members(q[t][c])
    BY DEF CellsIn
  <2>2. PICK d \in ChainNos : a \in Members(q[u][d])
    BY <1>6 DEF CellsIn
  <2>3. Apart(q)
    BY DEF Laid
  <2> QED
    BY <2>1, <2>2, <2>3 DEF Apart
<1>7. ASSUME NEW t \in Tables, NEW c \in ChainNos PROVE Members(q[t][c]) \in SUBSET DOMAIN h
  BY <1>5 DEF CellsIn
<1> QED
  BY <1>3, <1>4, <1>5, <1>6, <1>7

\* The neighbours of a cell are in its chain.
LEMMA Neighbours ==
    ASSUME NEW h, NEW first, NEW s, NEW c, ChainIs(h, first, s, c), NEW a \in Members(s)
    PROVE  h[a].prev \in Members(s) \cup {NULL} /\ h[a].next \in Members(s) \cup {NULL}
<1>1. PICK i \in 1..Len(s) : s[i] = a
  BY DEF Members
<1>2. /\ h[a].prev = IF i = 1 THEN NULL ELSE s[i - 1]
      /\ h[a].next = IF i = Len(s) THEN NULL ELSE s[i + 1]
  BY <1>1 DEF ChainIs, Linked
<1>3. Len(s) \in Nat
  BY DEF ChainIs
<1>4. (i # 1 => i - 1 \in 1..Len(s)) /\ (i # Len(s) => i + 1 \in 1..Len(s))
  BY <1>3
<1> QED
  BY <1>2, <1>4 DEF Members

\* The keys of the cells that stay are the same.
SameKeys(h, g, S) == \A x \in S : g[x].key = h[x].key

\* What r_assoc_delete and r_assoc_iter_delete do to the chains.
LEMMA UnlinkLaid ==
    ASSUME NEW q, Laid(heap, chains, q), IsTable(chains, Pointers), NEW t \in Tables, NEW c \in ChainNos,
           NEW a \in Members(q[t][c]), UnlinkCell(t, c, a)
    PROVE  /\ Laid(heap', chains', Put(q, t, c, Unlink(q[t][c], a)))
           /\ IsTable(chains', Pointers)
           /\ DOMAIN heap' = DOMAIN heap \ {a}
           /\ SameKeys(heap, heap', DOMAIN heap')
<1> DEFINE s == q[t][c]
           el == heap[a]
<1>1. ChainIs(heap, chains[t][c], s, c) /\ el \in Elements /\ s \in Seq(Cells) /\ NoRepeats(s)
  BY DEF Laid, ChainIs
<1>2. a \in DOMAIN heap /\ s \in Seq(Cells) /\ Members(s) \in SUBSET DOMAIN heap
  BY <1>1, LaidCells
<1>3. heap' = [x \in DOMAIN heap \ {a} |->
                 IF x = el.prev THEN [heap[x] EXCEPT !.next = el.next]
                 ELSE IF x = el.next THEN [heap[x] EXCEPT !.prev = el.prev]
                 ELSE heap[x]]
  BY DEF UnlinkCell
<1>4. DOMAIN heap' = DOMAIN heap \ {a}
  BY <1>3
<1>5. CutOut(heap, heap', s, a)
  BY <1>2, <1>3 DEF CutOut
<1>6. el.prev \in Members(s) \cup {NULL} /\ el.next \in Members(s) \cup {NULL}
  BY <1>1, Neighbours
<1>7. ASSUME NEW x \in DOMAIN heap, x \notin Members(s) PROVE x \in DOMAIN heap' /\ heap'[x] = heap[x]
  <2>1. x \in Cells /\ NULL \notin Cells
    <3>1. CellCt \in Nat
      BY AssocAssumption
    <3> QED
      BY <3>1, LaidCells DEF NULL, Cells
  <2>2. x # el.prev /\ x # el.next /\ x # a
    BY <1>6, <1>7, <2>1
  <2> QED
    BY <1>3, <2>2
<1>8. SameKeys(heap, heap', DOMAIN heap')
  <2> SUFFICES ASSUME NEW x \in DOMAIN heap' PROVE heap'[x].key = heap[x].key
    BY DEF SameKeys
  <2>1. CASE x \notin Members(s)
    BY <1>4, <1>7, <2>1
  <2>2. CASE x \in Members(s)
    <3>1. heap[x] \in Elements /\ x # a
      BY <1>1, <1>4, <2>2 DEF ChainIs
    <3>2. heap'[x] \in {heap[x], [heap[x] EXCEPT !.next = el.next], [heap[x] EXCEPT !.prev = el.prev]}
      BY <1>3, <1>4
    <3>3. CASE heap'[x] = heap[x]
      BY <3>3
    <3>4. CASE heap'[x] = [heap[x] EXCEPT !.next = el.next]
      BY <3>1, <3>4 DEF Elements
    <3>5. CASE heap'[x] = [heap[x] EXCEPT !.prev = el.prev]
      BY <3>1, <3>5 DEF Elements
    <3> QED
      BY <3>2, <3>3, <3>4, <3>5
  <2> QED
    BY <2>1, <2>2
<1>9. /\ chains'[t][c] = IF el.prev = NULL THEN el.next ELSE chains[t][c]
      /\ \A u \in Tables, d \in ChainNos : u # t \/ d # c => chains'[u][d] = chains[u][d]
      /\ IsTable(chains', Pointers)
  <2>1. CASE el.prev = NULL
    <3>1. chains' = Put(chains, t, c, el.next)
      BY <2>1 DEF UnlinkCell, Put
    <3>2. el.next \in Pointers
      BY <1>1 DEF Elements
    <3> DEFINE z == Put(chains, t, c, el.next)
    <3>3. /\ IsTable(z, Pointers) /\ z[t][c] = el.next
          /\ \A u \in Tables, d \in ChainNos : u # t \/ d # c => z[u][d] = chains[u][d]
      BY <3>2, PutLemma
    <3> HIDE DEF z
    <3>4. chains' = z
      BY <3>1 DEF z
    <3> QED
      BY <2>1, <3>3, <3>4
  <2>2. CASE el.prev # NULL
    BY <2>2 DEF UnlinkCell
  <2> QED
    BY <2>1, <2>2
<1>10. /\ Members(Unlink(s, a)) = Members(s) \ {a}
  BY <1>1, UnlinkLemma
<1> HIDE DEF s, el
<1>11. ChainIs(heap', chains'[t][c], Unlink(s, a), c)
  <2>1. a \in Members(s)
    BY DEF s
  <2>2. chains'[t][c] = IF heap[a].prev = NULL THEN heap[a].next ELSE chains[t][c]
    BY <1>9 DEF el
  <2> QED
    BY <1>1, <1>5, <2>1, <2>2, ChainCut
<1>12. Others(heap, heap', chains, chains', q, t, c)
  <2> SUFFICES ASSUME NEW u \in Tables, NEW d \in ChainNos, u # t \/ d # c, NEW b \in Members(q[u][d])
               PROVE  b \in DOMAIN heap' /\ heap'[b] = heap[b]
    BY <1>9 DEF Others
  <2>1. b \in DOMAIN heap
    BY LaidCells
  <2>2. b \notin Members(s)
    BY DEF Laid, Apart, s
  <2> QED
    BY <1>7, <2>1, <2>2
<1>13. Renewed(heap, heap', q, t, c, Unlink(s, a))
  <2>1. Members(q[t][c]) = Members(s) /\ a \in Members(s)
    BY DEF s
  <2> QED
    BY <1>2, <1>4, <1>10, <2>1 DEF Renewed
<1>14. Laid(heap', chains', Put(q, t, c, Unlink(s, a)))
  BY <1>11, <1>12, <1>13, LaidPut
<1> QED
  BY <1>4, <1>8, <1>9, <1>14 DEF s

\* What r_assoc_insert of a new key does to the chains.
LEMMA InsertLaid ==
    ASSUME NEW q, Laid(heap, chains, q), IsTable(chains, Pointers), NEW t \in Tables, NEW k \in AssocKeys,
           InsertNew(t, k)
    PROVE  \E a \in Cells \ DOMAIN heap :
              /\ Laid(heap', chains', Put(q, t, HashOf[k], <<a>> \o q[t][HashOf[k]]))
              /\ IsTable(chains', Pointers)
              /\ DOMAIN heap' = DOMAIN heap \cup {a}
              /\ SameKeys(heap, heap', DOMAIN heap) /\ heap'[a].key = k
<1> DEFINE c == HashOf[k]
           s == q[t][c]
           first == chains[t][c]
           a0 == Least(Cells \ DOMAIN heap)
<1>0. c \in ChainNos /\ CellCt \in Nat
  BY AssocAssumption DEF ChainNos
<1>1. a0 \in Cells \ DOMAIN heap
  <2> DEFINE F == Cells \ DOMAIN heap
  <2>1. F \in SUBSET Nat /\ F # {}
    BY <1>0 DEF InsertNew, Cells
  <2> HIDE DEF F
  <2>2. \E d \in F : \A e \in F : d <= e
    BY <2>1, LeastLemma
  <2>3. Least(F) \in F
    BY <2>2 DEF Least
  <2> QED
    BY <2>3 DEF F
<1>2. /\ heap' = [x \in DOMAIN heap \cup {a0} |->
                    IF x = a0 THEN [key |-> k, prev |-> NULL, next |-> first]
                    ELSE IF x = first THEN [heap[x] EXCEPT !.prev = a0] ELSE heap[x]]
      /\ chains' = Put(chains, t, c, a0)
  BY DEF InsertNew, Put
<1> HIDE DEF a0
<1>3. PICK a \in Cells \ DOMAIN heap : a = a0
  BY <1>1
<1>4. /\ heap' = [x \in DOMAIN heap \cup {a} |->
                    IF x = a THEN [key |-> k, prev |-> NULL, next |-> first]
                    ELSE IF x = first THEN [heap[x] EXCEPT !.prev = a] ELSE heap[x]]
      /\ chains' = Put(chains, t, c, a)
  BY <1>2, <1>3
<1>5. /\ DOMAIN heap' = DOMAIN heap \cup {a}
      /\ heap'[a] = [key |-> k, prev |-> NULL, next |-> first]
      /\ heap'[a].key = k
      /\ \A x \in DOMAIN heap : heap'[x] = IF x = first THEN [heap[x] EXCEPT !.prev = a] ELSE heap[x]
  BY <1>4
<1>6. ChainIs(heap, first, s, c) /\ s \in Seq(Cells) /\ NoRepeats(s) /\ Members(s) \in SUBSET DOMAIN heap
  <2>1. ChainIs(heap, first, s, c)
    BY <1>0 DEF Laid
  <2> QED
    BY <1>0, <2>1, LaidCells DEF ChainIs
<1>7. PushedOn(heap, heap', s, first, a)
  BY <1>5, <1>6 DEF PushedOn
<1>8. HasNot(heap, s, k)
  <2> SUFFICES ASSUME NEW b \in Members(s), heap[b].key = k PROVE FALSE
    BY DEF HasNot
  <2>1. Bucket(t, k) = b
    BY BucketLemma
  <2>2. b \in Cells /\ NULL \notin Cells
    BY <1>0, <1>6, LaidCells DEF NULL, Cells
  <2> QED
    BY <2>1, <2>2 DEF InsertNew
<1>9. a \in Pointers
  BY <1>0 DEF Cells, Pointers
<1> DEFINE z == Put(chains, t, c, a)
<1>10. /\ IsTable(z, Pointers) /\ z[t][c] = a
       /\ \A u \in Tables, d \in ChainNos : u # t \/ d # c => z[u][d] = chains[u][d]
  BY <1>0, <1>9, PutLemma
<1>11. chains' = z
  BY <1>4
<1>12. first \in Members(s) \cup {NULL}
  <2>1. CASE s = <<>>
    BY <1>6, <2>1 DEF ChainIs, Linked
  <2>2. CASE s # <<>>
    <3>1. 1 \in 1..Len(s)
      BY <1>6, <2>2
    <3> QED
      BY <1>6, <2>2, <3>1 DEF ChainIs, Linked, Members
  <2> QED
    BY <2>1, <2>2
<1>13. ASSUME NEW x \in DOMAIN heap, x \notin Members(s) PROVE x \in DOMAIN heap' /\ heap'[x] = heap[x]
  <2>1. x \in Cells /\ NULL \notin Cells
    BY <1>0, LaidCells DEF NULL, Cells
  <2>2. x # first
    BY <1>12, <1>13, <2>1
  <2> QED
    BY <1>5, <2>2
<1>14. SameKeys(heap, heap', DOMAIN heap)
  <2> SUFFICES ASSUME NEW x \in DOMAIN heap PROVE heap'[x].key = heap[x].key
    BY DEF SameKeys
  <2>1. CASE x \notin Members(s)
    BY <1>13, <2>1
  <2>2. CASE x \in Members(s)
    <3>1. heap[x] \in Elements
      BY <1>6, <2>2 DEF ChainIs
    <3>2. heap'[x] = heap[x] \/ heap'[x] = [heap[x] EXCEPT !.prev = a]
      BY <1>5
    <3> QED
      BY <3>1, <3>2 DEF Elements
  <2> QED
    BY <2>1, <2>2
<1> HIDE DEF z, s, c, first
<1>15. /\ <<a>> \o s \in Seq(Cells) /\ Members(<<a>> \o s) = Members(s) \cup {a}
  BY <1>6, FrontLemma
<1>16. ChainIs(heap', chains'[t][c], <<a>> \o s, c)
  <2>1. a \notin Members(s) /\ a \in DOMAIN heap' /\ HashOf[k] = c /\ chains'[t][c] = a
    BY <1>5, <1>6, <1>10, <1>11 DEF c
  <2>2. ChainIs(heap', a, <<a>> \o s, c)
    BY <1>5, <1>6, <1>7, <1>8, <2>1, ChainPush
  <2> QED
    BY <2>1, <2>2
<1>17. Others(heap, heap', chains, chains', q, t, c)
  <2> SUFFICES ASSUME NEW u \in Tables, NEW d \in ChainNos, u # t \/ d # c, NEW b \in Members(q[u][d])
               PROVE  b \in DOMAIN heap' /\ heap'[b] = heap[b]
    BY <1>10, <1>11 DEF Others
  <2>1. b \in DOMAIN heap
    BY LaidCells
  <2>2. b \notin Members(s)
    BY <1>0 DEF Laid, Apart, s
  <2> QED
    BY <1>13, <2>1, <2>2
<1>18. Renewed(heap, heap', q, t, c, <<a>> \o s)
  <2>1. Members(q[t][c]) = Members(s)
    BY DEF s
  <2> QED
    BY <1>5, <1>6, <1>15, <2>1 DEF Renewed
<1>19. Laid(heap', chains', Put(q, t, c, <<a>> \o s))
  BY <1>0, <1>16, <1>17, <1>18, LaidPut
<1> QED
  BY <1>5, <1>10, <1>11, <1>14, <1>19 DEF s, c

-----------------------------------------------------------------------------
(* The iterator. *)
\* The cells that an iterator at cell n of chain m has yet to return.
Ahead(q, m, n) ==
    {a \in Cells : \E c \in ChainNos :
        /\ a \in Members(q["old"][c])
        /\ c > m \/ (c = m /\ Position(q["old"][c], n) <= Position(q["old"][c], a))}

\* Where the next cell is, what it will still return and what it has returned.
NextOK(q, h, m, n, vis, las) ==
    /\ m \in ChainNos /\ n \in Members(q["old"][m])
    /\ \A k \in las : \E a \in Ahead(q, m, n) : h[a].key = k
    /\ \A a \in Ahead(q, m, n) : vis[h[a].key] = 0
    /\ \A k \in AssocKeys : vis[k] # 0 => HashOf[k] <= m

IterPlaces == Cells \cup {NULL, DANGLING}

IterOK(q, h, it, vis, las) ==
    /\ it.next \in IterPlaces /\ it.prev \in IterPlaces
    /\ it.next \in Cells => NextOK(q, h, it.next_chain, it.next, vis, las)
    /\ it.prev \in Cells =>
          /\ it.prev_chain \in ChainNos /\ it.prev \in Members(q["old"][it.prev_chain])
          /\ it.next \in Cells => it.prev \notin Ahead(q, it.next_chain, it.next)
    /\ it.next = NULL => las = {}
    /\ \A k \in AssocKeys : vis[k] <= 1

\* The three kinds of pointer are different.
LEMMA PlacesLemma == NULL \notin Cells /\ DANGLING \notin Cells /\ NULL # DANGLING /\ Cells \subseteq Nat
<1>1. CellCt \in Nat
  BY AssocAssumption
<1> QED
  BY <1>1 DEF NULL, DANGLING, Cells

\* A change that leaves the chains of the old table and their keys alone.
LEMMA IterFrame ==
    ASSUME NEW q, NEW h, NEW it, NEW vis, NEW las, IterOK(q, h, it, vis, las),
           NEW r, r["old"] = q["old"], NEW g, SameKeys(h, g, CellsIn(q, "old"))
    PROVE  IterOK(r, g, it, vis, las)
<1>1. \A m, n : Ahead(r, m, n) = Ahead(q, m, n)
  BY DEF Ahead
<1>2. \A m, n : \A a \in Ahead(q, m, n) : g[a].key = h[a].key
  BY DEF Ahead, SameKeys, CellsIn
<1>3. ASSUME it.next \in Cells PROVE NextOK(r, g, it.next_chain, it.next, vis, las)
  <2>1. NextOK(q, h, it.next_chain, it.next, vis, las)
    BY <1>3 DEF IterOK
  <2> QED
    BY <1>1, <1>2, <2>1 DEF NextOK
<1> QED
  BY <1>1, <1>3 DEF IterOK

\* Where the cells are after one has been unlinked.
LEMMA UnlinkPlaces ==
    ASSUME NEW h, NEW ch, NEW q, Laid(h, ch, q), NEW t \in Tables, NEW c \in ChainNos, NEW a \in Members(q[t][c])
    PROVE  LET r == Put(q, t, c, Unlink(q[t][c], a))
           IN  /\ \A u \in Tables, d \in ChainNos : Members(r[u][d]) = Members(q[u][d]) \ {a}
               /\ \A u \in Tables, d \in ChainNos : \A x, y \in Members(q[u][d]) \ {a} :
                     Position(r[u][d], x) <= Position(r[u][d], y) <=> Position(q[u][d], x) <= Position(q[u][d], y)
<1> DEFINE s == q[t][c]
           r == Put(q, t, c, Unlink(s, a))
<1>1. s \in Seq(Cells) /\ NoRepeats(s)
  BY DEF Laid, ChainIs
<1>2. Unlink(s, a) \in Seq(Cells) /\ Members(Unlink(s, a)) = Members(s) \ {a}
  BY <1>1, UnlinkLemma
<1>3. /\ r[t][c] = Unlink(s, a)
      /\ \A u \in Tables, d \in ChainNos : u # t \/ d # c => r[u][d] = q[u][d]
  <2> DEFINE S == Seq(Cells)
  <2>1. Unlink(s, a) \in S /\ IsTable(q, S)
    BY <1>2 DEF IsTable, Laid
  <2> HIDE DEF S, s
  <2> QED
    BY <2>1, PutLemma
<1> HIDE DEF r
<1>4. ASSUME NEW u \in Tables, NEW d \in ChainNos PROVE Members(r[u][d]) = Members(q[u][d]) \ {a}
  <2>1. CASE u = t /\ d = c
    BY <1>2, <1>3, <2>1
  <2>2. CASE u # t \/ d # c
    <3>1. a \notin Members(q[u][d])
      BY <2>2 DEF Laid, Apart
    <3> QED
      BY <1>3, <2>2, <3>1
  <2> QED
    BY <2>1, <2>2
<1>5. ASSUME NEW u \in Tables, NEW d \in ChainNos, NEW x \in Members(q[u][d]) \ {a}, NEW y \in Members(q[u][d]) \ {a}
      PROVE  Position(r[u][d], x) <= Position(r[u][d], y) <=> Position(q[u][d], x) <= Position(q[u][d], y)
  <2>1. CASE u = t /\ d = c
    <3>1. x \in Members(s) /\ y \in Members(s) /\ x # a /\ y # a /\ a \in Members(s)
      BY <2>1
    <3>2. q[u][d] = s /\ r[u][d] = Unlink(s, a)
      BY <1>3, <2>1
    <3> HIDE DEF s
    <3>3. /\ Position(s, x) \in 1..Len(s) /\ Position(s, y) \in 1..Len(s) /\ Position(s, a) \in 1..Len(s)
          /\ Position(s, x) # Position(s, a) /\ Position(s, y) # Position(s, a)
      BY <1>1, <3>1, PositionLemma
    <3>4. /\ Position(Unlink(s, a), x) = IF Position(s, x) < Position(s, a) THEN Position(s, x) ELSE Position(s, x) - 1
          /\ Position(Unlink(s, a), y) = IF Position(s, y) < Position(s, a) THEN Position(s, y) ELSE Position(s, y) - 1
      BY <1>1, <3>1, UnlinkPositionLemma
    <3> DEFINE px == Position(s, x)
               py == Position(s, y)
               pa == Position(s, a)
    <3>5. px \in Nat /\ py \in Nat /\ pa \in Nat /\ px # pa /\ py # pa
      BY <3>3
    <3>6. /\ Position(Unlink(s, a), x) = IF px < pa THEN px ELSE px - 1
          /\ Position(Unlink(s, a), y) = IF py < pa THEN py ELSE py - 1
      BY <3>4
    <3> HIDE DEF px, py, pa
    <3>7. Position(Unlink(s, a), x) <= Position(Unlink(s, a), y) <=> px <= py
      BY <3>5, <3>6
    <3> QED
      BY <3>2, <3>7 DEF px, py
  <2>2. CASE u # t \/ d # c
    BY <1>3, <2>2
  <2> QED
    BY <2>1, <2>2
<1> QED
  BY <1>4, <1>5 DEF r

\* Unlinking a cell that is not the next one: the others are ahead as before.
LEMMA UnlinkAhead ==
    ASSUME NEW h, NEW ch, NEW q, Laid(h, ch, q), NEW t \in Tables, NEW c \in ChainNos, NEW a \in Members(q[t][c]),
           NEW m \in ChainNos, NEW n \in Members(q["old"][m]), n # a
    PROVE  Ahead(Put(q, t, c, Unlink(q[t][c], a)), m, n) = Ahead(q, m, n) \ {a}
<1> DEFINE r == Put(q, t, c, Unlink(q[t][c], a))
<1>1. /\ \A u \in Tables, d \in ChainNos : Members(r[u][d]) = Members(q[u][d]) \ {a}
      /\ \A u \in Tables, d \in ChainNos : \A x, y \in Members(q[u][d]) \ {a} :
            Position(r[u][d], x) <= Position(r[u][d], y) <=> Position(q[u][d], x) <= Position(q[u][d], y)
  BY UnlinkPlaces
<1> HIDE DEF r
<1>2. "old" \in Tables
  BY DEF Tables
<1>3. ASSUME NEW x, NEW d \in ChainNos
      PROVE  (/\ x \in Members(r["old"][d])
              /\ d > m \/ (d = m /\ Position(r["old"][d], n) <= Position(r["old"][d], x)))
             <=> (/\ x \in Members(q["old"][d]) /\ x # a
                  /\ d > m \/ (d = m /\ Position(q["old"][d], n) <= Position(q["old"][d], x)))
  BY <1>1, <1>2
<1>4. \A x : x \in Ahead(r, m, n) <=> x \in Ahead(q, m, n) \ {a}
  BY <1>3 DEF Ahead
<1> QED
  BY <1>4 DEF r

\* The iterator when a has been freed.
Forgot(it, it1, a) ==
    /\ it1.prev_chain = it.prev_chain /\ it1.next_chain = it.next_chain
    /\ it1.prev = IF it.prev = a THEN DANGLING ELSE it.prev
    /\ it1.next = IF it.next = a THEN DANGLING ELSE it.next

\* Unlinking a cell, the one under the iterator included.
LEMMA IterUnlink ==
    ASSUME NEW h, NEW ch, NEW q, Laid(h, ch, q), NEW t \in Tables, NEW c \in ChainNos, NEW a \in Members(q[t][c]),
           NEW it, NEW vis, NEW las, IterOK(q, h, it, vis, las),
           NEW it1, Forgot(it, it1, a), NEW g, SameKeys(h, g, DOMAIN h \ {a}),
           NEW las1 \in SUBSET las,
           it.next \in Cells /\ a \in Ahead(q, it.next_chain, it.next) => h[a].key \notin las1
    PROVE  IterOK(Put(q, t, c, Unlink(q[t][c], a)), g, it1, vis, las1)
<1> DEFINE r == Put(q, t, c, Unlink(q[t][c], a))
<1>0. NULL \notin Cells /\ DANGLING \notin Cells /\ NULL # DANGLING /\ "old" \in Tables
  BY PlacesLemma DEF Tables
<1>1. \A u \in Tables, d \in ChainNos : Members(r[u][d]) = Members(q[u][d]) \ {a}
  BY UnlinkPlaces
<1>2. ASSUME NEW m \in ChainNos, NEW n \in Members(q["old"][m]), n # a
      PROVE  Ahead(r, m, n) = Ahead(q, m, n) \ {a}
  BY <1>2, UnlinkAhead
<1>3. \A u \in Tables, d \in ChainNos : Members(q[u][d]) \in SUBSET DOMAIN h
  BY LaidCells
<1>4. \A m, n : \A x \in Ahead(q, m, n) : x # a => g[x].key = h[x].key
  BY <1>0, <1>3 DEF Ahead, SameKeys
<1> HIDE DEF r
<1>5. ASSUME it1.next \in Cells
      PROVE  it.next \in Cells /\ it.next # a /\ it1.next = it.next /\ NextOK(q, h, it.next_chain, it.next, vis, las)
  BY <1>0, <1>5 DEF Forgot, IterOK
<1>6. ASSUME it1.next \in Cells
      PROVE  NextOK(r, g, it1.next_chain, it1.next, vis, las1)
  <2> DEFINE m == it.next_chain
             n == it.next
  <2>1. m \in ChainNos /\ n \in Members(q["old"][m]) /\ n # a
    BY <1>5, <1>6 DEF NextOK
  <2>2. Ahead(r, m, n) = Ahead(q, m, n) \ {a} /\ n \in Members(r["old"][m])
    BY <1>0, <1>1, <1>2, <2>1
  <2>3. ASSUME NEW k \in las1 PROVE \E x \in Ahead(r, m, n) : g[x].key = k
    <3>1. PICK x \in Ahead(q, m, n) : h[x].key = k
      BY <1>5, <1>6 DEF NextOK
    <3>2. x # a
      BY <1>5, <1>6, <3>1
    <3> QED
      BY <1>4, <2>2, <3>1, <3>2
  <2>4. \A x \in Ahead(r, m, n) : vis[g[x].key] = 0
    BY <1>4, <1>5, <1>6, <2>2 DEF NextOK
  <2>5. \A k \in AssocKeys : vis[k] # 0 => HashOf[k] <= m
    BY <1>5, <1>6 DEF NextOK
  <2>6. it1.next_chain = m /\ it1.next = n
    BY <1>5, <1>6 DEF Forgot
  <2> HIDE DEF m, n
  <2> QED
    BY <2>1, <2>2, <2>3, <2>4, <2>5, <2>6 DEF NextOK
<1>7. ASSUME it1.prev \in Cells
      PROVE  /\ it1.prev_chain \in ChainNos /\ it1.prev \in Members(r["old"][it1.prev_chain])
             /\ it1.next \in Cells => it1.prev \notin Ahead(r, it1.next_chain, it1.next)
  <2>1. it.prev \in Cells /\ it.prev # a /\ it1.prev = it.prev /\ it1.prev_chain = it.prev_chain
    BY <1>0, <1>7 DEF Forgot
  <2>2. it.prev_chain \in ChainNos /\ it.prev \in Members(q["old"][it.prev_chain])
    BY <2>1 DEF IterOK
  <2>3. ASSUME it1.next \in Cells PROVE it1.prev \notin Ahead(r, it1.next_chain, it1.next)
    <3>1. it.prev \notin Ahead(q, it.next_chain, it.next)
      BY <1>5, <2>1, <2>3 DEF IterOK
    <3>2. it.next_chain \in ChainNos /\ it.next \in Members(q["old"][it.next_chain]) /\ it.next # a
      BY <1>5, <2>3 DEF NextOK
    <3>3. it1.next_chain = it.next_chain /\ it1.next = it.next
      BY <1>5, <2>3 DEF Forgot
    <3> QED
      BY <1>2, <2>1, <3>1, <3>2, <3>3
  <2> QED
    BY <1>0, <1>1, <2>1, <2>2, <2>3
<1>8. it1.next \in IterPlaces /\ it1.prev \in IterPlaces /\ (it1.next = NULL => las1 = {})
  BY <1>0 DEF Forgot, IterOK, IterPlaces
<1>9. \A k \in AssocKeys : vis[k] <= 1
  BY DEF IterOK
<1> QED
  BY <1>6, <1>7, <1>8, <1>9 DEF IterOK, r

-----------------------------------------------------------------------------
\* One more in front moves the others by one.
LEMMA FrontPosition ==
    ASSUME NEW S, NEW s \in Seq(S), NoRepeats(s), NEW a \in S, a \notin Members(s)
    PROVE  /\ Position(<<a>> \o s, a) = 1
           /\ \A x \in Members(s) : Position(<<a>> \o s, x) = Position(s, x) + 1 /\ Position(s, x) \in 1..Len(s)
<1> DEFINE z == <<a>> \o s
<1>1. /\ z \in Seq(S) /\ Len(z) = Len(s) + 1 /\ z[1] = a
      /\ \A i \in 1..Len(s) : z[i + 1] = s[i]
      /\ Members(z) = Members(s) \cup {a} /\ NoRepeats(z)
  BY FrontLemma
<1> HIDE DEF z
<1>2. ASSUME NEW x \in Members(z), NEW i \in 1..Len(z), z[i] = x PROVE Position(z, x) = i
  BY <1>1, <1>2, PositionLemma
<1>3. Position(z, a) = 1
  <2>1. 1 \in 1..Len(z) /\ a \in Members(z)
    BY <1>1
  <2> QED
    BY <1>1, <1>2, <2>1
<1>4. ASSUME NEW x \in Members(s) PROVE Position(z, x) = Position(s, x) + 1 /\ Position(s, x) \in 1..Len(s)
  <2>1. Position(s, x) \in 1..Len(s) /\ s[Position(s, x)] = x
    BY PositionLemma
  <2>2. Position(s, x) + 1 \in 1..Len(z) /\ z[Position(s, x) + 1] = x /\ x \in Members(z)
    BY <1>1, <2>1
  <2> QED
    BY <1>2, <2>1, <2>2
<1> QED
  BY <1>3, <1>4 DEF z

\* Inserting a cell: it is ahead of the iterator on the chains behind only, for on its
\* own chain it comes first.
LEMMA IterPush ==
    ASSUME NEW h, NEW ch, NEW q, Laid(h, ch, q), NEW k \in AssocKeys, NEW a \in Cells, a \notin DOMAIN h,
           NEW it, NEW vis, NEW las, IterOK(q, h, it, vis, las),
           NEW g, SameKeys(h, g, DOMAIN h), g[a].key = k
    PROVE  IterOK(Put(q, "old", HashOf[k], <<a>> \o q["old"][HashOf[k]]), g, it, vis, las)
<1> DEFINE c == HashOf[k]
           s == q["old"][c]
           r == Put(q, "old", c, <<a>> \o s)
<1>0. NULL \notin Cells /\ DANGLING \notin Cells /\ NULL # DANGLING /\ "old" \in Tables /\ c \in ChainNos
  BY PlacesLemma, AssocAssumption DEF Tables, ChainNos
<1>1. \A u \in Tables, d \in ChainNos : Members(q[u][d]) \in SUBSET DOMAIN h
  BY LaidCells
<1>2. s \in Seq(Cells) /\ NoRepeats(s) /\ a \notin Members(s)
  BY <1>0, <1>1 DEF Laid, ChainIs
<1>3. <<a>> \o s \in Seq(Cells) /\ Members(<<a>> \o s) = Members(s) \cup {a}
  <2> HIDE DEF s
  <2> QED
    BY <1>2, FrontLemma
<1>4. /\ r["old"][c] = <<a>> \o s
      /\ \A d \in ChainNos : d # c => r["old"][d] = q["old"][d]
  <2> DEFINE S == Seq(Cells)
             z == <<a>> \o s
  <2>1. z \in S /\ IsTable(q, S)
    BY <1>3 DEF IsTable, Laid
  <2> HIDE DEF S, s, z, c
  <2>2. /\ Put(q, "old", c, z)["old"][c] = z
        /\ \A u \in Tables, d \in ChainNos : u # "old" \/ d # c => Put(q, "old", c, z)[u][d] = q[u][d]
    BY <1>0, <2>1, PutLemma
  <2>3. r = Put(q, "old", c, z)
    BY DEF z
  <2> QED
    BY <1>0, <2>2, <2>3 DEF z
<1>5. /\ Position(<<a>> \o s, a) = 1
      /\ \A x \in Members(s) : Position(<<a>> \o s, x) = Position(s, x) + 1 /\ Position(s, x) \in 1..Len(s)
  <2> HIDE DEF s
  <2> QED
    BY <1>2, FrontPosition
<1>6. q["old"][c] = s
  OBVIOUS
<1> HIDE DEF r, s
<1>7. ASSUME NEW m \in ChainNos, NEW n \in Members(q["old"][m]), NEW x, NEW d \in ChainNos
      PROVE  (/\ x \in Members(r["old"][d])
              /\ d > m \/ (d = m /\ Position(r["old"][d], n) <= Position(r["old"][d], x)))
             <=> (\/ /\ x \in Members(q["old"][d])
                     /\ d > m \/ (d = m /\ Position(q["old"][d], n) <= Position(q["old"][d], x))
                  \/ x = a /\ d = c /\ c > m)
  <2>1. CASE d # c
    BY <1>4, <2>1
  <2>2. CASE d = c /\ d # m
    BY <1>3, <1>4, <1>6, <2>2
  <2>3. CASE d = c /\ d = m
    <3>0. ~(d > m) /\ ~(c > m) /\ n \in Members(s) /\ q["old"][d] = s /\ r["old"][d] = <<a>> \o s
      BY <1>4, <1>6, <2>3 DEF ChainNos
    <3>1. Position(<<a>> \o s, n) = Position(s, n) + 1 /\ Position(s, n) \in 1..Len(s)
      BY <1>5, <3>0
    <3>2. ~(Position(<<a>> \o s, n) <= Position(<<a>> \o s, a))
      <4>1. Len(s) \in Nat
        BY <1>2
      <4> QED
        BY <1>5, <3>1, <4>1
    <3>3. x \in Members(s) => (Position(<<a>> \o s, n) <= Position(<<a>> \o s, x) <=> Position(s, n) <= Position(s, x))
      <4> SUFFICES ASSUME x \in Members(s) PROVE Position(<<a>> \o s, n) <= Position(<<a>> \o s, x) <=> Position(s, n) <= Position(s, x)
        OBVIOUS
      <4>1. Position(<<a>> \o s, x) = Position(s, x) + 1 /\ Position(s, x) \in 1..Len(s)
        BY <1>5
      <4>2. Len(s) \in Nat
        BY <1>2
      <4> QED
        BY <3>1, <4>1, <4>2
    <3> QED
      BY <1>3, <2>3, <3>0, <3>2, <3>3
  <2> QED
    BY <2>1, <2>2, <2>3
<1>8. ASSUME NEW m \in ChainNos, NEW n \in Members(q["old"][m])
      PROVE  \A x : x \in Ahead(r, m, n) <=> x \in Ahead(q, m, n) \/ (x = a /\ c > m)
  BY <1>0, <1>7, <1>8 DEF Ahead
<1>9. \A m, n : \A x \in Ahead(q, m, n) : g[x].key = h[x].key /\ x # a
  BY <1>0, <1>1 DEF Ahead, SameKeys
<1>10. ASSUME it.next \in Cells
       PROVE  NextOK(r, g, it.next_chain, it.next, vis, las)
  <2> DEFINE m == it.next_chain
             n == it.next
  <2>1. NextOK(q, h, m, n, vis, las)
    BY <1>10 DEF IterOK
  <2> HIDE DEF m, n
  <2>2. m \in ChainNos /\ n \in Members(q["old"][m])
    BY <2>1 DEF NextOK
  <2>3. \A x : x \in Ahead(r, m, n) <=> x \in Ahead(q, m, n) \/ (x = a /\ c > m)
    BY <1>8, <2>2
  <2>4. n \in Members(r["old"][m])
    BY <1>3, <1>4, <1>6, <2>2
  <2>5. \A k1 \in las : \E x \in Ahead(r, m, n) : g[x].key = k1
    BY <1>9, <2>1, <2>3 DEF NextOK
  <2>6. ASSUME NEW x \in Ahead(r, m, n) PROVE vis[g[x].key] = 0
    <3>1. CASE x \in Ahead(q, m, n)
      BY <1>9, <2>1, <3>1 DEF NextOK
    <3>2. CASE x = a /\ c > m
      <4>1. ~(HashOf[k] <= m)
        BY <1>0, <2>2, <3>2 DEF ChainNos
      <4> QED
        BY <2>1, <3>2, <4>1 DEF NextOK
    <3> QED
      BY <2>3, <3>1, <3>2
  <2>7. \A k1 \in AssocKeys : vis[k1] # 0 => HashOf[k1] <= m
    BY <2>1 DEF NextOK
  <2>8. NextOK(r, g, m, n, vis, las)
    BY <2>2, <2>4, <2>5, <2>6, <2>7 DEF NextOK
  <2> QED
    BY <2>8 DEF m, n
<1>11. ASSUME it.prev \in Cells
       PROVE  /\ it.prev_chain \in ChainNos /\ it.prev \in Members(r["old"][it.prev_chain])
              /\ it.next \in Cells => it.prev \notin Ahead(r, it.next_chain, it.next)
  <2>1. it.prev_chain \in ChainNos /\ it.prev \in Members(q["old"][it.prev_chain])
    BY <1>11 DEF IterOK
  <2>2. it.prev # a
    BY <1>0, <1>1, <2>1
  <2>3. it.prev \in Members(r["old"][it.prev_chain])
    BY <1>3, <1>4, <1>6, <2>1
  <2>4. ASSUME it.next \in Cells PROVE it.prev \notin Ahead(r, it.next_chain, it.next)
    <3>1. it.next_chain \in ChainNos /\ it.next \in Members(q["old"][it.next_chain])
      BY <2>4 DEF IterOK, NextOK
    <3>2. it.prev \notin Ahead(q, it.next_chain, it.next)
      BY <1>11, <2>4 DEF IterOK
    <3> QED
      BY <1>8, <2>2, <3>1, <3>2
  <2> QED
    BY <2>1, <2>3, <2>4
<1>12. it.next \in IterPlaces /\ it.prev \in IterPlaces /\ (it.next = NULL => las = {}) /\ \A k1 \in AssocKeys : vis[k1] <= 1
  BY DEF IterOK
<1> QED
  BY <1>10, <1>11, <1>12 DEF IterOK, r, s

-----------------------------------------------------------------------------
\* A key is once in a table.
LEMMA UniqueKeys ==
    ASSUME NEW h, NEW ch, NEW q, Laid(h, ch, q), NEW t \in Tables, NEW a \in CellsIn(q, t), NEW b \in CellsIn(q, t),
           h[a].key = h[b].key
    PROVE  a = b
<1>1. PICK c \in ChainNos : a \in Members(q[t][c])
  BY DEF CellsIn
<1>2. PICK d \in ChainNos : b \in Members(q[t][d])
  BY DEF CellsIn
<1>3. HashOf[h[a].key] = c /\ HashOf[h[b].key] = d
  BY <1>1, <1>2 DEF Laid, ChainIs
<1>4. b \in Members(q[t][c])
  BY <1>2, <1>3
<1>5. ChainIs(h, ch[t][c], q[t][c], c)
  BY DEF Laid
<1> QED
  BY <1>1, <1>4, <1>5 DEF ChainIs

\* The first cell of the chains from c on: those before it are empty.
LEMMA FirstFromLemma ==
    ASSUME NEW q, Laid(heap, chains, q), NEW c \in Nat
    PROVE  /\ FirstFrom(c).cell = NULL => \A d \in ChainNos : c <= d => Members(q["old"][d]) = {}
           /\ FirstFrom(c).cell # NULL =>
                 /\ FirstFrom(c).chain \in ChainNos /\ c <= FirstFrom(c).chain
                 /\ q["old"][FirstFrom(c).chain] # <<>> /\ FirstFrom(c).cell = q["old"][FirstFrom(c).chain][1]
                 /\ \A d \in ChainNos : c <= d /\ d < FirstFrom(c).chain => Members(q["old"][d]) = {}
<1> DEFINE used == {i \in c..(ChainCt - 1) : chains["old"][i] # NULL}
<1>0. "old" \in Tables /\ ChainCt \in Nat /\ NULL \notin Cells
  BY AssocAssumption, PlacesLemma DEF Tables
<1>1. FirstFrom(c) = IF used = {} THEN [chain |-> ChainCt, cell |-> NULL]
                     ELSE [chain |-> Least(used), cell |-> chains["old"][Least(used)]]
  BY DEF FirstFrom
<1>2. ASSUME NEW d \in ChainNos
      PROVE  /\ chains["old"][d] = NULL => Members(q["old"][d]) = {}
             /\ chains["old"][d] # NULL => q["old"][d] # <<>> /\ chains["old"][d] = q["old"][d][1]
  <2> DEFINE s == q["old"][d]
  <2>1. s \in Seq(Cells) /\ chains["old"][d] = IF s = <<>> THEN NULL ELSE s[1]
    BY <1>0 DEF Laid, ChainIs, Linked
  <2>2. s # <<>> => 1 \in 1..Len(s) /\ s[1] \in Cells
    BY <2>1
  <2>3. s = <<>> => Members(s) = {}
    BY DEF Members
  <2> HIDE DEF s
  <2>4. chains["old"][d] = NULL <=> s = <<>>
    BY <1>0, <2>1, <2>2
  <2> QED
    BY <2>1, <2>3, <2>4 DEF s
<1>3. \A d \in ChainNos : c <= d => (d \in used <=> chains["old"][d] # NULL)
  BY <1>0 DEF ChainNos
<1>4. used \in SUBSET Nat /\ used \in SUBSET ChainNos /\ (\A d \in used : c <= d /\ chains["old"][d] # NULL)
  BY <1>0 DEF ChainNos
<1> HIDE DEF used
<1>5. CASE used = {}
  <2>1. FirstFrom(c).cell = NULL
    BY <1>1, <1>5
  <2> QED
    BY <1>2, <1>3, <1>5, <2>1
<1>6. CASE used # {}
  <2> DEFINE l == Least(used)
  <2>1. l \in used /\ \A e \in used : l <= e
    <3>1. \E d \in used : \A e \in used : d <= e
      BY <1>4, <1>6, LeastLemma
    <3> QED
      BY <3>1 DEF Least
  <2>2. FirstFrom(c).chain = l /\ FirstFrom(c).cell = chains["old"][l]
    BY <1>1, <1>6
  <2> HIDE DEF l
  <2>3. l \in ChainNos /\ c <= l /\ chains["old"][l] # NULL
    BY <1>4, <2>1
  <2>4. ASSUME NEW d \in ChainNos, c <= d, d < l PROVE Members(q["old"][d]) = {}
    <3>1. d \notin used
      BY <1>0, <2>1, <2>3, <2>4 DEF ChainNos
    <3> QED
      BY <1>2, <1>3, <2>4, <3>1
  <2> QED
    BY <1>2, <2>2, <2>3, <2>4
<1> QED
  BY <1>5, <1>6

\* An iterator at the first cell of a chain has that chain and those behind it ahead.
LEMMA AheadFirst ==
    ASSUME NEW h, NEW ch, NEW q, Laid(h, ch, q), NEW c \in Nat, NEW m \in ChainNos, c <= m, q["old"][m] # <<>>,
           \A d \in ChainNos : c <= d /\ d < m => Members(q["old"][d]) = {}
    PROVE  /\ q["old"][m][1] \in Members(q["old"][m])
           /\ \A x : x \in Ahead(q, m, q["old"][m][1]) <=> \E d \in ChainNos : c <= d /\ x \in Members(q["old"][d])
<1> DEFINE s == q["old"][m]
           n == s[1]
<1>0. "old" \in Tables /\ ChainCt \in Nat
  BY AssocAssumption DEF Tables
<1>1. s \in Seq(Cells) /\ NoRepeats(s) /\ Len(s) \in Nat /\ s # <<>>
  BY <1>0 DEF Laid, ChainIs
<1>2. 1 \in 1..Len(s) /\ n \in Members(s)
  BY <1>1 DEF Members
<1>3. ASSUME NEW x \in Members(s) PROVE Position(s, n) <= Position(s, x)
  <2> HIDE DEF s
  <2>1. Position(s, x) \in 1..Len(s)
    BY <1>1, PositionLemma
  <2>2. Position(s, n) = 1
    BY <1>1, <1>2, PositionLemma
  <2> QED
    BY <1>1, <2>1, <2>2
<1>4. \A d \in ChainNos : Members(q["old"][d]) \in SUBSET Cells
  <2>1. \A d \in ChainNos : q["old"][d] \in Seq(Cells)
    BY <1>0 DEF Laid
  <2> QED
    BY <2>1, MembersLemma
<1> HIDE DEF n
<1>5. ASSUME NEW x, NEW d \in ChainNos, x \in Members(q["old"][d])
      PROVE  (d > m \/ (d = m /\ Position(q["old"][d], n) <= Position(q["old"][d], x))) <=> c <= d
  <2>1. CASE d = m
    <3>1. x \in Members(s) /\ q["old"][d] = s
      BY <1>5, <2>1
    <3> QED
      BY <1>3, <2>1, <3>1
  <2>2. CASE d > m
    BY <1>0, <2>2 DEF ChainNos
  <2>3. CASE d < m
    <3>1. ~(c <= d)
      BY <1>5, <2>3
    <3> QED
      BY <1>0, <2>3, <3>1 DEF ChainNos
  <2>4. d = m \/ d > m \/ d < m
    BY <1>0 DEF ChainNos
  <2> QED
    BY <2>1, <2>2, <2>3, <2>4
<1>6. \A x : x \in Ahead(q, m, n) <=> \E d \in ChainNos : c <= d /\ x \in Members(q["old"][d])
  BY <1>4, <1>5 DEF Ahead
<1> QED
  BY <1>2, <1>6 DEF n, s

\* r_assoc_iter goes on to the cell behind, all others ahead staying ahead.
LEMMA AfterLemma ==
    ASSUME NEW q, Laid(heap, chains, q), NEW m \in ChainNos, m = iter.next_chain, NEW n \in Members(q["old"][m])
    PROVE  /\ n \in Ahead(q, m, n)
           /\ After(n).cell = NULL => \A x \in Ahead(q, m, n) : x = n
           /\ After(n).cell # NULL =>
                 /\ After(n).chain \in ChainNos /\ m <= After(n).chain
                 /\ After(n).cell \in Members(q["old"][After(n).chain])
                 /\ \A x : x \in Ahead(q, After(n).chain, After(n).cell) <=> x \in Ahead(q, m, n) /\ x # n
<1> DEFINE s == q["old"][m]
           p == Position(s, n)
           F == FirstFrom(m + 1)
<1>0. "old" \in Tables /\ ChainCt \in Nat /\ NULL \notin Cells /\ m \in Nat /\ m + 1 \in Nat
  BY AssocAssumption, PlacesLemma DEF Tables, ChainNos
<1>1. s \in Seq(Cells) /\ NoRepeats(s) /\ Len(s) \in Nat /\ Linked(heap, chains["old"][m], s) /\ n \in Members(s)
  BY <1>0 DEF Laid, ChainIs
<1>2. /\ \A x \in Members(s) : Position(s, x) \in 1..Len(s) /\ s[Position(s, x)] = x
      /\ \A x \in Members(s) : \A i \in 1..Len(s) : s[i] = x => i = Position(s, x)
  <2> HIDE DEF s
  <2> QED
    BY <1>1, PositionLemma
<1>3. p \in 1..Len(s) /\ s[p] = n /\ heap[n].next = IF p = Len(s) THEN NULL ELSE s[p + 1]
  BY <1>1, <1>2 DEF Linked
<1>4. \A d \in ChainNos : Members(q["old"][d]) \in SUBSET Cells
  <2>1. \A d \in ChainNos : q["old"][d] \in Seq(Cells)
    BY <1>0 DEF Laid
  <2> QED
    BY <2>1, MembersLemma
<1>5. n \in Ahead(q, m, n)
  <2>1. n \in Cells /\ Position(s, n) <= Position(s, n)
    BY <1>1, <1>2, <1>4
  <2> QED
    BY <2>1 DEF Ahead
<1>6. \A d, e \in ChainNos : \A x \in Members(q["old"][d]) : x \in Members(q["old"][e]) => d = e
  BY <1>0 DEF Laid, Apart
<1>7. ASSUME NEW x, NEW d \in ChainNos, x \in Members(q["old"][d])
      PROVE  x \in Ahead(q, m, n) <=> d > m \/ (d = m /\ p <= Position(q["old"][d], x))
  BY <1>4, <1>6, <1>7 DEF Ahead
<1>8. CASE heap[n].next # NULL
  <2> DEFINE y == s[p + 1]
  <2>1. p # Len(s) /\ p + 1 \in 1..Len(s) /\ heap[n].next = y
    BY <1>1, <1>3, <1>8
  <2>2. After(n).chain = m /\ After(n).cell = y
    BY <1>8, <2>1 DEF After
  <2>3. y \in Members(s) /\ y # NULL /\ Position(s, y) = p + 1
    <3>1. y \in Members(s)
      BY <2>1 DEF Members
    <3>2. p + 1 = Position(s, y)
      BY <1>2, <2>1, <3>1
    <3> QED
      BY <1>0, <1>4, <3>1, <3>2
  <2> HIDE DEF y, p
  <2>4. ASSUME NEW x, NEW d \in ChainNos, x \in Members(q["old"][d])
        PROVE  x \in Ahead(q, m, y) <=> x \in Ahead(q, m, n) /\ x # n
    <3>1. x \in Ahead(q, m, y) <=> d > m \/ (d = m /\ Position(s, y) <= Position(q["old"][d], x))
      BY <1>4, <1>6, <2>4 DEF Ahead
    <3>2. x \in Ahead(q, m, n) <=> d > m \/ (d = m /\ p <= Position(q["old"][d], x))
      BY <1>7, <2>4
    <3>3. CASE d = m
      <4>1. x \in Members(s) /\ q["old"][d] = s
        BY <2>4, <3>3
      <4>2. Position(s, x) \in 1..Len(s) /\ (x = n <=> Position(s, x) = p)
        BY <1>2, <1>3, <4>1 DEF p
      <4>3. (p + 1 <= Position(s, x)) <=> (p <= Position(s, x) /\ Position(s, x) # p)
        BY <1>1, <1>3, <4>2
      <4>4. ~(d > m)
        BY <1>0, <3>3
      <4> HIDE DEF s
      <4> QED
        BY <2>3, <3>1, <3>2, <3>3, <4>1, <4>2, <4>3, <4>4
    <3>4. CASE d # m
      <4>1. x # n
        BY <1>6, <2>4, <3>4
      <4> QED
        BY <3>1, <3>2, <3>4, <4>1
    <3> QED
      BY <3>3, <3>4
  <2>5. \A x, m1, n1 : x \in Ahead(q, m1, n1) => \E d \in ChainNos : x \in Members(q["old"][d])
    BY DEF Ahead
  <2>6. m <= m
    BY <1>0
  <2> QED
    BY <1>5, <2>2, <2>3, <2>4, <2>5, <2>6
<1>9. CASE heap[n].next = NULL
  <2>1. p = Len(s)
    <3> SUFFICES ASSUME p # Len(s) PROVE FALSE
      OBVIOUS
    <3>1. p + 1 \in 1..Len(s)
      BY <1>1, <1>3
    <3>2. s[p + 1] \in Cells
      BY <1>1, <3>1
    <3> QED
      BY <1>0, <1>3, <1>9, <3>2
  <2>2. After(n) = IF F.cell # NULL THEN F ELSE [chain |-> m, cell |-> NULL]
    BY <1>9 DEF After
  <2>3. ASSUME NEW x, NEW d \in ChainNos, x \in Members(q["old"][d])
        PROVE  (x \in Ahead(q, m, n) /\ x # n) <=> m + 1 <= d
    <3>1. x \in Ahead(q, m, n) <=> d > m \/ (d = m /\ p <= Position(q["old"][d], x))
      BY <1>7, <2>3
    <3>2. CASE d = m
      <4>1. x \in Members(s) /\ q["old"][d] = s
        BY <2>3, <3>2
      <4>2. Position(s, x) \in 1..Len(s) /\ (x = n <=> Position(s, x) = p)
        BY <1>2, <1>3, <4>1
      <4> HIDE DEF p, s
      <4>3. p <= Position(s, x) => Position(s, x) = p
        BY <1>1, <2>1, <4>2
      <4>4. ~(d > m) /\ ~(m + 1 <= d)
        BY <1>0, <3>2
      <4> QED
        BY <3>1, <4>1, <4>2, <4>3, <4>4
    <3>3. CASE d # m
      <4>1. x # n
        BY <1>6, <2>3, <3>3
      <4>2. (m + 1 <= d) <=> d > m
        BY <1>0 DEF ChainNos
      <4> QED
        BY <3>1, <3>3, <4>1, <4>2
    <3> QED
      BY <3>2, <3>3
  <2>4. \A x, m1, n1 : x \in Ahead(q, m1, n1) => \E d \in ChainNos : x \in Members(q["old"][d])
    BY DEF Ahead
  <2>5. /\ F.cell = NULL => \A d \in ChainNos : m + 1 <= d => Members(q["old"][d]) = {}
        /\ F.cell # NULL =>
              /\ F.chain \in ChainNos /\ m + 1 <= F.chain
              /\ q["old"][F.chain] # <<>> /\ F.cell = q["old"][F.chain][1]
              /\ \A d \in ChainNos : m + 1 <= d /\ d < F.chain => Members(q["old"][d]) = {}
    BY <1>0, FirstFromLemma
  <2> HIDE DEF F, s, p
  <2>6. CASE F.cell = NULL
    <3>1. After(n).cell = NULL
      BY <2>2, <2>6
    <3>2. ASSUME NEW x \in Ahead(q, m, n), x # n PROVE FALSE
      <4>1. PICK d \in ChainNos : x \in Members(q["old"][d])
        BY <2>4
      <4>2. m + 1 <= d
        BY <2>3, <3>2, <4>1
      <4> QED
        BY <2>5, <2>6, <4>1, <4>2
    <3> QED
      BY <1>5, <3>1, <3>2
  <2>7. CASE F.cell # NULL
    <3>1. After(n) = F
      BY <2>2, <2>7
    <3>2. /\ F.chain \in ChainNos /\ m + 1 <= F.chain
          /\ q["old"][F.chain] # <<>> /\ F.cell = q["old"][F.chain][1]
          /\ \A d \in ChainNos : m + 1 <= d /\ d < F.chain => Members(q["old"][d]) = {}
      BY <2>5, <2>7
    <3>3. /\ q["old"][F.chain][1] \in Members(q["old"][F.chain])
          /\ \A x : x \in Ahead(q, F.chain, q["old"][F.chain][1]) <=> \E d \in ChainNos : m + 1 <= d /\ x \in Members(q["old"][d])
      BY <1>0, <3>2, AheadFirst
    <3>4. \A x : x \in Ahead(q, F.chain, F.cell) <=> x \in Ahead(q, m, n) /\ x # n
      BY <2>3, <2>4, <3>2, <3>3
    <3>5. m <= F.chain
      BY <1>0, <3>2 DEF ChainNos
    <3> QED
      BY <1>5, <2>7, <3>1, <3>2, <3>3, <3>4, <3>5
  <2> QED
    BY <2>6, <2>7
<1> QED
  BY <1>8, <1>9

\* What the variables range over.
Iterators == [prev_chain : Int, prev : Int, next_chain : Int, next : Int]
AssocTypeOK ==
    /\ live \in SUBSET Tables
    /\ IsTable(chains, Pointers)
    /\ counted \in [Tables -> Int]
    /\ iter \in Iterators
    /\ visits \in [AssocKeys -> Nat]
    /\ lasting \in SUBSET AssocKeys

\* r_assoc_init_iter: everything is ahead.
LEMMA InitIterOK ==
    ASSUME NEW q, Laid(heap, chains, q), AssocTypeOK, InitIter
    PROVE  IterOK(q, heap, iter', visits', lasting') /\ iter' \in Iterators
<1> DEFINE F == FirstFrom(0)
<1>0. /\ "old" \in Tables /\ NULL \notin Cells /\ 0 \in Nat
      /\ visits' = [k \in AssocKeys |-> 0]
      /\ \A k \in AssocKeys : visits'[k] = 0
      /\ \A d \in ChainNos : 0 <= d
  BY PlacesLemma, AssocAssumption DEF Tables, InitIter, ChainNos
<1>1. /\ iter'.prev = NULL /\ iter'.next_chain = F.chain /\ iter'.next = F.cell /\ iter'.prev_chain = -1
      /\ iter' = [prev_chain |-> -1, prev |-> NULL, next_chain |-> F.chain, next |-> F.cell]
  BY DEF InitIter
<1>2. lasting' = {heap[a].key : a \in CellsIn(q, "old")}
  <2>1. CellsOf("old") = CellsIn(q, "old")
    BY <1>0, WalkLemma
  <2> QED
    BY <2>1 DEF InitIter, KeysOf
<1>3. /\ F.cell = NULL => \A d \in ChainNos : 0 <= d => Members(q["old"][d]) = {}
      /\ F.cell # NULL =>
            /\ F.chain \in ChainNos /\ 0 <= F.chain
            /\ q["old"][F.chain] # <<>> /\ F.cell = q["old"][F.chain][1]
            /\ \A d \in ChainNos : 0 <= d /\ d < F.chain => Members(q["old"][d]) = {}
  BY <1>0, FirstFromLemma
<1>4. \A a \in CellsIn(q, "old") : heap[a].key \in AssocKeys
  BY <1>0 DEF CellsIn, Laid, ChainIs, Elements
<1>5. F.chain \in Int /\ (F.cell = NULL \/ F.cell \in Cells)
  <2>1. CASE F.cell = NULL
    <3> DEFINE used == {i \in 0..(ChainCt - 1) : chains["old"][i] # NULL}
    <3>1. used \in SUBSET Nat /\ ChainCt \in Nat
      BY AssocAssumption
    <3>2. F = IF used = {} THEN [chain |-> ChainCt, cell |-> NULL]
              ELSE [chain |-> Least(used), cell |-> chains["old"][Least(used)]]
      BY DEF FirstFrom
    <3> HIDE DEF used
    <3>3. used # {} => Least(used) \in Nat
      <4> SUFFICES ASSUME used # {} PROVE Least(used) \in Nat
        OBVIOUS
      <4>1. \E d \in used : \A e \in used : d <= e
        BY <3>1, LeastLemma
      <4>2. Least(used) \in used
        BY <4>1 DEF Least
      <4> QED
        BY <3>1, <4>2
    <3>4. F.chain = ChainCt \/ (used # {} /\ F.chain = Least(used))
      BY <3>2
    <3> QED
      BY <2>1, <3>1, <3>3, <3>4
  <2>2. CASE F.cell # NULL
    <3>1. F.chain \in ChainNos /\ q["old"][F.chain] \in Seq(Cells) /\ q["old"][F.chain] # <<>>
      BY <1>0, <1>3, <2>2 DEF Laid
    <3> QED
      BY <1>3, <2>2, <3>1 DEF ChainNos
  <2> QED
    BY <2>1, <2>2
<1>6. iter' \in Iterators
  <2>1. CellCt \in Nat
    BY AssocAssumption
  <2>2. F.cell \in Int
    BY <1>5, <2>1 DEF NULL, Cells
  <2> QED
    BY <1>1, <1>5, <2>2 DEF Iterators, NULL
<1> HIDE DEF F
<1>7. CASE F.cell = NULL
  <2>1. lasting' = {}
    BY <1>0, <1>2, <1>3, <1>7 DEF CellsIn
  <2> QED
    BY <1>0, <1>1, <1>6, <1>7, <2>1 DEF IterOK, IterPlaces
<1>8. CASE F.cell # NULL
  <2> DEFINE m == F.chain
             n == F.cell
  <2>1. /\ m \in ChainNos /\ 0 <= m /\ q["old"][m] # <<>> /\ n = q["old"][m][1]
        /\ \A d \in ChainNos : 0 <= d /\ d < m => Members(q["old"][d]) = {}
    BY <1>3, <1>8
  <2> HIDE DEF m, n
  <2>2. /\ n \in Members(q["old"][m])
        /\ \A x : x \in Ahead(q, m, n) <=> \E d \in ChainNos : 0 <= d /\ x \in Members(q["old"][d])
    BY <1>0, <2>1, AheadFirst
  <2>3. \A x : x \in Ahead(q, m, n) <=> x \in CellsIn(q, "old")
    BY <1>0, <2>2 DEF CellsIn
  <2>4. NextOK(q, heap, m, n, visits', lasting')
    BY <1>0, <1>2, <1>4, <2>1, <2>2, <2>3 DEF NextOK
  <2>5. iter'.next_chain = m /\ iter'.next = n /\ n \in Cells
    BY <1>1, <1>5, <1>8 DEF m, n
  <2> QED
    BY <1>0, <1>1, <1>6, <2>4, <2>5 DEF IterOK, IterPlaces
<1> QED
  BY <1>7, <1>8

\* r_assoc_iter: the cell that is returned is no longer ahead.
LEMMA IterStepOK ==
    ASSUME NEW q, Laid(heap, chains, q), AssocTypeOK, IterOK(q, heap, iter, visits, lasting), Iter
    PROVE  /\ IterOK(q, heap, iter', visits', lasting') /\ iter' \in Iterators
           /\ visits' \in [AssocKeys -> Nat]
<1> DEFINE m == iter.next_chain
           n == iter.next
           A == After(n)
           k == heap[n].key
<1>0. "old" \in Tables /\ NULL \notin Cells /\ Cells \in SUBSET Nat /\ n \in Cells
  <2>1. n \in DOMAIN heap /\ DOMAIN heap \in SUBSET Cells
    BY LaidCells DEF Iter
  <2> QED
    BY <2>1, PlacesLemma DEF Tables
<1>1. NextOK(q, heap, m, n, visits, lasting)
  BY <1>0 DEF IterOK
<1>2. m \in ChainNos /\ n \in Members(q["old"][m])
  BY <1>1 DEF NextOK
<1>3. /\ n \in Ahead(q, m, n)
      /\ A.cell = NULL => \A x \in Ahead(q, m, n) : x = n
      /\ A.cell # NULL =>
            /\ A.chain \in ChainNos /\ m <= A.chain
            /\ A.cell \in Members(q["old"][A.chain])
            /\ \A x : x \in Ahead(q, A.chain, A.cell) <=> x \in Ahead(q, m, n) /\ x # n
  BY <1>2, AfterLemma
<1>4. /\ iter' = [prev_chain |-> m, prev |-> n, next_chain |-> A.chain, next |-> A.cell]
      /\ visits' = [visits EXCEPT ![k] = @ + 1]
      /\ lasting' = lasting \ {k}
  BY DEF Iter
<1>5. k \in AssocKeys /\ HashOf[k] = m
  BY <1>0, <1>2 DEF Laid, ChainIs, Elements
<1>6. visits[k] = 0
  BY <1>1, <1>3 DEF NextOK
<1>7. A.cell = NULL => A.chain \in Int
  <2> SUFFICES ASSUME A.cell = NULL PROVE A.chain \in Int
    OBVIOUS
  <2>1. \/ A = [chain |-> iter.next_chain, cell |-> heap[n].next] /\ heap[n].next # NULL
        \/ A = FirstFrom(iter.next_chain + 1) /\ FirstFrom(iter.next_chain + 1).cell # NULL
        \/ A = [chain |-> iter.next_chain, cell |-> NULL]
    BY DEF After
  <2> HIDE DEF A
  <2>2. A = [chain |-> iter.next_chain, cell |-> NULL]
    BY <2>1
  <2>3. iter.next_chain \in Int
    BY DEF AssocTypeOK, Iterators
  <2> QED
    BY <2>2, <2>3
<1> HIDE DEF A, k, m, n
<1>8. /\ iter'.prev_chain = m /\ iter'.prev = n /\ iter'.next_chain = A.chain /\ iter'.next = A.cell
  BY <1>4
<1>9. /\ visits' \in [AssocKeys -> Nat] /\ visits'[k] = 1 /\ \A j \in AssocKeys : j # k => visits'[j] = visits[j]
  <2>1. visits \in [AssocKeys -> Nat]
    BY DEF AssocTypeOK
  <2> QED
    BY <1>4, <1>5, <1>6, <2>1
<1>10. ASSUME NEW x \in Ahead(q, m, n), x # n PROVE heap[x].key # k /\ heap[x].key \in AssocKeys
  <2>1. PICK d \in ChainNos : x \in Members(q["old"][d])
    BY DEF Ahead
  <2>2. x \in CellsIn(q, "old") /\ n \in CellsIn(q, "old")
    BY <1>2, <2>1 DEF CellsIn
  <2>3. heap[x].key # heap[n].key
    BY <1>0, <1>10, <2>2, UniqueKeys
  <2>4. heap[x].key \in AssocKeys
    BY <1>0, <2>1 DEF Laid, ChainIs, Elements
  <2> QED
    BY <2>3, <2>4 DEF k
<1>11. \A j \in AssocKeys : visits'[j] <= 1
  BY <1>9 DEF IterOK
<1>12. A.cell # NULL => A.cell \in Cells
  <2>1. \A d \in ChainNos : q["old"][d] \in Seq(Cells)
    BY <1>0 DEF Laid
  <2>2. \A d \in ChainNos : Members(q["old"][d]) \in SUBSET Cells
    BY <2>1, MembersLemma
  <2> QED
    BY <1>3, <2>2
<1>13. iter' \in Iterators
  <2>0. ChainNos \in SUBSET Int
    BY DEF ChainNos
  <2>1. A.chain \in Int /\ m \in Int
    BY <1>2, <1>3, <1>7, <2>0
  <2>2. A.cell \in Int /\ n \in Int
    <3>1. NULL \in Int /\ Cells \in SUBSET Int
      BY DEF NULL, Cells
    <3> QED
      BY <1>0, <1>12, <3>1
  <2> QED
    BY <1>4, <2>1, <2>2 DEF Iterators
<1>14. CASE A.cell = NULL
  <2>1. lasting' = {}
    <3> SUFFICES ASSUME NEW j \in lasting, j # k PROVE FALSE
      BY <1>4
    <3>1. PICK x \in Ahead(q, m, n) : heap[x].key = j
      BY <1>1 DEF NextOK
    <3> QED
      BY <1>3, <1>14, <3>1 DEF k
  <2> QED
    BY <1>0, <1>2, <1>8, <1>9, <1>11, <1>13, <1>14, <2>1 DEF IterOK, IterPlaces
<1>15. CASE A.cell # NULL
  <2>1. /\ A.chain \in ChainNos /\ m <= A.chain
        /\ A.cell \in Members(q["old"][A.chain]) /\ A.cell \in Cells
        /\ \A x : x \in Ahead(q, A.chain, A.cell) <=> x \in Ahead(q, m, n) /\ x # n
    BY <1>3, <1>12, <1>15
  <2>2. ASSUME NEW j \in lasting' PROVE \E x \in Ahead(q, A.chain, A.cell) : heap[x].key = j
    <3>1. PICK x \in Ahead(q, m, n) : heap[x].key = j
      BY <1>1, <1>4 DEF NextOK
    <3>2. x # n
      BY <1>4, <3>1 DEF k
    <3> QED
      BY <2>1, <3>1, <3>2
  <2>3. ASSUME NEW x \in Ahead(q, A.chain, A.cell) PROVE visits'[heap[x].key] = 0
    BY <1>1, <1>9, <1>10, <2>1 DEF NextOK
  <2>4. ASSUME NEW j \in AssocKeys, visits'[j] # 0 PROVE HashOf[j] <= A.chain
    <3>1. HashOf[j] <= m
      <4>1. CASE j = k
        BY <1>2, <1>5, <4>1 DEF ChainNos
      <4>2. CASE j # k
        BY <1>1, <1>9, <2>4, <4>2 DEF NextOK
      <4> QED
        BY <4>1, <4>2
    <3>2. HashOf[j] \in Int
      BY AssocAssumption
    <3> QED
      BY <1>2, <2>1, <3>1, <3>2 DEF ChainNos
  <2>5. NextOK(q, heap, A.chain, A.cell, visits', lasting')
    BY <2>1, <2>2, <2>3, <2>4 DEF NextOK
  <2> QED
    BY <1>0, <1>2, <1>8, <1>9, <1>11, <1>13, <2>1, <2>5 DEF IterOK, IterPlaces
<1> QED
  BY <1>14, <1>15

-----------------------------------------------------------------------------
(* Copies. *)
\* f is one-to-one on S.
OneToOne(f, S) == \A a, b \in S : f[a] = f[b] => a = b

\* A set can be mapped into one that is not smaller, one to one.
LEMMA InjectionLemma ==
    ASSUME NEW S, NEW T, IsFiniteSet(S), IsFiniteSet(T), Cardinality(S) <= Cardinality(T)
    PROVE  \E f \in [S -> T] : OneToOne(f, S)
<1> DEFINE n == Cardinality(S)
           m == Cardinality(T)
<1>1. n \in Nat /\ m \in Nat /\ ExistsBijection(1..n, S) /\ ExistsBijection(1..m, T)
  BY FS_CardinalityType
<1> HIDE DEF n, m
<1>2. n <= m
  BY DEF n, m
<1>3. PICK f \in Bijection(1..n, S) : TRUE
  BY <1>1 DEF ExistsBijection
<1>4. PICK g \in Bijection(1..m, T) : TRUE
  BY <1>1 DEF ExistsBijection
<1>5. g \in [1..m -> T] /\ \A i, j \in 1..m : g[i] = g[j] => i = j
  BY <1>4 DEF Bijection, Injection, IsInjective
<1>6. f \in [1..n -> S] /\ \A x \in S : \E i \in 1..n : f[i] = x
  BY <1>3 DEF Bijection, Surjection
<1> DEFINE inv == [x \in S |-> CHOOSE i \in 1..n : f[i] = x]
           j == [x \in S |-> g[inv[x]]]
<1>7. \A x \in S : inv[x] \in 1..n /\ f[inv[x]] = x
  BY <1>6
<1> HIDE DEF inv
<1>8. \A x \in S : inv[x] \in 1..m
  BY <1>1, <1>2, <1>7
<1>9. j \in [S -> T]
  BY <1>5, <1>8
<1>10. OneToOne(j, S)
  <2> SUFFICES ASSUME NEW a \in S, NEW b \in S, j[a] = j[b] PROVE a = b
    BY DEF OneToOne
  <2>1. inv[a] = inv[b]
    BY <1>5, <1>8
  <2> QED
    BY <1>7, <2>1
<1> QED
  BY <1>9, <1>10

\* The image of a one-to-one function is as large as its domain.
LEMMA ImageLemma ==
    ASSUME NEW S, NEW T, IsFiniteSet(S), NEW f \in [S -> T], OneToOne(f, S)
    PROVE  IsFiniteSet({f[a] : a \in S}) /\ Cardinality({f[a] : a \in S}) = Cardinality(S)
<1> DEFINE I == {f[a] : a \in S}
<1>1. f \in [S -> I] /\ \A x \in I : \E a \in S : f[a] = x
  OBVIOUS
<1> HIDE DEF I
<1>2. f \in Bijection(S, I)
  BY <1>1 DEF Bijection, Injection, Surjection, IsInjective, OneToOne
<1>3. ExistsBijection(S, I)
  BY <1>2 DEF ExistsBijection
<1>4. IsFiniteSet(I) /\ Cardinality(I) = Cardinality(S)
  BY <1>3, FS_Bijection
<1> QED
  BY <1>4 DEF I

\* The twin of a pointer, the twins of a chain, and what the copy of each cell says.
ToTwin(f, a) == IF a = NULL THEN NULL ELSE f[a]
Mapped(f, s) == [i \in 1..Len(s) |-> f[s[i]]]
Copied(h, g, f, S) ==
    \A a \in S :
        /\ f[a] \in Cells /\ f[a] \in DOMAIN g
        /\ g[f[a]] = [key |-> h[a].key, prev |-> ToTwin(f, h[a].prev), next |-> ToTwin(f, h[a].next)]

\* copy_assoc_chain: the twins of a chain are linked like the chain.
LEMMA ChainTwin ==
    ASSUME NEW h, NEW first, NEW s, NEW c, ChainIs(h, first, s, c),
           NEW f, OneToOne(f, Members(s)), NEW g, Copied(h, g, f, Members(s))
    PROVE  /\ ChainIs(g, ToTwin(f, first), Mapped(f, s), c)
           /\ Members(Mapped(f, s)) = {f[a] : a \in Members(s)}
<1> DEFINE z == Mapped(f, s)
<1>0. /\ CellCt \in Nat /\ NULL \notin Cells /\ s \in Seq(Cells) /\ NoRepeats(s) /\ Len(s) \in Nat
      /\ Cells \in SUBSET Pointers /\ NULL \in Pointers
  <2>1. CellCt \in Nat /\ NULL \notin Cells
    BY AssocAssumption, PlacesLemma
  <2>2. s \in Seq(Cells) /\ NoRepeats(s)
    BY DEF ChainIs
  <2>3. Len(s) \in Nat
    BY <2>2
  <2>4. Cells \in SUBSET Pointers /\ NULL \in Pointers
    BY <2>1 DEF Pointers, Cells, NULL
  <2> QED
    BY <2>1, <2>2, <2>3, <2>4
<1>1. \A i \in 1..Len(s) : s[i] \in Members(s) /\ s[i] \in Cells /\ f[s[i]] \in Cells
  <2>1. \A i \in 1..Len(s) : s[i] \in Members(s) /\ s[i] \in Cells
    BY <1>0 DEF Members
  <2>2. \A a \in Members(s) : f[a] \in Cells
    BY DEF Copied
  <2> QED
    BY <2>1, <2>2
<1>2. z \in Seq(Cells) /\ Len(z) = Len(s) /\ \A i \in 1..Len(s) : z[i] = f[s[i]]
  <2>1. z = [i \in 1..Len(s) |-> f[s[i]]]
    BY DEF Mapped
  <2> HIDE DEF z
  <2>2. z \in [1..Len(s) -> Cells]
    BY <1>1, <2>1
  <2>3. z \in Seq(Cells)
    BY <1>0, <2>2
  <2>4. Len(z) = Len(s)
    <3>1. DOMAIN z = 1..Len(z) /\ DOMAIN z = 1..Len(s) /\ Len(z) \in Nat
      BY <2>1, <2>3
    <3> QED
      BY <1>0, <3>1
  <2> QED
    BY <2>1, <2>3, <2>4
<1> HIDE DEF z
<1>3. Members(z) = {f[a] : a \in Members(s)}
  <2>1. \A x : x \in Members(z) <=> \E i \in 1..Len(s) : x = f[s[i]]
    BY <1>2 DEF Members
  <2>2. \A a : a \in Members(s) <=> \E i \in 1..Len(s) : a = s[i]
    BY DEF Members
  <2>3. \A x : x \in Members(z) <=> \E a \in Members(s) : x = f[a]
    BY <2>1, <2>2
  <2> QED
    BY <2>3
<1>4. NoRepeats(z)
  BY <1>0, <1>1, <1>2 DEF NoRepeats, OneToOne
<1>5. ASSUME NEW a \in Members(s)
      PROVE  /\ g[f[a]] \in Elements /\ g[f[a]].key = h[a].key /\ f[a] \in DOMAIN g
             /\ g[f[a]].prev = ToTwin(f, h[a].prev) /\ g[f[a]].next = ToTwin(f, h[a].next)
  <2>1. /\ g[f[a]] = [key |-> h[a].key, prev |-> ToTwin(f, h[a].prev), next |-> ToTwin(f, h[a].next)]
        /\ f[a] \in DOMAIN g
    BY DEF Copied
  <2>2. h[a].key \in AssocKeys
    BY DEF ChainIs, Elements
  <2>3. h[a].prev \in Members(s) \cup {NULL} /\ h[a].next \in Members(s) \cup {NULL}
    BY Neighbours
  <2>4. \A b \in Members(s) \cup {NULL} : ToTwin(f, b) \in Pointers
    BY <1>0 DEF ToTwin, Copied
  <2>5. ToTwin(f, h[a].prev) \in Pointers /\ ToTwin(f, h[a].next) \in Pointers
    BY <2>3, <2>4
  <2> QED
    BY <2>1, <2>2, <2>5 DEF Elements
<1>6. ToTwin(f, first) = IF z = <<>> THEN NULL ELSE z[1]
  <2>1. first = IF s = <<>> THEN NULL ELSE s[1]
    BY DEF ChainIs, Linked
  <2>2. s = <<>> <=> z = <<>>
    BY <1>0, <1>2
  <2>3. s # <<>> => 1 \in 1..Len(s)
    BY <1>0
  <2> QED
    BY <1>0, <1>1, <1>2, <2>1, <2>2, <2>3 DEF ToTwin
<1>7. ASSUME NEW i \in 1..Len(z)
      PROVE  /\ z[i] \in DOMAIN g
             /\ g[z[i]].prev = IF i = 1 THEN NULL ELSE z[i - 1]
             /\ g[z[i]].next = IF i = Len(z) THEN NULL ELSE z[i + 1]
  <2>1. i \in 1..Len(s) /\ z[i] = f[s[i]] /\ s[i] \in Members(s)
    BY <1>1, <1>2
  <2>2. h[s[i]].prev = (IF i = 1 THEN NULL ELSE s[i - 1]) /\ h[s[i]].next = IF i = Len(s) THEN NULL ELSE s[i + 1]
    BY <2>1 DEF ChainIs, Linked
  <2>3. (i # 1 => i - 1 \in 1..Len(s)) /\ (i # Len(s) => i + 1 \in 1..Len(s))
    BY <1>0, <2>1
  <2>4. ToTwin(f, h[s[i]].prev) = IF i = 1 THEN NULL ELSE z[i - 1]
    BY <1>0, <1>1, <1>2, <2>2, <2>3 DEF ToTwin
  <2>5. ToTwin(f, h[s[i]].next) = IF i = Len(z) THEN NULL ELSE z[i + 1]
    BY <1>0, <1>1, <1>2, <2>2, <2>3 DEF ToTwin
  <2> QED
    BY <1>5, <2>1, <2>4, <2>5
<1>8. Linked(g, ToTwin(f, first), z)
  BY <1>6, <1>7 DEF Linked
<1>9. \A b \in Members(z) : g[b] \in Elements /\ HashOf[g[b].key] = c
  BY <1>3, <1>5 DEF ChainIs
<1>10. \A b, d \in Members(z) : g[b].key = g[d].key => b = d
  BY <1>3, <1>5 DEF ChainIs
<1> QED
  BY <1>2, <1>3, <1>4, <1>8, <1>9, <1>10 DEF ChainIs, z

\* What r_assoc_copy does: the new table has a twin of every chain.
Duplicate(q, f) == [q EXCEPT !["knew"] = [c \in ChainNos |-> Mapped(f, q["old"][c])]]
CopyShape(h, g, ch, dh, f, S) ==
    /\ f \in [S -> Cells \ DOMAIN h] /\ OneToOne(f, S)
    /\ DOMAIN g = DOMAIN h \cup {f[a] : a \in S}
    /\ \A x \in DOMAIN h : g[x] = h[x]
    /\ Copied(h, g, f, S)
    /\ dh["old"] = ch["old"]
    /\ \A c \in ChainNos : dh["knew"][c] = ToTwin(f, ch["old"][c])

\* The chains after r_assoc_copy.
LEMMA CopyLaid ==
    ASSUME NEW h, NEW ch, NEW q, Laid(h, ch, q), CellsIn(q, "knew") = {},
           NEW f, NEW g, NEW dh, CopyShape(h, g, ch, dh, f, CellsIn(q, "old"))
    PROVE  /\ Laid(g, dh, Duplicate(q, f)) /\ Duplicate(q, f)["old"] = q["old"]
           /\ CellsIn(Duplicate(q, f), "knew") = {f[a] : a \in CellsIn(q, "old")}
<1> DEFINE O == CellsIn(q, "old")
           r == Duplicate(q, f)
<1>0. "old" \in Tables /\ "knew" \in Tables /\ "old" # "knew" /\ \A t \in Tables : t = "old" \/ t = "knew"
  BY DEF Tables
<1>1. /\ f \in [O -> Cells \ DOMAIN h] /\ OneToOne(f, O)
      /\ DOMAIN g = DOMAIN h \cup {f[a] : a \in O}
      /\ \A x \in DOMAIN h : g[x] = h[x]
      /\ Copied(h, g, f, O)
      /\ dh["old"] = ch["old"]
      /\ \A c \in ChainNos : dh["knew"][c] = ToTwin(f, ch["old"][c])
  BY DEF CopyShape
<1>2. \A c \in ChainNos : Members(q["old"][c]) \in SUBSET O
  BY DEF CellsIn
<1>3. ASSUME NEW c \in ChainNos
      PROVE  /\ ChainIs(g, dh["knew"][c], Mapped(f, q["old"][c]), c)
             /\ Members(Mapped(f, q["old"][c])) = {f[a] : a \in Members(q["old"][c])}
             /\ Mapped(f, q["old"][c]) \in Seq(Cells)
  <2>1. ChainIs(h, ch["old"][c], q["old"][c], c)
    BY <1>0 DEF Laid
  <2>2. OneToOne(f, Members(q["old"][c])) /\ Copied(h, g, f, Members(q["old"][c]))
    BY <1>1, <1>2 DEF OneToOne, Copied
  <2>3. /\ ChainIs(g, ToTwin(f, ch["old"][c]), Mapped(f, q["old"][c]), c)
        /\ Members(Mapped(f, q["old"][c])) = {f[a] : a \in Members(q["old"][c])}
    BY <2>1, <2>2, ChainTwin
  <2> QED
    BY <1>1, <2>3 DEF ChainIs
<1>4. /\ r \in [Tables -> [ChainNos -> Seq(Cells)]]
      /\ r["old"] = q["old"]
      /\ \A c \in ChainNos : r["knew"][c] = Mapped(f, q["old"][c])
  <2> DEFINE w == [c \in ChainNos |-> Mapped(f, q["old"][c])]
  <2>1. w \in [ChainNos -> Seq(Cells)] /\ \A c \in ChainNos : w[c] = Mapped(f, q["old"][c])
    BY <1>3
  <2>2. q \in [Tables -> [ChainNos -> Seq(Cells)]] /\ r = [q EXCEPT !["knew"] = w]
    BY DEF Laid, Duplicate
  <2> HIDE DEF w, r
  <2>3. r["knew"] = w /\ r["old"] = q["old"] /\ r \in [Tables -> [ChainNos -> Seq(Cells)]]
    BY <1>0, <2>1, <2>2
  <2> QED
    BY <2>1, <2>3
<1> HIDE DEF r, O
<1>5. \A c \in ChainNos : Members(r["knew"][c]) = {f[a] : a \in Members(q["old"][c])}
  BY <1>3, <1>4
<1>6. CellsIn(r, "knew") = {f[a] : a \in O}
  BY <1>5 DEF CellsIn, O
<1>7. CellsIn(r, "old") = O
  BY <1>4 DEF CellsIn, O
<1>8. Apart(r)
  <2> SUFFICES ASSUME NEW t \in Tables, NEW u \in Tables, NEW c \in ChainNos, NEW d \in ChainNos,
                      NEW a \in Members(r[t][c]), a \in Members(r[u][d])
               PROVE  t = u /\ c = d
    BY DEF Apart
  <2>0. \A e \in ChainNos : \A b \in Members(r["old"][e]) : b \in DOMAIN h
    BY <1>0, <1>4, LaidCells
  <2>1. \A e \in ChainNos : \A b \in Members(r["knew"][e]) : b \notin DOMAIN h
    BY <1>1, <1>2, <1>5
  <2>2. CASE t = "old" /\ u = "old"
    <3>1. a \in Members(q["old"][c]) /\ a \in Members(q["old"][d])
      BY <1>4, <2>2
    <3>2. Apart(q)
      BY DEF Laid
    <3>3. c = d
      BY <1>0, <3>1, <3>2 DEF Apart
    <3> QED
      BY <2>2, <3>3
  <2>3. CASE t = "knew" /\ u = "knew"
    <3>1. PICK x \in Members(q["old"][c]) : a = f[x]
      BY <1>5, <2>3
    <3>2. PICK y \in Members(q["old"][d]) : a = f[y]
      BY <1>5, <2>3
    <3>3. x = y
      BY <1>1, <1>2, <3>1, <3>2 DEF OneToOne
    <3> QED
      BY <1>0, <2>3, <3>1, <3>2, <3>3 DEF Laid, Apart
  <2>4. t = u
    BY <1>0, <2>0, <2>1
  <2> QED
    BY <1>0, <2>2, <2>3, <2>4
<1>9. DOMAIN g = UNION {CellsIn(r, t) : t \in Tables}
  <2>1. DOMAIN h = O
    <3>1. DOMAIN h = UNION {CellsIn(q, t) : t \in Tables}
      BY DEF Laid
    <3> QED
      BY <1>0, <3>1 DEF O
  <2> QED
    BY <1>0, <1>1, <1>6, <1>7, <2>1
<1>10. ASSUME NEW c \in ChainNos PROVE ChainIs(g, dh["old"][c], r["old"][c], c)
  <2>1. ChainIs(h, ch["old"][c], q["old"][c], c)
    BY <1>0 DEF Laid
  <2>2. \A a \in Members(q["old"][c]) : a \in DOMAIN g /\ g[a] = h[a]
    BY <1>0, <1>1, LaidCells
  <2>3. ChainIs(g, ch["old"][c], q["old"][c], c)
    BY <2>1, <2>2, ChainFrame
  <2> QED
    BY <1>1, <1>4, <2>3
<1>11. \A t \in Tables, c \in ChainNos : ChainIs(g, dh[t][c], r[t][c], c)
  BY <1>0, <1>3, <1>4, <1>10
<1> QED
  BY <1>4, <1>6, <1>8, <1>9, <1>11 DEF Laid, r, O

\* r_assoc_copy makes one twin of every cell of the old table.
LEMMA CopyStep ==
    ASSUME NEW q, Laid(heap, chains, q), IsTable(chains, Pointers), Copy
    PROVE  /\ \E f : CopyShape(heap, heap', chains, chains', f, CellsIn(q, "old"))
           /\ owned' = owned + Cardinality(CellsIn(q, "old"))
           /\ IsTable(chains', Pointers)
<1> DEFINE O == CellsIn(q, "old")
           F == Cells \ DOMAIN heap
<1>0. /\ "old" \in Tables /\ "knew" \in Tables /\ "old" # "knew" /\ NULL \notin Cells
      /\ CellCt \in Nat /\ Cells \in SUBSET Pointers /\ NULL \in Pointers
  <2>1. CellCt \in Nat
    BY AssocAssumption
  <2>2. Cells \in SUBSET Pointers /\ NULL \in Pointers
    BY <2>1 DEF Cells, Pointers, NULL
  <2> QED
    BY <2>1, <2>2, PlacesLemma DEF Tables
<1>1. CellsOf("old") = O
  BY <1>0, WalkLemma
<1>2. IsFiniteSet(O) /\ O \in SUBSET DOMAIN heap /\ IsFiniteSet(F)
  <2>1. IsFiniteSet(1..CellCt)
    <3>1. 1 \in Int /\ CellCt \in Int
      BY <1>0
    <3> QED
      BY <3>1, FS_Interval
  <2>2. F \in SUBSET (1..CellCt)
    BY DEF Cells
  <2> QED
    BY <1>0, <2>1, <2>2, LaidCells, FS_Subset
<1> DEFINE f == Twins
<1>3. f \in [O -> F] /\ OneToOne(f, O)
  <2>1. Cardinality(O) <= Cardinality(F)
    BY <1>1 DEF Copy
  <2> HIDE DEF O, F
  <2>2. \E j \in [O -> F] : OneToOne(j, O)
    BY <1>2, <2>1, InjectionLemma
  <2>3. Twins = CHOOSE j \in [O -> F] : OneToOne(j, O)
    BY <1>1 DEF Twins, OneToOne, F
  <2> QED
    BY <2>2, <2>3
<1> HIDE DEF f, O, F
<1> DEFINE Old(x) == CHOOSE a \in O : f[a] = x
<1>4. DOMAIN f = O
  BY <1>3
<1>5. /\ heap' = [x \in DOMAIN heap \cup {f[a] : a \in O} |->
                    IF x \in DOMAIN heap THEN heap[x]
                    ELSE [key |-> heap[Old(x)].key, prev |-> ToTwin(f, heap[Old(x)].prev),
                          next |-> ToTwin(f, heap[Old(x)].next)]]
      /\ chains' = [chains EXCEPT !["knew"] = [c \in ChainNos |-> ToTwin(f, chains["old"][c])]]
      /\ owned' = owned + Cardinality(O)
  BY <1>4 DEF Copy, f, ToTwin, ChainNos
<1>6. \A a \in O : Old(f[a]) = a
  BY <1>3 DEF OneToOne
<1> HIDE DEF Old
<1>7. /\ DOMAIN heap' = DOMAIN heap \cup {f[a] : a \in O}
      /\ \A x \in DOMAIN heap : heap'[x] = heap[x]
      /\ \A a \in O : f[a] \in DOMAIN heap' /\ f[a] \in Cells /\ f[a] \notin DOMAIN heap
  BY <1>3, <1>5 DEF F
<1>8. Copied(heap, heap', f, O)
  <2> SUFFICES ASSUME NEW a \in O
               PROVE  heap'[f[a]] = [key |-> heap[a].key, prev |-> ToTwin(f, heap[a].prev), next |-> ToTwin(f, heap[a].next)]
    BY <1>7 DEF Copied
  <2>1. f[a] \in DOMAIN heap \cup {f[b] : b \in O} /\ f[a] \notin DOMAIN heap
    BY <1>7
  <2>2. heap'[f[a]] = [key |-> heap[Old(f[a])].key, prev |-> ToTwin(f, heap[Old(f[a])].prev),
                       next |-> ToTwin(f, heap[Old(f[a])].next)]
    BY <1>5, <2>1
  <2> QED
    BY <1>6, <2>2
<1>9. \A c \in ChainNos : ToTwin(f, chains["old"][c]) \in Pointers
  <2> SUFFICES ASSUME NEW c \in ChainNos PROVE ToTwin(f, chains["old"][c]) \in Pointers
    OBVIOUS
  <2> DEFINE s == q["old"][c]
  <2>1. s \in Seq(Cells) /\ chains["old"][c] = IF s = <<>> THEN NULL ELSE s[1]
    BY <1>0 DEF Laid, ChainIs, Linked
  <2>2. s # <<>> => s[1] \in Members(s)
    BY <2>1 DEF Members
  <2>3. Members(s) \in SUBSET O
    BY DEF CellsIn, O
  <2>4. \A a \in O : f[a] \in Pointers
    BY <1>0, <1>7
  <2> HIDE DEF s
  <2> QED
    BY <1>0, <2>1, <2>2, <2>3, <2>4 DEF ToTwin
<1>10. /\ IsTable(chains', Pointers) /\ chains'["old"] = chains["old"]
       /\ \A c \in ChainNos : chains'["knew"][c] = ToTwin(f, chains["old"][c])
  <2> DEFINE w == [c \in ChainNos |-> ToTwin(f, chains["old"][c])]
  <2>1. w \in [ChainNos -> Pointers] /\ \A c \in ChainNos : w[c] = ToTwin(f, chains["old"][c])
    BY <1>9
  <2>2. chains \in [Tables -> [ChainNos -> Pointers]] /\ chains' = [chains EXCEPT !["knew"] = w]
    BY <1>5 DEF IsTable
  <2> HIDE DEF w
  <2>3. chains'["knew"] = w /\ chains'["old"] = chains["old"] /\ IsTable(chains', Pointers)
    BY <1>0, <2>1, <2>2 DEF IsTable
  <2> QED
    BY <2>1, <2>3
<1>11. CopyShape(heap, heap', chains, chains', f, O)
  BY <1>3, <1>7, <1>8, <1>10 DEF CopyShape, F
<1> QED
  BY <1>5, <1>10, <1>11 DEF O

-----------------------------------------------------------------------------
\* r_assoc_destroy of a table.
Removed(q, t) == [q EXCEPT ![t] = [c \in ChainNos |-> <<>>]]
\* The other table is as it was.
LEMMA DestroyLaid ==
    ASSUME NEW q, Laid(heap, chains, q), IsTable(chains, Pointers), NEW t \in Tables, Destroy(t)
    PROVE  /\ Laid(heap', chains', Removed(q, t)) /\ IsTable(chains', Pointers)
           /\ DOMAIN heap' = DOMAIN heap \ CellsIn(q, t)
           /\ \A x \in DOMAIN heap' : heap'[x] = heap[x]
           /\ CellsIn(Removed(q, t), t) = {}
           /\ \A u \in Tables : u # t => Removed(q, t)[u] = q[u] /\ CellsIn(Removed(q, t), u) = CellsIn(q, u)
           /\ owned' = owned - Cardinality(CellsIn(q, t))
<1> DEFINE r == Removed(q, t)
           none == [c \in ChainNos |-> <<>>]
           null == [c \in ChainNos |-> NULL]
<1>0. CellsOf(t) = CellsIn(q, t)
  BY WalkLemma
<1>1. /\ heap' = [x \in DOMAIN heap \ CellsIn(q, t) |-> heap[x]]
      /\ chains' = [chains EXCEPT ![t] = null]
      /\ owned' = owned - Cardinality(CellsIn(q, t))
  BY <1>0 DEF Destroy, ChainNos
<1>2. none \in [ChainNos -> Seq(Cells)] /\ null \in [ChainNos -> Pointers]
  <2>1. CellCt \in Nat
    BY AssocAssumption
  <2>2. NULL \in Pointers
    BY <2>1 DEF NULL, Pointers
  <2> QED
    BY <2>2
<1>3. \A c \in ChainNos : none[c] = <<>> /\ null[c] = NULL
  OBVIOUS
<1>4. r = [q EXCEPT ![t] = none] /\ q \in [Tables -> [ChainNos -> Seq(Cells)]] /\ chains \in [Tables -> [ChainNos -> Pointers]]
  BY DEF Removed, Laid, IsTable
<1> HIDE DEF none, null, r
<1>5. r \in [Tables -> [ChainNos -> Seq(Cells)]] /\ r[t] = none /\ \A u \in Tables : u # t => r[u] = q[u]
  BY <1>2, <1>4
<1>6. chains' \in [Tables -> [ChainNos -> Pointers]] /\ chains'[t] = null /\ \A u \in Tables : u # t => chains'[u] = chains[u]
  BY <1>1, <1>2, <1>4
<1>7. Members(<<>>) = {}
  BY DEF Members
<1>8. CellsIn(r, t) = {} /\ \A u \in Tables : u # t => CellsIn(r, u) = CellsIn(q, u)
  BY <1>3, <1>5, <1>7 DEF CellsIn
<1>9. DOMAIN heap' = DOMAIN heap \ CellsIn(q, t) /\ \A x \in DOMAIN heap' : heap'[x] = heap[x]
  BY <1>1
<1>10. \A u, v \in Tables : \A a \in CellsIn(q, u) : a \in CellsIn(q, v) => u = v
  BY LaidCells
<1>11. DOMAIN heap' = UNION {CellsIn(r, u) : u \in Tables}
  <2>1. DOMAIN heap = UNION {CellsIn(q, u) : u \in Tables}
    BY DEF Laid
  <2>2. ASSUME NEW x \in DOMAIN heap' PROVE \E u \in Tables : x \in CellsIn(r, u)
    BY <1>8, <1>9, <2>1
  <2>3. ASSUME NEW u \in Tables, NEW x \in CellsIn(r, u) PROVE x \in DOMAIN heap'
    <3>1. u # t /\ x \in CellsIn(q, u)
      BY <1>8
    <3> QED
      BY <1>9, <1>10, <2>1, <3>1
  <2> QED
    BY <2>2, <2>3
<1>12. Apart(r)
  <2> SUFFICES ASSUME NEW u \in Tables, NEW v \in Tables, NEW d \in ChainNos, NEW e \in ChainNos,
                      NEW a \in Members(r[u][d]), a \in Members(r[v][e])
               PROVE  u = v /\ d = e
    BY DEF Apart
  <2>1. u # t /\ v # t
    BY <1>3, <1>5, <1>7
  <2>2. a \in Members(q[u][d]) /\ a \in Members(q[v][e])
    BY <1>5, <2>1
  <2>3. Apart(q)
    BY DEF Laid
  <2> QED
    BY <2>2, <2>3 DEF Apart
<1>13. ASSUME NEW u \in Tables, NEW c \in ChainNos PROVE ChainIs(heap', chains'[u][c], r[u][c], c)
  <2>1. CASE u = t
    <3>1. chains'[u][c] = NULL /\ r[u][c] = <<>>
      BY <1>3, <1>5, <1>6, <2>1
    <3>2. ChainIs(heap', NULL, <<>>, c)
      BY ChainEmpty
    <3> QED
      BY <3>1, <3>2
  <2>2. CASE u # t
    <3>1. ChainIs(heap, chains[u][c], q[u][c], c)
      BY DEF Laid
    <3>2. \A a \in Members(q[u][c]) : a \in CellsIn(q, u)
      BY DEF CellsIn
    <3>3. \A a \in Members(q[u][c]) : a \in DOMAIN heap' /\ heap'[a] = heap[a]
      BY <1>8, <1>9, <1>11, <2>2, <3>2
    <3>4. ChainIs(heap', chains[u][c], q[u][c], c)
      BY <3>1, <3>3, ChainFrame
    <3> QED
      BY <1>5, <1>6, <2>2, <3>4
  <2> QED
    BY <2>1, <2>2
<1> QED
  BY <1>1, <1>5, <1>6, <1>8, <1>9, <1>11, <1>12, <1>13 DEF Laid, IsTable, r

-----------------------------------------------------------------------------
\* What is counted: a datum for every cell, and never fewer elements than there are; a
\* table that does not exist has none.
Counts(h, q, own, cnt, lv) ==
    /\ own = Cardinality(DOMAIN h)
    /\ \A t \in Tables : cnt[t] >= Cardinality(CellsIn(q, t))
    /\ \A t \in Tables \ lv : CellsIn(q, t) = {}

\* A cell less.
LEMMA CountsCut ==
    ASSUME NEW h, NEW ch, NEW q, Laid(h, ch, q), NEW t \in Tables, NEW c \in ChainNos, NEW a \in Members(q[t][c]),
           NEW own, NEW cnt \in [Tables -> Int], NEW lv, Counts(h, q, own, cnt, lv),
           NEW g, DOMAIN g = DOMAIN h \ {a}
    PROVE  Counts(g, Put(q, t, c, Unlink(q[t][c], a)), own - 1, [cnt EXCEPT ![t] = @ - 1], lv)
<1> DEFINE r == Put(q, t, c, Unlink(q[t][c], a))
           cnt1 == [cnt EXCEPT ![t] = @ - 1]
<1>0. cnt[t] \in Int /\ Laid(h, ch, q)
  OBVIOUS
<1>1. \A u \in Tables, d \in ChainNos : Members(r[u][d]) = Members(q[u][d]) \ {a}
  <2> HIDE DEF cnt1
  <2> QED
    BY <1>0, UnlinkPlaces
<1>2. cnt1[t] = cnt[t] - 1 /\ (\A u \in Tables : u # t => cnt1[u] = cnt[u]) /\ \A u \in Tables : cnt[u] \in Int
  OBVIOUS
<1>3. a \in CellsIn(q, t)
  BY DEF CellsIn
<1> HIDE DEF r, cnt1
<1>4. \A u \in Tables : CellsIn(r, u) = CellsIn(q, u) \ {a}
  BY <1>1 DEF CellsIn
<1>5. /\ a \in DOMAIN h /\ IsFiniteSet(DOMAIN h) /\ Cardinality(DOMAIN h) \in Nat
      /\ \A u \in Tables : IsFiniteSet(CellsIn(q, u)) /\ Cardinality(CellsIn(q, u)) \in Nat
      /\ \A u \in Tables : u # t => a \notin CellsIn(q, u)
  BY <1>3, LaidCells
<1>6. Cardinality(DOMAIN g) = Cardinality(DOMAIN h) - 1
  BY <1>5, FS_RemoveElement
<1>7. Cardinality(CellsIn(r, t)) = Cardinality(CellsIn(q, t)) - 1
  BY <1>3, <1>4, <1>5, FS_RemoveElement
<1>8. \A u \in Tables : u # t => CellsIn(r, u) = CellsIn(q, u)
  BY <1>4, <1>5
<1>9. ASSUME NEW u \in Tables PROVE cnt1[u] >= Cardinality(CellsIn(r, u))
  <2>0. cnt[u] >= Cardinality(CellsIn(q, u))
    BY DEF Counts
  <2>1. CASE u = t
    BY <1>2, <1>5, <1>7, <2>0, <2>1
  <2>2. CASE u # t
    BY <1>2, <1>8, <2>0, <2>2
  <2> QED
    BY <2>1, <2>2
<1>10. \A u \in Tables \ lv : CellsIn(r, u) = {}
  BY <1>4 DEF Counts
<1>11. own - 1 = Cardinality(DOMAIN g)
  BY <1>6 DEF Counts
<1> QED
  BY <1>9, <1>10, <1>11 DEF Counts, r, cnt1

\* A cell more.
LEMMA CountsPush ==
    ASSUME NEW h, NEW ch, NEW q, Laid(h, ch, q), NEW t \in Tables, NEW c \in ChainNos, NEW a \in Cells, a \notin DOMAIN h,
           NEW own, NEW cnt \in [Tables -> Int], NEW lv, t \in lv, Counts(h, q, own, cnt, lv),
           NEW g, DOMAIN g = DOMAIN h \cup {a}
    PROVE  Counts(g, Put(q, t, c, <<a>> \o q[t][c]), own + 1, [cnt EXCEPT ![t] = @ + 1], lv)
<1> DEFINE s == q[t][c]
           z == <<a>> \o s
           r == Put(q, t, c, z)
           cnt1 == [cnt EXCEPT ![t] = @ + 1]
<1>1. s \in Seq(Cells)
  BY DEF Laid
<1>2. z \in Seq(Cells) /\ Members(z) = Members(s) \cup {a}
  <2> HIDE DEF s
  <2> QED
    BY <1>1, FrontLemma
<1>3. /\ r[t][c] = z
      /\ \A u \in Tables, d \in ChainNos : u # t \/ d # c => r[u][d] = q[u][d]
  <2> DEFINE S == Seq(Cells)
  <2>1. z \in S /\ IsTable(q, S)
    BY <1>2 DEF IsTable, Laid
  <2> HIDE DEF S, z
  <2> QED
    BY <2>1, PutLemma
<1>4. q[t][c] = s
  OBVIOUS
<1>5. cnt1[t] = cnt[t] + 1 /\ (\A u \in Tables : u # t => cnt1[u] = cnt[u]) /\ \A u \in Tables : cnt[u] \in Int
  OBVIOUS
<1> HIDE DEF s, z, r, cnt1
<1>6. CellsIn(r, t) = CellsIn(q, t) \cup {a}
  BY <1>2, <1>3, <1>4 DEF CellsIn
<1>7. \A u \in Tables : u # t => CellsIn(r, u) = CellsIn(q, u)
  BY <1>3 DEF CellsIn
<1>8. /\ IsFiniteSet(DOMAIN h) /\ Cardinality(DOMAIN h) \in Nat
      /\ \A u \in Tables : IsFiniteSet(CellsIn(q, u)) /\ Cardinality(CellsIn(q, u)) \in Nat
      /\ \A u \in Tables : a \notin CellsIn(q, u)
  BY LaidCells
<1>9. Cardinality(DOMAIN g) = Cardinality(DOMAIN h) + 1
  BY <1>8, FS_AddElement
<1>10. Cardinality(CellsIn(r, t)) = Cardinality(CellsIn(q, t)) + 1
  BY <1>6, <1>8, FS_AddElement
<1>11. ASSUME NEW u \in Tables PROVE cnt1[u] >= Cardinality(CellsIn(r, u))
  <2>0. cnt[u] >= Cardinality(CellsIn(q, u))
    BY DEF Counts
  <2>1. CASE u = t
    BY <1>5, <1>8, <1>10, <2>0, <2>1
  <2>2. CASE u # t
    BY <1>5, <1>7, <2>0, <2>2
  <2> QED
    BY <2>1, <2>2
<1>12. \A u \in Tables \ lv : CellsIn(r, u) = {}
  BY <1>7 DEF Counts
<1>13. own + 1 = Cardinality(DOMAIN g)
  BY <1>9 DEF Counts
<1> QED
  BY <1>11, <1>12, <1>13 DEF Counts, r, cnt1, z, s

-----------------------------------------------------------------------------
(* The invariant: there is a list of cells for every chain that says how the cells are   *)
(* linked, what is counted and where the iterator is.                                     *)
Held(q) ==
    /\ Laid(heap, chains, q)
    /\ Counts(heap, q, owned, counted, live)
    /\ IterOK(q, heap, iter, visits, lasting)
AssocInv == AssocTypeOK /\ \E q : Held(q)

\* Initially no chain has a cell.
LEMMA AssocInitOK == AssocInit => AssocInv
<1> SUFFICES ASSUME AssocInit PROVE AssocInv
  OBVIOUS
<1> DEFINE q == [t \in Tables |-> [c \in ChainNos |-> <<>>]]
<1>0. /\ CellCt \in Nat /\ ChainCt \in Nat /\ NULL \in Pointers /\ NULL \in Int /\ -1 \in Int
  <2>1. CellCt \in Nat /\ ChainCt \in Nat
    BY AssocAssumption
  <2> QED
    BY <2>1 DEF NULL, Pointers
<1>1. DOMAIN heap = {}
  <2>1. heap = << >>
    BY DEF AssocInit
  <2>2. DOMAIN << >> = {}
    OBVIOUS
  <2> QED
    BY <2>1, <2>2
<1>2. /\ q \in [Tables -> [ChainNos -> Seq(Cells)]]
      /\ \A t \in Tables, c \in ChainNos : q[t][c] = <<>>
  <2>1. <<>> \in Seq(Cells)
    OBVIOUS
  <2> QED
    BY <2>1
<1> HIDE DEF q
<1>3. Members(<<>>) = {}
  BY DEF Members
<1>4. \A t \in Tables : CellsIn(q, t) = {}
  BY <1>2, <1>3 DEF CellsIn
<1>5. Laid(heap, chains, q)
  <2>1. Apart(q)
    BY <1>2, <1>3 DEF Apart
  <2>2. DOMAIN heap = UNION {CellsIn(q, t) : t \in Tables}
    BY <1>1, <1>4
  <2>3. ASSUME NEW t \in Tables, NEW c \in ChainNos PROVE ChainIs(heap, chains[t][c], q[t][c], c)
    <3>1. chains[t][c] = NULL /\ q[t][c] = <<>>
      BY <1>2 DEF AssocInit, ChainNos
    <3>2. ChainIs(heap, NULL, <<>>, c)
      BY ChainEmpty
    <3> QED
      BY <3>1, <3>2
  <2> QED
    BY <1>2, <2>1, <2>2, <2>3 DEF Laid
<1>6. Counts(heap, q, owned, counted, live)
  <2>1. owned = 0 /\ (\A t \in Tables : counted[t] = 0)
    BY DEF AssocInit
  <2>2. Cardinality({}) = 0
    BY FS_EmptySet
  <2>3. Cardinality(DOMAIN heap) = 0 /\ \A t \in Tables : Cardinality(CellsIn(q, t)) = 0
    BY <1>1, <1>4, <2>2
  <2>4. \A t \in Tables : counted[t] >= Cardinality(CellsIn(q, t))
    BY <2>1, <2>3
  <2> QED
    BY <1>4, <2>1, <2>3, <2>4 DEF Counts
<1>7. iter \in Iterators /\ iter.next = NULL /\ iter.prev = NULL
  BY <1>0 DEF AssocInit, NoIter, Iterators
<1>8. IterOK(q, heap, iter, visits, lasting)
  <2>1. lasting = {} /\ \A k \in AssocKeys : visits[k] = 0
    BY DEF AssocInit
  <2> QED
    BY <1>7, <2>1, PlacesLemma DEF IterOK, IterPlaces
<1>9. AssocTypeOK
  BY <1>0, <1>7 DEF AssocInit, AssocTypeOK, IsTable, ChainNos
<1> QED
  BY <1>5, <1>6, <1>8, <1>9 DEF AssocInv, Held

\* r_assoc_create
LEMMA CreateKeeps == AssocInv /\ Create => AssocInv'
<1> SUFFICES ASSUME AssocInv, Create PROVE AssocInv'
  OBVIOUS
<1>1. PICK q : Held(q)
  BY DEF AssocInv
<1>2. /\ live' = live \cup {"old"} /\ live \in SUBSET Tables
      /\ UNCHANGED <<heap, chains, counted, iter, visits, lasting, owned>>
  BY DEF Create, AssocInv, AssocTypeOK
<1>3. AssocTypeOK'
  <2>1. live' \in SUBSET Tables
    BY <1>2 DEF Tables
  <2> QED
    BY <1>2, <2>1 DEF AssocInv, AssocTypeOK
<1>4. Counts(heap, q, owned, counted, live')
  BY <1>1, <1>2 DEF Held, Counts
<1>5. Held(q)'
  BY <1>1, <1>2, <1>4 DEF Held
<1> QED
  BY <1>3, <1>5 DEF AssocInv

\* r_assoc_insert, a replacement: one more is counted than there is.
LEMMA ReplaceKeeps == ASSUME AssocInv, NEW t \in Tables, NEW k \in AssocKeys, Replace(t, k) PROVE AssocInv'
<1>1. PICK q : Held(q)
  BY DEF AssocInv
<1>2. /\ counted' = [counted EXCEPT ![t] = @ + 1] /\ counted \in [Tables -> Int]
      /\ UNCHANGED <<heap, live, chains, iter, visits, lasting, owned>>
  BY DEF Replace, AssocInv, AssocTypeOK
<1>3. counted' \in [Tables -> Int] /\ \A u \in Tables : counted'[u] >= counted[u] /\ counted[u] \in Int /\ counted'[u] \in Int
  BY <1>2
<1>4. AssocTypeOK'
  BY <1>2, <1>3 DEF AssocInv, AssocTypeOK
<1>5. Counts(heap, q, owned, counted', live)
  <2>1. Laid(heap, chains, q) /\ Counts(heap, q, owned, counted, live)
    BY <1>1 DEF Held
  <2>2. ASSUME NEW u \in Tables PROVE counted'[u] >= Cardinality(CellsIn(q, u))
    <3>1. Cardinality(CellsIn(q, u)) \in Nat
      BY <2>1, LaidCells
    <3>2. counted[u] >= Cardinality(CellsIn(q, u))
      BY <2>1 DEF Counts
    <3> QED
      BY <1>3, <3>1, <3>2
  <2> QED
    BY <2>1, <2>2 DEF Counts
<1>6. Held(q)'
  BY <1>1, <1>2, <1>5 DEF Held
<1> QED
  BY <1>4, <1>6 DEF AssocInv

\* r_assoc_insert of a new key.
LEMMA InsertKeeps == ASSUME AssocInv, NEW k \in AssocKeys, InsertNew("old", k) PROVE AssocInv'
<1>0. "old" \in Tables /\ HashOf[k] \in ChainNos
  BY AssocAssumption DEF Tables, ChainNos
<1>1. PICK q : Held(q)
  BY DEF AssocInv
<1>2. Laid(heap, chains, q) /\ Counts(heap, q, owned, counted, live) /\ IterOK(q, heap, iter, visits, lasting)
  BY <1>1 DEF Held
<1>3. AssocTypeOK /\ IsTable(chains, Pointers) /\ counted \in [Tables -> Int]
  BY DEF AssocInv, AssocTypeOK
<1>4. PICK a \in Cells \ DOMAIN heap :
        /\ Laid(heap', chains', Put(q, "old", HashOf[k], <<a>> \o q["old"][HashOf[k]]))
        /\ IsTable(chains', Pointers)
        /\ DOMAIN heap' = DOMAIN heap \cup {a}
        /\ SameKeys(heap, heap', DOMAIN heap) /\ heap'[a].key = k
  BY <1>0, <1>2, <1>3, InsertLaid
<1> DEFINE r == Put(q, "old", HashOf[k], <<a>> \o q["old"][HashOf[k]])
<1>5. /\ counted' = [counted EXCEPT !["old"] = @ + 1] /\ owned' = owned + 1 /\ "old" \in live
      /\ UNCHANGED <<live, iter, visits, lasting>>
  BY DEF InsertNew
<1>6. Counts(heap', r, owned + 1, [counted EXCEPT !["old"] = @ + 1], live)
  BY <1>0, <1>2, <1>3, <1>4, <1>5, CountsPush
<1>7. IterOK(r, heap', iter, visits, lasting)
  BY <1>2, <1>4, IterPush
<1> HIDE DEF r
<1>8. Laid(heap', chains', r)
  BY <1>4 DEF r
<1>9. Held(r)'
  BY <1>5, <1>6, <1>7, <1>8 DEF Held
<1>10. counted' \in [Tables -> Int]
  <2>1. counted["old"] + 1 \in Int
    BY <1>0, <1>3
  <2>2. counted' = [counted EXCEPT !["old"] = counted["old"] + 1]
    BY <1>3, <1>5
  <2> QED
    BY <1>3, <2>1, <2>2
<1>11. AssocTypeOK'
  BY <1>3, <1>4, <1>5, <1>10 DEF AssocTypeOK
<1> QED
  BY <1>9, <1>11 DEF AssocInv

\* What a deletion does, through the iterator or not.
LEMMA CutInv ==
    ASSUME AssocInv, NEW q, Held(q), NEW t \in Tables, NEW c \in ChainNos, NEW a \in Members(q[t][c]), UnlinkCell(t, c, a),
           iter' = Forget(a), lasting' \in SUBSET lasting,
           iter.next \in Cells /\ a \in Ahead(q, iter.next_chain, iter.next) => heap[a].key \notin lasting',
           UNCHANGED <<live, visits>>
    PROVE  AssocInv'
<1>2. Laid(heap, chains, q) /\ Counts(heap, q, owned, counted, live) /\ IterOK(q, heap, iter, visits, lasting)
  BY DEF Held
<1>3. AssocTypeOK /\ IsTable(chains, Pointers) /\ counted \in [Tables -> Int] /\ iter \in Iterators
  BY DEF AssocInv, AssocTypeOK
<1> DEFINE r == Put(q, t, c, Unlink(q[t][c], a))
<1>4. /\ Laid(heap', chains', r)
      /\ IsTable(chains', Pointers)
      /\ DOMAIN heap' = DOMAIN heap \ {a}
      /\ SameKeys(heap, heap', DOMAIN heap \ {a})
  <2>1. /\ Laid(heap', chains', r)
        /\ IsTable(chains', Pointers)
        /\ DOMAIN heap' = DOMAIN heap \ {a}
        /\ SameKeys(heap, heap', DOMAIN heap')
    BY <1>2, <1>3, UnlinkLaid
  <2> QED
    BY <2>1
<1>5. counted' = [counted EXCEPT ![t] = @ - 1] /\ owned' = owned - 1
  BY DEF UnlinkCell
<1>6. Counts(heap', r, owned - 1, [counted EXCEPT ![t] = @ - 1], live)
  BY <1>2, <1>3, <1>4, CountsCut
<1>7. iter' \in Iterators /\ Forgot(iter, iter', a)
  <2>1. DANGLING \in Int
    BY DEF DANGLING
  <2> QED
    BY <1>3, <2>1 DEF Iterators, Forgot, Forget
<1>8. IterOK(r, heap', iter', visits, lasting')
  BY <1>2, <1>4, <1>7, IterUnlink
<1> HIDE DEF r
<1>9. Held(r)'
  BY <1>4, <1>5, <1>6, <1>8 DEF Held
<1>10. counted' \in [Tables -> Int]
  BY <1>3, <1>5
<1>11. AssocTypeOK'
  BY <1>3, <1>4, <1>7, <1>10 DEF AssocTypeOK
<1> QED
  BY <1>9, <1>11 DEF AssocInv

\* r_assoc_delete
LEMMA DeleteKeeps == ASSUME AssocInv, NEW t \in Tables, NEW k \in AssocKeys, Delete(t, k) PROVE AssocInv'
<1>1. PICK q : Held(q)
  BY DEF AssocInv
<1>2. PICK a : a = Bucket(t, k)
  OBVIOUS
<1>3. HashOf[k] \in ChainNos /\ a \in Members(q[t][HashOf[k]]) /\ heap[a].key = k
  <2>1. Laid(heap, chains, q) /\ Bucket(t, k) # NULL
    BY <1>1 DEF Held, Delete
  <2> QED
    BY <1>2, <2>1, BucketLemma
<1>4. /\ UnlinkCell(t, HashOf[k], a) /\ iter' = Forget(a)
      /\ lasting' = IF t = "old" THEN lasting \ {k} ELSE lasting
      /\ UNCHANGED <<live, visits>>
  BY <1>2 DEF Delete
<1>5. lasting' \in SUBSET lasting
  BY <1>4
<1>6. a \in Ahead(q, iter.next_chain, iter.next) => heap[a].key \notin lasting'
  <2> SUFFICES ASSUME a \in Ahead(q, iter.next_chain, iter.next) PROVE heap[a].key \notin lasting'
    OBVIOUS
  <2>1. PICK d \in ChainNos : a \in Members(q["old"][d])
    BY DEF Ahead
  <2>2. t = "old"
    <3>1. Apart(q) /\ "old" \in Tables
      BY <1>1 DEF Held, Laid, Tables
    <3> QED
      BY <1>3, <2>1, <3>1 DEF Apart
  <2> QED
    BY <1>3, <1>4, <2>2
<1> QED
  BY <1>1, <1>3, <1>4, <1>5, <1>6, CutInv

\* r_assoc_iter_delete
LEMMA IterDeleteKeeps == AssocInv /\ IterDelete => AssocInv'
<1> SUFFICES ASSUME AssocInv, IterDelete PROVE AssocInv'
  OBVIOUS
<1>1. PICK q : Held(q)
  BY DEF AssocInv
<1>2. PICK a, c : a = iter.prev /\ c = iter.prev_chain
  OBVIOUS
<1>3. Laid(heap, chains, q) /\ IterOK(q, heap, iter, visits, lasting)
  BY <1>1 DEF Held
<1>4. a \in Cells /\ c \in ChainNos /\ a \in Members(q["old"][c]) /\ "old" \in Tables
  <2>1. a \in DOMAIN heap /\ DOMAIN heap \in SUBSET Cells
    BY <1>2, <1>3, LaidCells DEF IterDelete
  <2> QED
    BY <1>2, <1>3, <2>1 DEF IterOK, Tables
<1>5. UnlinkCell("old", c, a) /\ iter' = Forget(a) /\ UNCHANGED <<live, visits, lasting>>
  BY <1>2 DEF IterDelete
<1>6. iter.next \in Cells => a \notin Ahead(q, iter.next_chain, iter.next)
  BY <1>2, <1>3, <1>4 DEF IterOK
<1> QED
  BY <1>1, <1>4, <1>5, <1>6, CutInv

\* r_assoc_init_iter
LEMMA InitIterKeeps == AssocInv /\ InitIter => AssocInv'
<1> SUFFICES ASSUME AssocInv, InitIter PROVE AssocInv'
  OBVIOUS
<1>1. PICK q : Held(q)
  BY DEF AssocInv
<1>2. AssocTypeOK /\ Laid(heap, chains, q)
  BY <1>1 DEF AssocInv, Held
<1>3. IterOK(q, heap, iter', visits', lasting') /\ iter' \in Iterators
  BY <1>2, InitIterOK
<1>4. /\ visits' = [k \in AssocKeys |-> 0] /\ lasting' = KeysOf("old")
      /\ UNCHANGED <<heap, live, chains, counted, owned>>
  BY DEF InitIter
<1>5. Held(q)'
  BY <1>1, <1>3, <1>4 DEF Held
<1>6. lasting' \in SUBSET AssocKeys
  <2>1. "old" \in Tables /\ CellsOf("old") = CellsIn(q, "old")
    BY <1>2, WalkLemma DEF Tables
  <2>2. \A a \in CellsIn(q, "old") : heap[a].key \in AssocKeys
    BY <1>2, <2>1 DEF CellsIn, Laid, ChainIs, Elements
  <2> QED
    BY <1>4, <2>1, <2>2 DEF KeysOf
<1>7. visits' \in [AssocKeys -> Nat]
  BY <1>4
<1>8. AssocTypeOK'
  BY <1>2, <1>3, <1>4, <1>6, <1>7 DEF AssocTypeOK
<1> QED
  BY <1>5, <1>8 DEF AssocInv

\* r_assoc_iter
LEMMA IterKeeps == AssocInv /\ Iter => AssocInv'
<1> SUFFICES ASSUME AssocInv, Iter PROVE AssocInv'
  OBVIOUS
<1>1. PICK q : Held(q)
  BY DEF AssocInv
<1>2. AssocTypeOK /\ Laid(heap, chains, q) /\ IterOK(q, heap, iter, visits, lasting)
  BY <1>1 DEF AssocInv, Held
<1>3. IterOK(q, heap, iter', visits', lasting') /\ iter' \in Iterators /\ visits' \in [AssocKeys -> Nat]
  BY <1>2, IterStepOK
<1>4. lasting' \in SUBSET lasting /\ UNCHANGED <<heap, live, chains, counted, owned>>
  BY DEF Iter
<1>5. Held(q)'
  BY <1>1, <1>3, <1>4 DEF Held
<1>6. AssocTypeOK'
  BY <1>2, <1>3, <1>4 DEF AssocTypeOK
<1> QED
  BY <1>5, <1>6 DEF AssocInv

\* r_assoc_copy
LEMMA CopyKeeps == AssocInv /\ Copy => AssocInv'
<1> SUFFICES ASSUME AssocInv, Copy PROVE AssocInv'
  OBVIOUS
<1>0. "old" \in Tables /\ "knew" \in Tables /\ "old" # "knew" /\ \A t \in Tables : t = "old" \/ t = "knew"
  BY DEF Tables
<1>1. PICK q : Held(q)
  BY DEF AssocInv
<1>2. /\ AssocTypeOK /\ IsTable(chains, Pointers) /\ counted \in [Tables -> Int] /\ live \in SUBSET Tables
      /\ Laid(heap, chains, q) /\ Counts(heap, q, owned, counted, live) /\ IterOK(q, heap, iter, visits, lasting)
  BY <1>1 DEF AssocInv, AssocTypeOK, Held
<1> DEFINE O == CellsIn(q, "old")
<1>3. /\ \E f : CopyShape(heap, heap', chains, chains', f, O)
      /\ owned' = owned + Cardinality(O) /\ IsTable(chains', Pointers)
  BY <1>2, CopyStep
<1>4. PICK f : CopyShape(heap, heap', chains, chains', f, O)
  BY <1>3
<1>5. /\ live' = live \cup {"knew"} /\ counted' = [counted EXCEPT !["knew"] = counted["old"]]
      /\ UNCHANGED <<iter, visits, lasting>> /\ "knew" \notin live
  BY DEF Copy
<1>6. CellsIn(q, "knew") = {}
  BY <1>0, <1>2, <1>5 DEF Counts
<1> DEFINE r == Duplicate(q, f)
<1>7. Laid(heap', chains', r) /\ r["old"] = q["old"] /\ CellsIn(r, "knew") = {f[a] : a \in O}
  BY <1>2, <1>4, <1>6, CopyLaid
<1>8. /\ f \in [O -> Cells \ DOMAIN heap] /\ OneToOne(f, O)
      /\ DOMAIN heap' = DOMAIN heap \cup {f[a] : a \in O}
      /\ \A x \in DOMAIN heap : heap'[x] = heap[x]
  BY <1>4 DEF CopyShape
<1>9. /\ O \in SUBSET DOMAIN heap /\ IsFiniteSet(O) /\ Cardinality(O) \in Nat
      /\ IsFiniteSet(DOMAIN heap) /\ Cardinality(DOMAIN heap) \in Nat
  BY <1>0, <1>2, LaidCells
<1> DEFINE N == {f[a] : a \in O}
<1> HIDE DEF O, r
<1>10. IsFiniteSet(N) /\ Cardinality(N) = Cardinality(O)
  BY <1>8, <1>9, ImageLemma
<1>11. N \cap DOMAIN heap = {}
  BY <1>8
<1> HIDE DEF N
<1>12. Cardinality(DOMAIN heap') = Cardinality(DOMAIN heap) + Cardinality(O)
  <2>1. DOMAIN heap' = DOMAIN heap \cup N /\ DOMAIN heap \cap N = {}
    BY <1>8, <1>11 DEF N
  <2>2. Cardinality(DOMAIN heap \cup N) = Cardinality(DOMAIN heap) + Cardinality(N) - Cardinality(DOMAIN heap \cap N)
    BY <1>9, <1>10, FS_Union
  <2>3. Cardinality(DOMAIN heap \cap N) = 0
    BY <2>1, FS_EmptySet
  <2> QED
    BY <1>9, <1>10, <2>1, <2>2, <2>3
<1>13. /\ counted' \in [Tables -> Int] /\ counted'["knew"] = counted["old"] /\ counted'["old"] = counted["old"]
  <2>1. counted["old"] \in Int
    BY <1>0, <1>2
  <2> QED
    BY <1>0, <1>2, <1>5, <2>1
<1>14. Counts(heap', r, owned', counted', live')
  <2>1. counted["old"] >= Cardinality(O) /\ owned = Cardinality(DOMAIN heap)
    BY <1>0, <1>2 DEF Counts, O
  <2>2. CellsIn(r, "old") = O /\ CellsIn(r, "knew") = N
    BY <1>7 DEF CellsIn, O, N
  <2>3. ASSUME NEW t \in Tables PROVE counted'[t] >= Cardinality(CellsIn(r, t))
    <3>1. CASE t = "old"
      BY <1>13, <2>1, <2>2, <3>1
    <3>2. CASE t = "knew"
      BY <1>10, <1>13, <2>1, <2>2, <3>2
    <3> QED
      BY <1>0, <3>1, <3>2
  <2>4. ASSUME NEW t \in Tables \ live' PROVE CellsIn(r, t) = {}
    <3>1. t = "old" /\ t \notin live
      BY <1>0, <1>5
    <3> QED
      BY <1>2, <2>2, <3>1 DEF Counts, O
  <2>5. owned' = Cardinality(DOMAIN heap')
    BY <1>3, <1>12, <2>1
  <2> QED
    BY <2>3, <2>4, <2>5 DEF Counts
<1>15. IterOK(r, heap', iter, visits, lasting)
  <2>1. SameKeys(heap, heap', CellsIn(q, "old"))
    BY <1>8, <1>9 DEF SameKeys, O
  <2> QED
    BY <1>2, <1>7, <2>1, IterFrame
<1>16. Held(r)'
  BY <1>5, <1>7, <1>14, <1>15 DEF Held
<1>17. AssocTypeOK'
  <2>1. live' \in SUBSET Tables
    BY <1>0, <1>2, <1>5
  <2> QED
    BY <1>2, <1>3, <1>5, <1>13, <2>1 DEF AssocTypeOK
<1> QED
  BY <1>16, <1>17 DEF AssocInv

\* r_assoc_destroy
LEMMA DestroyKeeps == ASSUME AssocInv, NEW t \in Tables, Destroy(t) PROVE AssocInv'
<1>1. PICK q : Held(q)
  BY DEF AssocInv
<1>2. /\ AssocTypeOK /\ IsTable(chains, Pointers) /\ counted \in [Tables -> Int] /\ live \in SUBSET Tables
      /\ Laid(heap, chains, q) /\ Counts(heap, q, owned, counted, live) /\ IterOK(q, heap, iter, visits, lasting)
  BY <1>1 DEF AssocInv, AssocTypeOK, Held
<1> DEFINE r == Removed(q, t)
           S == CellsIn(q, t)
<1>3. /\ Laid(heap', chains', r) /\ IsTable(chains', Pointers)
      /\ DOMAIN heap' = DOMAIN heap \ S
      /\ \A x \in DOMAIN heap' : heap'[x] = heap[x]
      /\ CellsIn(r, t) = {}
      /\ \A u \in Tables : u # t => r[u] = q[u] /\ CellsIn(r, u) = CellsIn(q, u)
      /\ owned' = owned - Cardinality(S)
  BY <1>2, DestroyLaid
<1>4. /\ live' = live \ {t} /\ counted' = [counted EXCEPT ![t] = 0]
      /\ iter' = (IF t = "old" THEN NoIter ELSE iter)
      /\ lasting' = (IF t = "old" THEN {} ELSE lasting)
      /\ visits' = IF t = "old" THEN [k \in AssocKeys |-> 0] ELSE visits
  BY DEF Destroy
<1>5. /\ S \in SUBSET DOMAIN heap /\ IsFiniteSet(S) /\ Cardinality(S) \in Nat
      /\ IsFiniteSet(DOMAIN heap) /\ Cardinality(DOMAIN heap) \in Nat
  BY <1>2, LaidCells
<1> HIDE DEF r
<1>6. Cardinality(DOMAIN heap') = Cardinality(DOMAIN heap) - Cardinality(S)
  <2> HIDE DEF S
  <2>1. DOMAIN heap \cap S = S
    BY <1>5
  <2>2. Cardinality(DOMAIN heap \ S) = Cardinality(DOMAIN heap) - Cardinality(DOMAIN heap \cap S)
    BY <1>5, FS_Difference
  <2> QED
    BY <1>3, <2>1, <2>2
<1>7. counted' \in [Tables -> Int] /\ counted'[t] = 0 /\ \A u \in Tables : u # t => counted'[u] = counted[u]
  BY <1>2, <1>4
<1>8. Counts(heap', r, owned', counted', live')
  <2>0. Cardinality({}) = 0
    BY FS_EmptySet
  <2>1. ASSUME NEW u \in Tables PROVE counted'[u] >= Cardinality(CellsIn(r, u))
    <3>1. CASE u = t
      BY <1>3, <1>7, <2>0, <3>1
    <3>2. CASE u # t
      BY <1>2, <1>3, <1>7, <3>2 DEF Counts
    <3> QED
      BY <3>1, <3>2
  <2>2. ASSUME NEW u \in Tables \ live' PROVE CellsIn(r, u) = {}
    BY <1>2, <1>3, <1>4 DEF Counts
  <2>3. owned' = Cardinality(DOMAIN heap')
    BY <1>2, <1>3, <1>6 DEF Counts
  <2> QED
    BY <2>1, <2>2, <2>3 DEF Counts
<1>9. /\ IterOK(r, heap', iter', visits', lasting') /\ iter' \in Iterators
      /\ visits' \in [AssocKeys -> Nat] /\ lasting' \in SUBSET AssocKeys
  <2>1. CASE t = "old"
    <3>1. iter' = NoIter /\ lasting' = {} /\ visits' = [k \in AssocKeys |-> 0]
      BY <1>4, <2>1
    <3>2. iter' \in Iterators /\ iter'.next = NULL /\ iter'.prev = NULL
      <4>1. ChainCt \in Int /\ NULL \in Int /\ -1 \in Int
        BY AssocAssumption DEF NULL
      <4> QED
        BY <3>1, <4>1 DEF NoIter, Iterators
    <3>3. visits' \in [AssocKeys -> Nat] /\ \A k \in AssocKeys : visits'[k] = 0
      BY <3>1
    <3> QED
      BY <3>1, <3>2, <3>3, PlacesLemma DEF IterOK, IterPlaces
  <2>2. CASE t # "old"
    <3>1. UNCHANGED <<iter, visits, lasting>>
      BY <1>4, <2>2
    <3>2. "old" \in Tables /\ r["old"] = q["old"] /\ CellsIn(r, "old") = CellsIn(q, "old")
      BY <1>3, <2>2 DEF Tables
    <3>3. CellsIn(r, "old") \in SUBSET DOMAIN heap'
      BY <1>3, <3>2, LaidCells
    <3>4. SameKeys(heap, heap', CellsIn(q, "old"))
      BY <1>3, <3>2, <3>3 DEF SameKeys
    <3>5. IterOK(r, heap', iter, visits, lasting)
      BY <1>2, <3>2, <3>4, IterFrame
    <3> QED
      BY <1>2, <3>1, <3>5 DEF AssocTypeOK
  <2> QED
    BY <2>1, <2>2
<1>10. Held(r)'
  BY <1>3, <1>8, <1>9 DEF Held
<1>11. AssocTypeOK'
  BY <1>2, <1>3, <1>4, <1>7, <1>9 DEF AssocTypeOK
<1> QED
  BY <1>10, <1>11 DEF AssocInv

-----------------------------------------------------------------------------
\* The chains are laid out, the elements counted and the iterator placed as the invariant
\* says, for any number of chains and cells and any keys and hashes.
THEOREM AssocInvariant == AssocSpec => []AssocInv
<1>1. AssocInv /\ [AssocNext]_assocVars => AssocInv'
  <2> SUFFICES ASSUME AssocInv, [AssocNext]_assocVars PROVE AssocInv'
    OBVIOUS
  <2>0. "old" \in Tables
    BY DEF Tables
  <2>1. CASE Create
    BY <2>1, CreateKeeps
  <2>2. CASE Copy
    BY <2>2, CopyKeeps
  <2>3. CASE InitIter
    BY <2>3, InitIterKeeps
  <2>4. CASE Iter
    BY <2>4, IterKeeps
  <2>5. CASE IterDelete
    BY <2>5, IterDeleteKeeps
  <2>6. CASE \E t \in Tables : Destroy(t)
    BY <2>6, DestroyKeeps
  <2>7. CASE \E k \in AssocKeys : InsertNew("old", k)
    BY <2>7, InsertKeeps
  <2>8. CASE \E k \in AssocKeys : Replace("old", k)
    BY <2>0, <2>8, ReplaceKeeps
  <2>9. CASE \E t \in Tables, k \in AssocKeys : Delete(t, k)
    BY <2>9, DeleteKeeps
  <2>10. CASE UNCHANGED assocVars
    <3>1. UNCHANGED <<heap, live, chains, counted, iter, visits, lasting, owned>>
      BY <2>10 DEF assocVars
    <3>2. PICK q : Held(q)
      BY DEF AssocInv
    <3>3. Held(q)'
      BY <3>1, <3>2 DEF Held
    <3>4. AssocTypeOK'
      BY <3>1 DEF AssocInv, AssocTypeOK
    <3> QED
      BY <3>3, <3>4 DEF AssocInv
  <2> QED
    BY <2>1, <2>2, <2>3, <2>4, <2>5, <2>6, <2>7, <2>8, <2>9, <2>10 DEF AssocNext
<1> QED
  BY <1>1, AssocInitOK, PTL DEF AssocSpec

\* What the invariant says about every chain.
LEMMA SoundFromInv == AssocInv => ChainsSound
<1> SUFFICES ASSUME AssocInv PROVE ChainsSound
  OBVIOUS
<1>1. PICK q : Held(q)
  BY DEF AssocInv
<1>2. Laid(heap, chains, q) /\ Counts(heap, q, owned, counted, live)
  BY <1>1 DEF Held
<1>3. \A t \in Tables : CellsOf(t) = CellsIn(q, t) /\ \A c \in ChainNos : ChainOf(t, c) = Members(q[t][c])
  BY <1>2, WalkLemma
<1>4. ASSUME NEW t \in Tables, NEW c \in ChainNos, NEW a \in Members(q[t][c])
      PROVE  /\ HashOf[heap[a].key] = c
             /\ Bucket(t, heap[a].key) = a
             /\ heap[a].prev = NULL <=> a = chains[t][c]
             /\ heap[a].next # NULL => heap[heap[a].next].prev = a
  <2> DEFINE s == q[t][c]
  <2>0. NULL \notin Cells
    BY PlacesLemma
  <2>1. ChainIs(heap, chains[t][c], s, c)
    BY <1>2 DEF Laid
  <2>2. HashOf[heap[a].key] = c /\ heap[a].key \in AssocKeys /\ s \in Seq(Cells) /\ NoRepeats(s) /\ Linked(heap, chains[t][c], s)
    BY <2>1 DEF ChainIs, Elements
  <2>3. Bucket(t, heap[a].key) = a
    BY <1>2, <2>2, BucketLemma
  <2>4. PICK i \in 1..Len(s) : s[i] = a
    BY DEF Members
  <2> HIDE DEF s
  <2>5. /\ heap[a].prev = IF i = 1 THEN NULL ELSE s[i - 1]
        /\ heap[a].next = IF i = Len(s) THEN NULL ELSE s[i + 1]
    BY <2>2, <2>4 DEF Linked
  <2>6. Len(s) \in Nat /\ s # <<>> /\ 1 \in 1..Len(s) /\ chains[t][c] = s[1]
    <3>1. Len(s) \in Nat /\ s # <<>> /\ 1 \in 1..Len(s)
      BY <2>2, <2>4
    <3> QED
      BY <2>2, <3>1 DEF Linked
  <2>7. heap[a].prev = NULL <=> a = chains[t][c]
    <3>1. CASE i = 1
      BY <2>4, <2>5, <2>6, <3>1
    <3>2. CASE i # 1
      <4>1. i - 1 \in 1..Len(s)
        BY <2>6, <3>2
      <4>2. s[i - 1] # NULL
        BY <2>0, <2>2, <4>1
      <4>3. a # s[1]
        BY <2>2, <2>4, <2>6, <3>2 DEF NoRepeats
      <4> QED
        BY <2>5, <2>6, <3>2, <4>2, <4>3
    <3> QED
      BY <3>1, <3>2
  <2>8. heap[a].next # NULL => heap[heap[a].next].prev = a
    <3> SUFFICES ASSUME heap[a].next # NULL PROVE heap[heap[a].next].prev = a
      OBVIOUS
    <3>1. i # Len(s) /\ heap[a].next = s[i + 1]
      BY <2>5
    <3>2. i + 1 \in 1..Len(s) /\ i + 1 # 1 /\ (i + 1) - 1 = i
      BY <2>6, <3>1
    <3>3. heap[s[i + 1]].prev = IF i + 1 = 1 THEN NULL ELSE s[(i + 1) - 1]
      BY <2>2, <3>2 DEF Linked
    <3> QED
      BY <2>4, <3>1, <3>2, <3>3
  <2> QED
    BY <2>2, <2>3, <2>7, <2>8
<1>5. /\ DOMAIN heap = CellsIn(q, "old") \cup CellsIn(q, "knew")
      /\ CellsIn(q, "old") \cap CellsIn(q, "knew") = {}
  <2>1. DOMAIN heap = UNION {CellsIn(q, t) : t \in Tables}
    BY <1>2 DEF Laid
  <2>2. \A t, u \in Tables : \A a \in CellsIn(q, t) : a \in CellsIn(q, u) => t = u
    BY <1>2, LaidCells
  <2> QED
    BY <2>1, <2>2 DEF Tables
<1>6. owned = Cardinality(DOMAIN heap) /\ \A t \in live : counted[t] >= Cardinality(CellsOf(t))
  <2>1. live \in SUBSET Tables
    BY DEF AssocInv, AssocTypeOK
  <2> QED
    BY <1>2, <1>3, <2>1 DEF Counts
<1>7. \A t \in Tables, c \in 0..(ChainCt - 1) : \A a \in ChainOf(t, c) :
          /\ HashOf[heap[a].key] = c
          /\ Bucket(t, heap[a].key) = a
          /\ heap[a].prev = NULL <=> a = chains[t][c]
          /\ heap[a].next # NULL => heap[heap[a].next].prev = a
  BY <1>3, <1>4 DEF ChainNos
<1>8. CellsOf("old") = CellsIn(q, "old") /\ CellsOf("knew") = CellsIn(q, "knew")
  BY <1>3 DEF Tables
<1> QED
  BY <1>5, <1>6, <1>7, <1>8 DEF ChainsSound

\* After any mixture of operations the chains of both tables are sound: what a chain holds
\* is linked both ways, found under its key, in one table only, and owns one datum.
THEOREM AssocSound == AssocSpec => []ChainsSound
  BY AssocInvariant, SoundFromInv, PTL

\* r_assoc_iter returns no key twice, and an iteration that comes to its end has missed none
\* that was there all the time.
THEOREM AssocIterates == AssocSpec => []IterationComplete
<1>1. AssocInv => IterationComplete
  <2> SUFFICES ASSUME AssocInv PROVE IterationComplete
    OBVIOUS
  <2>1. PICK q : Held(q)
    BY DEF AssocInv
  <2> QED
    BY <2>1 DEF Held, IterOK, IterationComplete
<1> QED
  BY <1>1, AssocInvariant, PTL

-----------------------------------------------------------------------------
(* Lists. *)
Spots == 1..ListCellCt
Links == 0..ListCellCt
Data  == ListData \cup {NODATA}
Nodes == [data : Data, next : Links]

\* The elements of s are linked in this order up to the end, and hold what is in p.
RunIs(h, s, p) ==
    /\ s \in Seq(Spots) /\ NoRepeats(s)
    /\ p \in Seq(Data) /\ Len(p) = Len(s)
    /\ \A i \in 1..Len(s) :
          /\ s[i] \in DOMAIN h /\ h[s[i]] \in Nodes
          /\ h[s[i]].data = p[i]
          /\ h[s[i]].next = IF i = Len(s) THEN NIL ELSE s[i + 1]

\* What the pointers of a list say.  last is not set by an insertion into an empty list.
EndsAre(r, s) ==
    /\ r.first = IF s = <<>> THEN NIL ELSE s[1]
    /\ r.last = NIL \/ (s # <<>> /\ r.last = s[Len(s)])

\* s[l] are the elements of the list l, and no others are allocated.
ListsHold(h, L, P, s) ==
    /\ DOMAIN L \subseteq Lists /\ DOMAIN s = Lists /\ P \in [Lists -> Seq(Data)]
    /\ \A l \in Lists : RunIs(h, s[l], P[l])
    /\ \A l \in DOMAIN L : EndsAre(L[l], s[l])
    /\ \A l \in Lists \ DOMAIN L : s[l] = <<>>
    /\ DOMAIN h = Members(s["in"]) \cup Members(s["out"])
    /\ Members(s["in"]) \cap Members(s["out"]) = {}

\* The iterator is at place k of the list, or behind its end.
CursorAt(cur, s, p) ==
    \E k \in 1..(Len(s) + 1) :
        cur = [ptr |-> IF k = Len(s) + 1 THEN NIL ELSE s[k], due |-> Slice(p, k - 1, Len(p))]

Live(h) == {a \in DOMAIN h : h[a].data # NODATA}

ListState(h, L, P, cur, own, s) ==
    /\ ListsHold(h, L, P, s)
    /\ CursorAt(cur, s["in"], P["in"])
    /\ own = Cardinality(Live(h))

ListInv == misfit \/ \E s : ListState(listCell, lists, put, cursor, listOwned, s)

\* A sequence without repetitions is not longer than there are numbers for its entries.
LEMMA RoomLemma == ASSUME NEW m \in Nat, NEW s \in Seq(1..m), NoRepeats(s) PROVE Len(s) \in Nat /\ Len(s) <= m
<1>1. Len(s) \in Nat /\ DOMAIN s = 1..Len(s)
  OBVIOUS
<1>2. /\ IsFiniteSet(1..m) /\ Cardinality(1..m) = m
      /\ IsFiniteSet(1..Len(s)) /\ Cardinality(1..Len(s)) = Len(s)
  <2>1. ASSUME NEW n \in Nat PROVE IsFiniteSet(1..n) /\ Cardinality(1..n) = n
    <3>1. 1 \in Int /\ n \in Int /\ (1 > n => n = 0) /\ n - 1 + 1 = n
      OBVIOUS
    <3> QED
      BY <3>1, FS_Interval
  <2> QED
    BY <1>1, <2>1
<1> DEFINE f == [i \in 1..Len(s) |-> s[i]]
<1>3. f \in [1..Len(s) -> 1..m]
  OBVIOUS
<1> QED
  <2> SUFFICES ASSUME m < Len(s) PROVE FALSE
    BY <1>1
  <2>1. \E x, y \in 1..Len(s) : x # y /\ f[x] = f[y]
    <3> HIDE DEF f
    <3> QED
      BY <1>2, <1>3, FS_PigeonHole
  <2> QED
    BY <2>1 DEF NoRepeats

\* The bounds, and the marks that are no element and no datum.
LEMMA ListConstants == /\ ListCellCt \in Nat /\ NIL \notin Spots /\ NIL \in Links /\ Spots \subseteq Links /\ Spots \subseteq Nat
                       /\ IsFiniteSet(Spots) /\ Cardinality(Spots) = ListCellCt
                       /\ ListData \subseteq Data /\ NODATA \in Data /\ NODATA \notin ListData
<1>1. ListCellCt \in Nat \ {0} /\ NODATA \notin ListData
  BY ContainersAssumption
<1>2. IsFiniteSet(1..ListCellCt) /\ Cardinality(1..ListCellCt) = ListCellCt
  <2>1. 1 \in Int /\ ListCellCt \in Int /\ ~(1 > ListCellCt) /\ ListCellCt - 1 + 1 = ListCellCt
    BY <1>1
  <2> QED
    BY <2>1, FS_Interval
<1> QED
  BY <1>1, <1>2 DEF Spots, Links, NIL, Data

\* The walk along next from place k of a list meets the elements from there on, and then NIL.
LEMMA FromLemma ==
    ASSUME NEW s, NEW p, RunIs(listCell, s, p), NEW k \in 1..(Len(s) + 1),
           NEW a, a = IF k = Len(s) + 1 THEN NIL ELSE s[k]
    PROVE  From(a) = Slice(s, k - 1, Len(s))
<1> DEFINE walk == CHOOSE g : g = [n \in 0..ListCellCt |-> IF n = 0 THEN a ELSE IF g[n - 1] = NIL THEN NIL ELSE listCell[g[n - 1]].next]
           m == Len(s) - k + 1
           w == [n \in 0..ListCellCt |-> IF n < m THEN s[n + k] ELSE NIL]
           Step(g) == [n \in 0..ListCellCt |-> IF n = 0 THEN a ELSE IF g[n - 1] = NIL THEN NIL ELSE listCell[g[n - 1]].next]
           ends == {n \in 0..ListCellCt : walk[n] = NIL}
<1>0. /\ ListCellCt \in Nat /\ s \in Seq(Spots) /\ Len(s) \in Nat /\ Len(s) <= ListCellCt
      /\ NIL \notin Spots /\ k \in Nat /\ k >= 1 /\ k <= Len(s) + 1
      /\ \A i \in 1..Len(s) : s[i] \in Spots
  <2>1. s \in Seq(Spots) /\ NoRepeats(s)
    BY DEF RunIs
  <2>2. ListCellCt \in Nat /\ NIL \notin Spots
    BY ListConstants
  <2>3. Len(s) \in Nat /\ Len(s) <= ListCellCt
    BY <2>1, <2>2, RoomLemma DEF Spots
  <2> QED
    BY <2>1, <2>2, <2>3
<1>1. m \in 0..ListCellCt /\ m = Len(s) - k + 1
  BY <1>0
<1> HIDE DEF m
<1>2. w = Step(w)
  <2>1. ASSUME NEW n \in 0..ListCellCt PROVE w[n] = Step(w)[n]
    <3>1. CASE n = 0
      <4>1. (0 < m) <=> (k # Len(s) + 1)
        BY <1>0, <1>1
      <4> QED
        BY <1>0, <3>1, <4>1
    <3>2. CASE n # 0 /\ n - 1 < m
      <4>1. n - 1 \in 0..ListCellCt /\ n - 1 + k \in 1..Len(s) /\ w[n - 1] = s[n - 1 + k]
        BY <1>0, <1>1, <3>2
      <4>2. s[n - 1 + k] # NIL
        BY <1>0, <4>1
      <4>3. listCell[s[n - 1 + k]].next = IF n - 1 + k = Len(s) THEN NIL ELSE s[n - 1 + k + 1]
        <5>1. \A i \in 1..Len(s) : listCell[s[i]].next = IF i = Len(s) THEN NIL ELSE s[i + 1]
          BY DEF RunIs
        <5> QED
          BY <4>1, <5>1
      <4>4. ((n < m) <=> (n - 1 + k # Len(s))) /\ n - 1 + k + 1 = n + k
        BY <1>0, <1>1, <4>1
      <4> QED
        BY <1>0, <3>2, <4>1, <4>2, <4>3, <4>4
    <3>3. CASE n # 0 /\ ~(n - 1 < m)
      <4>1. n - 1 \in 0..ListCellCt /\ ~(n < m) /\ w[n - 1] = NIL
        BY <1>0, <1>1, <3>3
      <4> QED
        BY <3>3, <4>1
    <3> QED
      BY <3>1, <3>2, <3>3
  <2> QED
    BY <2>1
<1>3. \A n \in 0..ListCellCt : w[n] = IF n < m THEN s[n + k] ELSE NIL
  OBVIOUS
<1> HIDE DEF w
<1>4. walk = Step(walk)
  <2>1. (CHOOSE g : g = Step(g)) = Step(CHOOSE g : g = Step(g))
    BY <1>2, Zenon
  <2> QED
    BY <2>1
<1>5. From(a) = [n \in 1..Smallest(ends) |-> walk[n - 1]]
  BY DEF From
<1> HIDE DEF walk
<1>6. ASSUME NEW n \in 0..ListCellCt, walk[n] # w[n] PROVE FALSE
  <2> DEFINE D == {j \in 0..ListCellCt : walk[j] # w[j]}
  <2>1. D \in SUBSET Nat /\ D # {}
    BY <1>6
  <2>2. PICK d \in D : \A e \in D : d <= e
    BY <2>1, LeastLemma
  <2>3. d # 0
    <3>1. Step(walk)[0] = a /\ Step(w)[0] = a
      BY <1>0
    <3> QED
      BY <1>2, <1>4, <2>2, <3>1
  <2>4. d \in 1..ListCellCt /\ d - 1 \in 0..ListCellCt /\ d - 1 \notin D
    BY <1>0, <2>2, <2>3
  <2>5. walk[d - 1] = w[d - 1]
    BY <2>4
  <2>6. Step(walk)[d] = Step(w)[d]
    BY <2>4, <2>5
  <2> QED
    BY <1>2, <1>4, <2>2, <2>6
<1>7. \A n \in 0..ListCellCt : walk[n] = IF n < m THEN s[n + k] ELSE NIL
  BY <1>3, <1>6
<1>8. Smallest(ends) = m
  <2>1. \A n \in 0..ListCellCt : n < m => n + k \in 1..Len(s)
    BY <1>0, <1>1
  <2>2. \A n \in 0..ListCellCt : walk[n] = NIL <=> ~(n < m)
    BY <1>0, <1>7, <2>1
  <2>3. m \in ends /\ \A n \in ends : m <= n
    BY <1>1, <2>2
  <2>4. \A x \in ends : (\A y \in ends : x <= y) => x = m
    BY <1>1, <2>3
  <2> HIDE DEF ends
  <2> QED
    BY <2>3, <2>4 DEF Smallest
<1>9. [n \in 1..m |-> walk[n - 1]] = [i \in 1..(Len(s) - (k - 1)) |-> s[k - 1 + i]]
  <2>1. Len(s) - (k - 1) = m
    BY <1>0, <1>1
  <2>2. \A n \in 1..m : walk[n - 1] = s[k - 1 + n]
    <3> SUFFICES ASSUME NEW n \in 1..m PROVE walk[n - 1] = s[k - 1 + n]
      OBVIOUS
    <3>1. n - 1 \in 0..ListCellCt /\ n - 1 < m /\ n - 1 + k = k - 1 + n
      BY <1>0, <1>1
    <3> QED
      BY <1>7, <3>1
  <2> QED
    BY <2>1, <2>2
<1> QED
  BY <1>5, <1>8, <1>9 DEF Slice

\* A function on 1..n is a sequence.
LEMMA LenLemma == ASSUME NEW S, NEW n \in Nat, NEW f \in [1..n -> S] PROVE f \in Seq(S) /\ Len(f) = n
<1>1. f \in Seq(S)
  OBVIOUS
<1>2. PICK m \in Nat : m = Len(f)
  BY <1>1
<1>3. DOMAIN f = 1..n /\ DOMAIN f = 1..m
  BY <1>1, <1>2
<1>4. 1..n = 1..m
  BY <1>3
<1>5. m = n
  BY <1>4
<1> QED
  BY <1>1, <1>2, <1>5

\* Slice gives a sequence with the entries from m + 1 to n.
LEMMA SliceLemma ==
    ASSUME NEW S, NEW s \in Seq(S), NEW m \in Nat, NEW n \in Nat, m <= n, n <= Len(s)
    PROVE  /\ Slice(s, m, n) \in Seq(S) /\ Len(Slice(s, m, n)) = n - m
           /\ \A i \in 1..(n - m) : m + i \in 1..Len(s) /\ Slice(s, m, n)[i] = s[m + i]
<1>1. Len(s) \in Nat /\ n - m \in Nat
  OBVIOUS
<1>2. \A i \in 1..(n - m) : m + i \in 1..Len(s)
  BY <1>1
<1> DEFINE z == [i \in 1..(n - m) |-> s[m + i]]
<1>3. z \in [1..(n - m) -> S]
  BY <1>2
<1>4. z \in Seq(S)
  BY <1>1, <1>3
<1>5. Len(z) = n - m
  <2>1. DOMAIN z = 1..Len(z) /\ DOMAIN z = 1..(n - m) /\ Len(z) \in Nat
    BY <1>4
  <2> HIDE DEF z
  <2> QED
    BY <1>1, <2>1
<1> QED
  BY <1>2, <1>4, <1>5 DEF Slice

\* The whole of a sequence, and nothing of it.
LEMMA SliceEnds ==
    ASSUME NEW S, NEW s \in Seq(S)
    PROVE  Slice(s, 0, Len(s)) = s /\ Slice(s, Len(s), Len(s)) = <<>>
<1>1. Len(s) \in Nat /\ Len(s) - 0 = Len(s) /\ 1..(Len(s) - Len(s)) = {}
  OBVIOUS
<1>2. [i \in 1..Len(s) |-> s[0 + i]] = s
  BY <1>1
<1>3. Slice(s, 0, Len(s)) = s
  BY <1>1, <1>2 DEF Slice
<1>4. Slice(s, Len(s), Len(s)) \in Seq(S) /\ Len(Slice(s, Len(s), Len(s))) = 0
  <2>1. PICK n \in Nat : n = Len(s)
    BY <1>1
  <2>2. n <= n /\ n <= Len(s) /\ n - n = 0
    BY <2>1
  <2>3. Slice(s, n, n) \in Seq(S) /\ Len(Slice(s, n, n)) = n - n
    BY <2>2, SliceLemma
  <2> QED
    BY <2>1, <2>2, <2>3
<1> QED
  BY <1>3, <1>4

\* What is left of a slice without its first entry.
LEMMA TailSlice ==
    ASSUME NEW S, NEW x \in Seq(S), NEW m \in Nat, NEW n \in Nat, m < n, n <= Len(x)
    PROVE  Slice(x, m, n) # <<>> /\ Tail(Slice(x, m, n)) = Slice(x, m + 1, n)
<1>1. PICK j \in Nat : j = m + 1
  OBVIOUS
<1>2. m <= n /\ j <= n
  BY <1>1
<1> DEFINE y == Slice(x, m, n)
           q == Slice(x, j, n)
<1>3. y \in Seq(S) /\ Len(y) = n - m /\ \A i \in 1..(n - m) : y[i] = x[m + i]
  BY <1>2, SliceLemma
<1>4. q \in Seq(S) /\ Len(q) = n - j /\ \A i \in 1..(n - j) : q[i] = x[j + i]
  BY <1>2, SliceLemma
<1> HIDE DEF y, q
<1>5. y # <<>>
  <2>1. Len(y) # 0
    BY <1>3
  <2> QED
    BY <2>1
<1>6. /\ Tail(y) \in Seq(S) /\ Len(Tail(y)) = Len(y) - 1
      /\ \A i \in 1..(Len(y) - 1) : Tail(y)[i] = y[i + 1]
  <2>1. y \in Seq(S)
    BY <1>3
  <2> QED
    BY <1>5, <2>1, RestLemma
<1>7. Len(y) - 1 = n - j /\ n - j \in Nat
  BY <1>1, <1>2, <1>3
<1>8. Len(Tail(y)) = Len(q)
  BY <1>4, <1>6, <1>7
<1>9. ASSUME NEW i \in 1..Len(q) PROVE Tail(y)[i] = q[i]
  <2>0. i \in 1..(n - j)
    BY <1>4
  <2>1. i \in 1..(Len(y) - 1) /\ i + 1 \in 1..(n - m) /\ m + (i + 1) = j + i
    BY <1>1, <1>2, <1>7, <2>0
  <2>2. Tail(y)[i] = y[i + 1]
    BY <1>6, <2>1
  <2>3. y[i + 1] = x[m + (i + 1)]
    BY <1>3, <2>1
  <2>4. q[i] = x[j + i]
    BY <1>4, <2>0
  <2> QED
    BY <2>1, <2>2, <2>3, <2>4
<1>10. Tail(y) = q
  BY <1>4, <1>6, <1>8, <1>9
<1> QED
  BY <1>1, <1>5, <1>10 DEF y, q

\* What the elements from place k on hold.
LEMMA DataLemma ==
    ASSUME NEW s, NEW p, RunIs(listCell, s, p), NEW k \in 1..(Len(s) + 1)
    PROVE  DataOf(Slice(s, k - 1, Len(s))) = Slice(p, k - 1, Len(p))
<1>0. s \in Seq(Spots) /\ Len(s) \in Nat /\ Len(p) = Len(s) /\ \A i \in 1..Len(s) : listCell[s[i]].data = p[i]
  BY DEF RunIs
<1> DEFINE z == Slice(s, k - 1, Len(s))
<1>2. z \in Seq(Spots) /\ Len(z) = Len(s) - (k - 1)
      /\ \A i \in 1..(Len(s) - (k - 1)) : k - 1 + i \in 1..Len(s) /\ z[i] = s[k - 1 + i]
  <2>1. PICK m \in Nat, n \in Nat : m = k - 1 /\ n = Len(s)
    BY <1>0
  <2>2. m <= n /\ n <= Len(s)
    BY <1>0, <2>1
  <2>3. /\ Slice(s, m, n) \in Seq(Spots) /\ Len(Slice(s, m, n)) = n - m
        /\ \A i \in 1..(n - m) : m + i \in 1..Len(s) /\ Slice(s, m, n)[i] = s[m + i]
    <3>1. s \in Seq(Spots)
      BY <1>0
    <3> QED
      BY <3>1, <2>2, SliceLemma
  <2> QED
    BY <2>1, <2>3
<1> HIDE DEF z
<1>3. DOMAIN z = 1..(Len(p) - (k - 1))
  BY <1>0, <1>2
<1>4. \A i \in 1..(Len(p) - (k - 1)) : listCell[z[i]].data = p[k - 1 + i]
  BY <1>0, <1>2
<1>5. DataOf(z) = [i \in 1..(Len(p) - (k - 1)) |-> p[k - 1 + i]]
  BY <1>3, <1>4 DEF DataOf
<1> QED
  BY <1>5 DEF Slice, z

\* The lists are what was put in them.
LEMMA ListsFromInv == ListInv => ListFaithful
<1> SUFFICES ASSUME ListInv, ~misfit
             PROVE  /\ \A l \in DOMAIN lists : DataOf(From(lists[l].first)) = put[l]
                    /\ DataOf(From(cursor.ptr)) = cursor.due
                    /\ listOwned = Cardinality({a \in DOMAIN listCell : listCell[a].data # NODATA})
  BY DEF ListFaithful
<1>1. PICK s : ListState(listCell, lists, put, cursor, listOwned, s)
  BY DEF ListInv
<1>2. /\ ListsHold(listCell, lists, put, s) /\ CursorAt(cursor, s["in"], put["in"])
      /\ listOwned = Cardinality(Live(listCell))
  BY <1>1 DEF ListState
<1>3. /\ \A l \in Lists : RunIs(listCell, s[l], put[l])
      /\ \A l \in DOMAIN lists : l \in Lists /\ EndsAre(lists[l], s[l])
  BY <1>2 DEF ListsHold
<1>4. ASSUME NEW l \in DOMAIN lists PROVE DataOf(From(lists[l].first)) = put[l]
  <2>1. RunIs(listCell, s[l], put[l]) /\ EndsAre(lists[l], s[l])
    BY <1>3
  <2>2. s[l] \in Seq(Spots) /\ put[l] \in Seq(Data) /\ Len(s[l]) \in Nat
    BY <2>1 DEF RunIs
  <2>3. 1 \in 1..(Len(s[l]) + 1) /\ ((s[l] = <<>>) <=> (1 = Len(s[l]) + 1)) /\ 1 - 1 = 0
    BY <2>2
  <2>4. lists[l].first = IF 1 = Len(s[l]) + 1 THEN NIL ELSE s[l][1]
    BY <2>1, <2>3 DEF EndsAre
  <2>5. From(lists[l].first) = Slice(s[l], 1 - 1, Len(s[l]))
    BY <2>1, <2>3, <2>4, FromLemma
  <2>6. DataOf(Slice(s[l], 1 - 1, Len(s[l]))) = Slice(put[l], 1 - 1, Len(put[l]))
    BY <2>1, <2>3, DataLemma
  <2>7. Slice(put[l], 1 - 1, Len(put[l])) = put[l]
    BY <2>2, <2>3, SliceEnds
  <2> QED
    BY <2>5, <2>6, <2>7
<1>5. DataOf(From(cursor.ptr)) = cursor.due
  <2>1. PICK k \in 1..(Len(s["in"]) + 1) :
            cursor = [ptr |-> IF k = Len(s["in"]) + 1 THEN NIL ELSE s["in"][k],
                      due |-> Slice(put["in"], k - 1, Len(put["in"]))]
    BY <1>2 DEF CursorAt
  <2>2. RunIs(listCell, s["in"], put["in"])
    BY <1>3 DEF Lists
  <2>3. cursor.ptr = (IF k = Len(s["in"]) + 1 THEN NIL ELSE s["in"][k]) /\ cursor.due = Slice(put["in"], k - 1, Len(put["in"]))
    BY <2>1
  <2>4. From(cursor.ptr) = Slice(s["in"], k - 1, Len(s["in"]))
    BY <2>2, <2>3, FromLemma
  <2> QED
    BY <2>2, <2>3, <2>4, DataLemma
<1>6. Live(listCell) = {a \in DOMAIN listCell : listCell[a].data # NODATA}
  BY DEF Live
<1> QED
  BY <1>2, <1>4, <1>5, <1>6

\* Elements that are still there and as they were.
Unmoved(h, g, S) == \A a \in S : a \in DOMAIN g /\ g[a] = h[a]

\* A list stays what it is as long as its elements do.
LEMMA RunFrame ==
    ASSUME NEW h, NEW g, NEW s, NEW p, RunIs(h, s, p), Unmoved(h, g, Members(s))
    PROVE  RunIs(g, s, p)
<1>1. \A i \in 1..Len(s) : s[i] \in DOMAIN g /\ g[s[i]] = h[s[i]]
  BY DEF Members, Unmoved
<1> QED
  BY <1>1 DEF RunIs

\* An empty list.
LEMMA RunEmpty == ASSUME NEW h PROVE RunIs(h, <<>>, <<>>) /\ Members(<<>>) = {}
<1>1. <<>> \in Seq(Spots) /\ <<>> \in Seq(Data) /\ Len(<<>>) = 0
  OBVIOUS
<1>2. 1..0 = {}
  OBVIOUS
<1> QED
  BY <1>1, <1>2 DEF RunIs, NoRepeats, Members

\* r_list_insert: one more in front.
LEMMA RunFront ==
    ASSUME NEW h, NEW g, NEW s, NEW p, RunIs(h, s, p), NEW c \in Spots, c \notin Members(s), NEW d \in Data,
           Unmoved(h, g, Members(s)), c \in DOMAIN g,
           g[c] = [data |-> d, next |-> IF s = <<>> THEN NIL ELSE s[1]]
    PROVE  RunIs(g, <<c>> \o s, <<d>> \o p)
<1>0. /\ s \in Seq(Spots) /\ NoRepeats(s) /\ p \in Seq(Data) /\ Len(p) = Len(s) /\ Len(s) \in Nat
      /\ \A i \in 1..Len(s) : /\ h[s[i]] \in Nodes /\ h[s[i]].data = p[i]
                             /\ h[s[i]].next = IF i = Len(s) THEN NIL ELSE s[i + 1]
  BY DEF RunIs
<1> DEFINE z == <<c>> \o s
           x == <<d>> \o p
<1>1. /\ z \in Seq(Spots) /\ Len(z) = Len(s) + 1 /\ z[1] = c /\ NoRepeats(z)
      /\ \A i \in 2..(Len(s) + 1) : z[i] = s[i - 1]
  BY <1>0, FrontLemma
<1>2. /\ x \in Seq(Data) /\ Len(x) = Len(p) + 1 /\ x[1] = d
      /\ \A i \in 2..(Len(p) + 1) : x[i] = p[i - 1]
  BY <1>0, FrontLemma
<1> HIDE DEF z, x
<1>3. \A i \in 1..Len(s) : s[i] \in DOMAIN g /\ g[s[i]] = h[s[i]]
  BY DEF Members, Unmoved
<1>4. ASSUME NEW i \in 1..Len(z)
      PROVE  /\ z[i] \in DOMAIN g /\ g[z[i]] \in Nodes
             /\ g[z[i]].data = x[i]
             /\ g[z[i]].next = IF i = Len(z) THEN NIL ELSE z[i + 1]
  <2>1. CASE i = 1
    <3>1. (s = <<>>) <=> (1 = Len(z))
      BY <1>0, <1>1
    <3>2. s # <<>> => 2 \in 2..(Len(s) + 1) /\ 1 \in 1..Len(s) /\ z[2] = s[1] /\ s[1] \in Spots
      <4>1. s # <<>> => 2 \in 2..(Len(s) + 1) /\ 1 \in 1..Len(s) /\ 2 - 1 = 1
        BY <1>0
      <4> QED
        BY <1>0, <1>1, <4>1
    <3>3. (IF s = <<>> THEN NIL ELSE s[1]) = IF i = Len(z) THEN NIL ELSE z[i + 1]
      BY <2>1, <3>1, <3>2
    <3>4. (IF s = <<>> THEN NIL ELSE s[1]) \in Links
      BY <3>2, ListConstants
    <3>5. g[c] \in Nodes
      BY <3>4 DEF Nodes
    <3>6. g[c].data = d /\ g[c].next = IF s = <<>> THEN NIL ELSE s[1]
      OBVIOUS
    <3> QED
      BY <1>1, <1>2, <2>1, <3>3, <3>5, <3>6
  <2>2. CASE i # 1
    <3>1. /\ i \in 2..(Len(s) + 1) /\ i - 1 \in 1..Len(s) /\ z[i] = s[i - 1] /\ x[i] = p[i - 1]
          /\ ((i = Len(z)) <=> (i - 1 = Len(s)))
      BY <1>0, <1>1, <1>2, <2>2
    <3>2. i # Len(z) => z[i + 1] = s[(i - 1) + 1]
      <4>1. i # Len(z) => i + 1 \in 2..(Len(s) + 1) /\ i + 1 - 1 = (i - 1) + 1
        BY <1>0, <1>1, <3>1
      <4> QED
        BY <1>1, <4>1
    <3>3. h[s[i - 1]] \in Nodes /\ h[s[i - 1]].data = p[i - 1]
          /\ h[s[i - 1]].next = IF i - 1 = Len(s) THEN NIL ELSE s[(i - 1) + 1]
      BY <1>0, <3>1
    <3>4. s[i - 1] \in DOMAIN g /\ g[s[i - 1]] = h[s[i - 1]]
      BY <1>3, <3>1
    <3> QED
      BY <3>1, <3>2, <3>3, <3>4
  <2> QED
    BY <2>1, <2>2
<1>5. Len(x) = Len(z)
  BY <1>0, <1>1, <1>2
<1> QED
  BY <1>1, <1>2, <1>4, <1>5 DEF RunIs, z, x

\* r_list_append: one more behind the last.
PutBehind(h, g, s, c) ==
    \A a \in Members(s) :
        /\ a \in DOMAIN g
        /\ g[a] = IF a = s[Len(s)] THEN [h[a] EXCEPT !.next = c] ELSE h[a]

\* One more element behind the last.
LEMMA RunBack ==
    ASSUME NEW h, NEW g, NEW s, NEW p, RunIs(h, s, p), NEW c \in Spots, c \notin Members(s), NEW d \in Data,
           PutBehind(h, g, s, c), c \in DOMAIN g, g[c] = [data |-> d, next |-> NIL]
    PROVE  RunIs(g, Append(s, c), Append(p, d))
<1>0. /\ s \in Seq(Spots) /\ NoRepeats(s) /\ p \in Seq(Data) /\ Len(p) = Len(s) /\ Len(s) \in Nat
      /\ \A i \in 1..Len(s) : /\ h[s[i]] \in Nodes /\ h[s[i]].data = p[i]
                             /\ h[s[i]].next = IF i = Len(s) THEN NIL ELSE s[i + 1]
  BY DEF RunIs
<1> DEFINE z == Append(s, c)
           x == Append(p, d)
<1>1. /\ z \in Seq(Spots) /\ Len(z) = Len(s) + 1 /\ z[Len(s) + 1] = c /\ NoRepeats(z)
      /\ \A i \in 1..Len(s) : z[i] = s[i]
  BY <1>0, AppendLemma
<1>2. /\ x \in Seq(Data) /\ Len(x) = Len(p) + 1 /\ x[Len(p) + 1] = d
      /\ \A i \in 1..Len(p) : x[i] = p[i]
  BY <1>0, AppendLemma
<1> HIDE DEF z, x
<1>3. \A i \in 1..Len(s) : s[i] \in DOMAIN g /\ g[s[i]] = IF s[i] = s[Len(s)] THEN [h[s[i]] EXCEPT !.next = c] ELSE h[s[i]]
  BY DEF Members, PutBehind
<1>4. ASSUME NEW i \in 1..Len(z)
      PROVE  /\ z[i] \in DOMAIN g /\ g[z[i]] \in Nodes
             /\ g[z[i]].data = x[i]
             /\ g[z[i]].next = IF i = Len(z) THEN NIL ELSE z[i + 1]
  <2>1. CASE i = Len(z)
    <3>1. z[i] = c /\ x[i] = d
      BY <1>0, <1>1, <1>2, <2>1
    <3>2. g[c] \in Nodes /\ g[c].data = d /\ g[c].next = NIL
      BY ListConstants DEF Nodes
    <3> QED
      BY <2>1, <3>1, <3>2
  <2>2. CASE i # Len(z)
    <3>1. i \in 1..Len(s) /\ z[i] = s[i] /\ x[i] = p[i]
      BY <1>0, <1>1, <1>2, <2>2
    <3>2. h[s[i]] \in Nodes /\ h[s[i]].data = p[i] /\ h[s[i]].next = (IF i = Len(s) THEN NIL ELSE s[i + 1])
      BY <1>0, <3>1
    <3>3. s[i] \in DOMAIN g /\ g[s[i]] = IF s[i] = s[Len(s)] THEN [h[s[i]] EXCEPT !.next = c] ELSE h[s[i]]
      BY <1>3, <3>1
    <3>4. CASE i = Len(s)
      <4>1. g[s[i]] = [h[s[i]] EXCEPT !.next = c]
        BY <3>3, <3>4
      <4>2. c \in Links
        BY ListConstants
      <4>3. g[s[i]] \in Nodes /\ g[s[i]].data = h[s[i]].data /\ g[s[i]].next = c
        BY <3>2, <4>1, <4>2 DEF Nodes
      <4>4. z[i + 1] = c
        BY <1>1, <3>4
      <4> QED
        BY <2>2, <3>1, <3>2, <3>3, <4>3, <4>4
    <3>5. CASE i # Len(s)
      <4>1. i + 1 \in 1..Len(s) /\ Len(s) \in 1..Len(s)
        BY <1>0, <3>1, <3>5
      <4>2. s[i] # s[Len(s)]
        BY <1>0, <3>1, <3>5, <4>1 DEF NoRepeats
      <4>3. z[i + 1] = s[i + 1]
        BY <1>1, <4>1
      <4> QED
        BY <2>2, <3>1, <3>2, <3>3, <3>5, <4>2, <4>3
    <3> QED
      BY <3>4, <3>5
  <2> QED
    BY <2>1, <2>2
<1>5. Len(x) = Len(z)
  BY <1>0, <1>1, <1>2
<1> QED
  BY <1>1, <1>2, <1>4, <1>5 DEF RunIs, z, x

\* The list l was changed and has the elements z now, and the other is as it was.
Changed(h, L, g, M, s, l, z) ==
    /\ DOMAIN M \ {l} = DOMAIN L \ {l} /\ \A k \in DOMAIN M \ {l} : M[k] = L[k]
    /\ IF l \in DOMAIN M THEN EndsAre(M[l], z) ELSE z = <<>>
    /\ DOMAIN g = (DOMAIN h \ Members(s[l])) \cup Members(z)
    /\ Members(z) \cap (DOMAIN h \ Members(s[l])) = {}
    /\ \A a \in DOMAIN h \ Members(s[l]) : g[a] = h[a]

\* A step on one list keeps what the other holds.
LEMMA HoldStep ==
    ASSUME NEW h, NEW L, NEW P, NEW s, ListsHold(h, L, P, s), NEW l \in Lists,
           NEW g, NEW M, NEW z, NEW x, RunIs(g, z, x), Changed(h, L, g, M, s, l, z)
    PROVE  ListsHold(g, M, [P EXCEPT ![l] = x], [s EXCEPT ![l] = z])
<1> DEFINE Q == [P EXCEPT ![l] = x]
           r == [s EXCEPT ![l] = z]
<1>0. /\ DOMAIN L \subseteq Lists /\ DOMAIN s = Lists /\ P \in [Lists -> Seq(Data)]
      /\ \A k \in Lists : RunIs(h, s[k], P[k])
      /\ \A k \in DOMAIN L : EndsAre(L[k], s[k])
      /\ \A k \in Lists \ DOMAIN L : s[k] = <<>>
      /\ DOMAIN h = Members(s["in"]) \cup Members(s["out"])
      /\ Members(s["in"]) \cap Members(s["out"]) = {}
  BY DEF ListsHold
<1>1. x \in Seq(Data)
  BY DEF RunIs
<1>2. /\ Q \in [Lists -> Seq(Data)] /\ Q[l] = x /\ \A k \in Lists \ {l} : Q[k] = P[k]
      /\ DOMAIN r = Lists /\ r[l] = z /\ \A k \in Lists \ {l} : r[k] = s[k]
  BY <1>0, <1>1
<1> HIDE DEF Q, r
<1>3. PICK o \in Lists : o # l /\ Lists = {l, o} /\ {l, o} = {"in", "out"}
  <2>1. "in" # "out"
    OBVIOUS
  <2> QED
    BY <2>1 DEF Lists
<1>4. DOMAIN h = Members(s[l]) \cup Members(s[o]) /\ Members(s[l]) \cap Members(s[o]) = {}
  BY <1>0, <1>3
<1>5. DOMAIN h \ Members(s[l]) = Members(s[o])
  BY <1>4
<1>6. /\ DOMAIN M \ {l} = DOMAIN L \ {l} /\ \A k \in DOMAIN M \ {l} : M[k] = L[k]
      /\ l \in DOMAIN M => EndsAre(M[l], z)
      /\ l \notin DOMAIN M => z = <<>>
      /\ DOMAIN g = Members(s[o]) \cup Members(z)
      /\ Members(z) \cap Members(s[o]) = {}
      /\ \A a \in Members(s[o]) : g[a] = h[a]
  BY <1>5 DEF Changed
<1>7. RunIs(g, r[o], Q[o])
  <2>1. Unmoved(h, g, Members(s[o]))
    BY <1>6 DEF Unmoved
  <2>2. RunIs(g, s[o], P[o])
    BY <1>0, <2>1, RunFrame
  <2> QED
    BY <1>2, <1>3, <2>2
<1>8. \A k \in Lists : RunIs(g, r[k], Q[k])
  BY <1>2, <1>3, <1>7
<1>9. \A k \in DOMAIN M : EndsAre(M[k], r[k])
  <2> SUFFICES ASSUME NEW k \in DOMAIN M PROVE EndsAre(M[k], r[k])
    OBVIOUS
  <2>1. CASE k = l
    BY <1>2, <1>6, <2>1
  <2>2. CASE k # l
    BY <1>0, <1>2, <1>6, <2>2
  <2> QED
    BY <2>1, <2>2
<1>10. \A k \in Lists \ DOMAIN M : r[k] = <<>>
  <2> SUFFICES ASSUME NEW k \in Lists \ DOMAIN M PROVE r[k] = <<>>
    OBVIOUS
  <2>1. CASE k = l
    BY <1>2, <1>6, <2>1
  <2>2. CASE k # l
    BY <1>0, <1>2, <1>6, <2>2
  <2> QED
    BY <2>1, <2>2
<1>11. DOMAIN M \subseteq Lists
  BY <1>0, <1>6
<1>12. DOMAIN g = Members(r["in"]) \cup Members(r["out"]) /\ Members(r["in"]) \cap Members(r["out"]) = {}
  <2>1. DOMAIN g = Members(r[l]) \cup Members(r[o]) /\ Members(r[l]) \cap Members(r[o]) = {}
    BY <1>2, <1>3, <1>6
  <2>2. (l = "in" /\ o = "out") \/ (l = "out" /\ o = "in")
    BY <1>3
  <2> QED
    BY <2>1, <2>2
<1> QED
  BY <1>2, <1>8, <1>9, <1>10, <1>11, <1>12 DEF ListsHold, Q, r

\* An insertion in front moves the iterator's place and not the iterator.
LEMMA CursorFront ==
    ASSUME NEW cur, NEW s \in Seq(Spots), NEW p \in Seq(Data), Len(p) = Len(s), CursorAt(cur, s, p),
           NEW c \in Spots, NEW d \in Data
    PROVE  CursorAt(cur, <<c>> \o s, <<d>> \o p)
<1> DEFINE z == <<c>> \o s
           x == <<d>> \o p
<1>0. Len(s) \in Nat
  OBVIOUS
<1>1. Len(z) = Len(s) + 1 /\ \A i \in 2..(Len(s) + 1) : z[i] = s[i - 1]
  BY FrontLemma
<1>2. Len(x) = Len(s) + 1 /\ \A i \in 2..(Len(s) + 1) : x[i] = p[i - 1]
  BY FrontLemma
<1> HIDE DEF z, x
<1>3. PICK k \in 1..(Len(s) + 1) :
          cur = [ptr |-> IF k = Len(s) + 1 THEN NIL ELSE s[k], due |-> Slice(p, k - 1, Len(p))]
  BY DEF CursorAt
<1>4. k + 1 \in 1..(Len(z) + 1) /\ (k + 1 = Len(z) + 1 <=> k = Len(s) + 1)
  BY <1>0, <1>1
<1>5. k # Len(s) + 1 => z[k + 1] = s[k]
  <2>1. k # Len(s) + 1 => k + 1 \in 2..(Len(s) + 1) /\ k + 1 - 1 = k
    BY <1>0
  <2> QED
    BY <1>1, <2>1
<1>6. Slice(x, (k + 1) - 1, Len(x)) = Slice(p, k - 1, Len(p))
  <2>1. Len(x) - ((k + 1) - 1) = Len(p) - (k - 1)
    BY <1>0, <1>2
  <2>2. ASSUME NEW i \in 1..(Len(p) - (k - 1)) PROVE x[(k + 1) - 1 + i] = p[k - 1 + i]
    <3>1. k + i \in 2..(Len(s) + 1) /\ (k + 1) - 1 + i = k + i /\ k + i - 1 = k - 1 + i
      BY <1>0
    <3> QED
      BY <1>2, <3>1
  <2> QED
    BY <2>1, <2>2 DEF Slice
<1>7. cur = [ptr |-> IF k + 1 = Len(z) + 1 THEN NIL ELSE z[k + 1], due |-> Slice(x, (k + 1) - 1, Len(x))]
  BY <1>3, <1>4, <1>5, <1>6
<1> QED
  BY <1>4, <1>7 DEF CursorAt, z, x

\* What is appended is still to be returned, unless the iterator is behind the end.
LEMMA CursorBack ==
    ASSUME NEW cur, NEW s \in Seq(Spots), NEW p \in Seq(Data), Len(p) = Len(s), CursorAt(cur, s, p),
           NEW c \in Spots, NEW d \in Data
    PROVE  CursorAt(IF cur.ptr # NIL THEN [ptr |-> cur.ptr, due |-> Append(cur.due, d)] ELSE cur, Append(s, c), Append(p, d))
<1> DEFINE z == Append(s, c)
           x == Append(p, d)
<1>0. Len(s) \in Nat /\ \A i \in 1..Len(s) : s[i] \in Spots
  OBVIOUS
<1>1. Len(z) = Len(s) + 1 /\ z[Len(s) + 1] = c /\ \A i \in 1..Len(s) : z[i] = s[i]
  BY AppendLemma
<1>2. x \in Seq(Data) /\ Len(x) = Len(p) + 1 /\ x[Len(p) + 1] = d /\ \A i \in 1..Len(p) : x[i] = p[i]
  BY AppendLemma
<1> HIDE DEF z, x
<1>3. PICK k \in 1..(Len(s) + 1) :
          cur = [ptr |-> IF k = Len(s) + 1 THEN NIL ELSE s[k], due |-> Slice(p, k - 1, Len(p))]
  BY DEF CursorAt
<1>4. CASE k = Len(s) + 1
  <2>1. cur.ptr = NIL
    BY <1>3, <1>4
  <2>2. PICK m \in 1..(Len(z) + 1) : m = Len(z) + 1
    BY <1>0, <1>1
  <2>3. Slice(x, m - 1, Len(x)) = Slice(p, k - 1, Len(p))
    <3>1. m - 1 = Len(x) /\ k - 1 = Len(p)
      BY <1>0, <1>1, <1>2, <1>4, <2>2
    <3>2. Slice(x, Len(x), Len(x)) = <<>> /\ Slice(p, Len(p), Len(p)) = <<>>
      BY <1>2, SliceEnds
    <3> QED
      BY <3>1, <3>2
  <2>4. cur = [ptr |-> IF m = Len(z) + 1 THEN NIL ELSE z[m], due |-> Slice(x, m - 1, Len(x))]
    BY <1>3, <1>4, <2>2, <2>3
  <2> QED
    BY <2>1, <2>2, <2>4 DEF CursorAt, z, x
<1>5. CASE k # Len(s) + 1
  <2>1. k \in 1..Len(s) /\ k \in 1..(Len(z) + 1) /\ k # Len(z) + 1
    BY <1>0, <1>1, <1>5
  <2>2. cur.ptr = s[k] /\ s[k] # NIL /\ z[k] = s[k]
    BY <1>0, <1>1, <1>3, <1>5, <2>1, ListConstants
  <2>3. Append(Slice(p, k - 1, Len(p)), d) = Slice(x, k - 1, Len(x))
    <3>0. k - 1 \in Nat /\ Len(p) \in Nat /\ k - 1 <= Len(p) /\ Len(p) <= Len(p)
      BY <1>0, <2>1
    <3>1. PICK m \in Nat, n \in Nat : m = k - 1 /\ n = Len(p) /\ m <= n /\ n <= Len(p)
      BY <3>0
    <3> DEFINE y == Slice(p, m, n)
               q == Slice(x, m, n + 1)
    <3>2. y \in Seq(Data) /\ Len(y) = n - m /\ \A i \in 1..(n - m) : m + i \in 1..Len(p) /\ y[i] = p[m + i]
      <4>1. p \in Seq(Data) /\ m <= n /\ n <= Len(p)
        BY <3>1
      <4> QED
        BY <4>1, SliceLemma
    <3>3. q \in Seq(Data) /\ Len(q) = n + 1 - m /\ \A i \in 1..(n + 1 - m) : m + i \in 1..Len(x) /\ q[i] = x[m + i]
      <4>1. n + 1 \in Nat /\ m <= n + 1 /\ n + 1 <= Len(x)
        BY <1>2, <3>1
      <4>2. PICK j \in Nat : j = n + 1
        BY <4>1
      <4>3. /\ Slice(x, m, j) \in Seq(Data) /\ Len(Slice(x, m, j)) = j - m
            /\ \A i \in 1..(j - m) : m + i \in 1..Len(x) /\ Slice(x, m, j)[i] = x[m + i]
        <5>1. x \in Seq(Data) /\ m <= j /\ j <= Len(x)
          BY <1>2, <4>1, <4>2
        <5> QED
          BY <5>1, SliceLemma
      <4> QED
        BY <4>2, <4>3
    <3> HIDE DEF y, q
    <3>4. Len(Append(y, d)) = Len(q) /\ Append(y, d) \in Seq(Data)
      BY <3>1, <3>2, <3>3
    <3>5. ASSUME NEW i \in 1..Len(q) PROVE Append(y, d)[i] = q[i]
      <4>1. CASE i <= n - m
        <5>1. i \in 1..(n - m) /\ i \in 1..(n + 1 - m) /\ Append(y, d)[i] = y[i]
          BY <3>1, <3>2, <3>3, <4>1
        <5>2. q[i] = x[m + i] /\ y[i] = p[m + i] /\ m + i \in 1..Len(p)
          BY <3>2, <3>3, <5>1
        <5> QED
          BY <1>2, <5>1, <5>2
      <4>2. CASE ~(i <= n - m)
        <5>1. i = Len(y) + 1 /\ i \in 1..(n + 1 - m) /\ m + i = Len(p) + 1
          <6>1. i \in 1..(n + 1 - m) /\ n = Len(p) /\ Len(y) = n - m
            BY <3>1, <3>2, <3>3
          <6> QED
            BY <4>2, <6>1
        <5>2. Append(y, d)[i] = d
          <6>1. y \in Seq(Data) /\ d \in Data
            BY <3>2
          <6>2. Append(y, d)[Len(y) + 1] = d
            BY <6>1
          <6> QED
            BY <5>1, <6>2
        <5> QED
          BY <1>2, <3>3, <5>1, <5>2
      <4> QED
        BY <4>1, <4>2
    <3>6. Append(y, d) = q
      BY <3>3, <3>4, <3>5
    <3>7. n + 1 = Len(x)
      BY <1>2, <3>1
    <3> QED
      BY <3>1, <3>6, <3>7 DEF y, q
  <2>4. [ptr |-> cur.ptr, due |-> Append(cur.due, d)] = [ptr |-> z[k], due |-> Slice(x, k - 1, Len(x))]
    <3>1. PICK u, v : u = s[k] /\ v = Slice(p, k - 1, Len(p))
      OBVIOUS
    <3>2. cur = [ptr |-> u, due |-> v]
      BY <1>3, <1>5, <3>1
    <3>3. cur.ptr = u /\ cur.due = v
      BY <3>2
    <3>4. u = z[k]
      BY <2>2, <3>1
    <3>5. Append(v, d) = Slice(x, k - 1, Len(x))
      BY <2>3, <3>1
    <3> QED
      BY <3>3, <3>4, <3>5, Zenon
  <2> QED
    BY <2>1, <2>2, <2>4 DEF CursorAt, z, x
<1> QED
  BY <1>4, <1>5

\* The elements of the lists are elements.
LEMMA HoldLemma ==
    ASSUME NEW h, NEW L, NEW P, NEW s, ListsHold(h, L, P, s)
    PROVE  /\ DOMAIN h \subseteq Spots /\ IsFiniteSet(DOMAIN h) /\ Cardinality(DOMAIN h) \in Nat
           /\ \A l \in Lists : /\ RunIs(h, s[l], P[l]) /\ Members(s[l]) \subseteq DOMAIN h
                               /\ s[l] \in Seq(Spots) /\ P[l] \in Seq(Data) /\ Len(P[l]) = Len(s[l]) /\ Len(s[l]) \in Nat
<1>1. \A l \in Lists : RunIs(h, s[l], P[l])
  BY DEF ListsHold
<1>2. \A l \in Lists : s[l] \in Seq(Spots) /\ P[l] \in Seq(Data) /\ Len(P[l]) = Len(s[l]) /\ Len(s[l]) \in Nat
  BY <1>1 DEF RunIs
<1>3. \A l \in Lists : Members(s[l]) \subseteq Spots
  BY <1>2, MembersLemma
<1>4. "in" \in Lists /\ "out" \in Lists /\ \A l \in Lists : l = "in" \/ l = "out"
  BY DEF Lists
<1>5. DOMAIN h = Members(s["in"]) \cup Members(s["out"])
  BY DEF ListsHold
<1>6. DOMAIN h \subseteq Spots /\ \A l \in Lists : Members(s[l]) \subseteq DOMAIN h
  BY <1>3, <1>4, <1>5
<1>7. IsFiniteSet(DOMAIN h)
  BY <1>6, ListConstants, FS_Subset
<1>8. Cardinality(DOMAIN h) \in Nat
  BY <1>7, FS_CardinalityType
<1> QED
  BY <1>1, <1>2, <1>6, <1>7, <1>8

\* Where malloc still has elements.
LEMMA SpareLemma ==
    ASSUME NEW D, D \subseteq Spots, NEW n \in Nat, Cardinality(D) + n <= ListCellCt
    PROVE  IsFiniteSet(Spots \ D) /\ Cardinality(Spots \ D) \in Nat /\ n <= Cardinality(Spots \ D)
<1>1. IsFiniteSet(Spots) /\ Cardinality(Spots) = ListCellCt /\ ListCellCt \in Nat
  BY ListConstants
<1>2. Spots \cap D = D
  OBVIOUS
<1>3. IsFiniteSet(D) /\ Cardinality(D) \in Nat
  BY <1>1, FS_Subset, FS_CardinalityType
<1>4. IsFiniteSet(Spots \ D) /\ Cardinality(Spots \ D) = Cardinality(Spots) - Cardinality(D)
  <2>1. IsFiniteSet(Spots \ D) /\ Cardinality(Spots \ D) = Cardinality(Spots) - Cardinality(Spots \cap D)
    BY <1>1, FS_Difference
  <2> QED
    BY <1>2, <2>1
<1>5. PICK a \in Nat, b \in Nat : a = Cardinality(D) /\ b = ListCellCt
  BY <1>1, <1>3
<1>6. Cardinality(Spots \ D) = b - a /\ a + n <= b
  BY <1>1, <1>4, <1>5
<1> QED
  BY <1>4, <1>5, <1>6

\* malloc has another element.
LEMMA NewCellLemma ==
    ASSUME DOMAIN listCell \subseteq Spots, HasCell(1)
    PROVE  NewCell \in Spots /\ NewCell \notin DOMAIN listCell
<1> DEFINE S == Spots \ DOMAIN listCell
<1>1. IsFiniteSet(S) /\ Cardinality(S) \in Nat /\ 1 <= Cardinality(S)
  BY SpareLemma DEF HasCell
<1>2. S # {}
  <2>1. Cardinality(S) # 0
    BY <1>1
  <2> HIDE DEF S
  <2> QED
    BY <2>1, FS_EmptySet
<1>3. S \in SUBSET Nat
  BY ListConstants
<1>4. NewCell = Smallest(S)
  BY DEF NewCell, Spots
<1> HIDE DEF S
<1>5. \E d \in S : \A e \in S : d <= e
  BY <1>2, <1>3, LeastLemma
<1>6. NewCell \in S
  BY <1>4, <1>5 DEF Smallest
<1> QED
  BY <1>6 DEF S

\* malloc has n more elements.
LEMMA NewCellsLemma ==
    ASSUME DOMAIN listCell \subseteq Spots, NEW n \in Nat, HasCell(n)
    PROVE  NewCells(n) \in [1..n -> Spots \ DOMAIN listCell] /\ OneToOne(NewCells(n), 1..n)
<1> DEFINE S == Spots \ DOMAIN listCell
<1>1. IsFiniteSet(S) /\ n <= Cardinality(S)
  BY SpareLemma DEF HasCell
<1>2. IsFiniteSet(1..n) /\ Cardinality(1..n) = n
  <2>1. 1 \in Int /\ n \in Int /\ (1 > n => n = 0) /\ n - 1 + 1 = n
    OBVIOUS
  <2> QED
    BY <2>1, FS_Interval
<1>3. NewCells(n) = CHOOSE f \in [1..n -> S] : \A i, j \in 1..n : f[i] = f[j] => i = j
  BY DEF NewCells, Spots
<1> HIDE DEF S
<1>4. \E f \in [1..n -> S] : OneToOne(f, 1..n)
  BY <1>1, <1>2, InjectionLemma
<1>5. \E f \in [1..n -> S] : \A i, j \in 1..n : f[i] = f[j] => i = j
  BY <1>4 DEF OneToOne
<1>6. NewCells(n) \in [1..n -> S] /\ \A i, j \in 1..n : NewCells(n)[i] = NewCells(n)[j] => i = j
  BY <1>3, <1>5
<1> QED
  BY <1>6 DEF OneToOne, S

\* One more datum.
LEMMA LiveAdd ==
    ASSUME NEW h, NEW g, NEW c, IsFiniteSet(DOMAIN h), c \notin DOMAIN h, DOMAIN g = DOMAIN h \cup {c},
           g[c].data # NODATA, \A a \in DOMAIN h : g[a].data = h[a].data
    PROVE  Cardinality(Live(g)) = Cardinality(Live(h)) + 1
<1>1. IsFiniteSet(Live(h))
  <2>1. Live(h) \in SUBSET DOMAIN h
    BY DEF Live
  <2> QED
    BY <2>1, FS_Subset
<1>2. \A a : a \in Live(g) <=> a \in Live(h) \cup {c}
  BY DEF Live
<1>3. Live(g) = Live(h) \cup {c} /\ c \notin Live(h)
  BY <1>2 DEF Live
<1> QED
  BY <1>1, <1>3, FS_AddElement

\* The state of the lists, in this and in the next state.
ListsOK == \E s : ListState(listCell, lists, put, cursor, listOwned, s)

\* An iterator without a list.
LEMMA CursorEmpty == CursorAt([ptr |-> NIL, due |-> <<>>], <<>>, <<>>)
<1>1. <<>> \in Seq(Data) /\ Len(<<>>) = 0
  OBVIOUS
<1>2. Slice(<<>>, Len(<<>>), Len(<<>>)) = <<>>
  BY <1>1, SliceEnds
<1>3. 1 \in 1..(0 + 1) /\ 1 = 0 + 1 /\ 1 - 1 = 0
  OBVIOUS
<1>4. Slice(<<>>, 1 - 1, Len(<<>>)) = <<>>
  BY <1>1, <1>2, <1>3
<1> QED
  BY <1>1, <1>3, <1>4 DEF CursorAt

\* There are no lists to begin with.
LEMMA ListInitOK == ListInit => ListInv
<1> SUFFICES ASSUME ListInit PROVE ListsOK
  BY DEF ListInv, ListsOK
<1> DEFINE s == [l \in Lists |-> <<>>]
<1>0. /\ listCell = <<>> /\ lists = <<>> /\ listOwned = 0
      /\ put = [l \in Lists |-> <<>>] /\ cursor = [ptr |-> NIL, due |-> <<>>]
  BY DEF ListInit
<1>1. DOMAIN s = Lists /\ \A l \in Lists : s[l] = <<>> /\ put[l] = <<>>
  BY <1>0
<1>2. "in" \in Lists /\ "out" \in Lists
  BY DEF Lists
<1>3. DOMAIN listCell = {} /\ DOMAIN lists = {}
  BY <1>0
<1>4. \A l \in Lists : RunIs(listCell, s[l], put[l]) /\ Members(s[l]) = {}
  BY <1>1, RunEmpty
<1>5. put \in [Lists -> Seq(Data)]
  <2>1. <<>> \in Seq(Data)
    OBVIOUS
  <2> QED
    BY <1>0, <2>1
<1> HIDE DEF s
<1>6. ListsHold(listCell, lists, put, s)
  BY <1>1, <1>2, <1>3, <1>4, <1>5 DEF ListsHold
<1>7. CursorAt(cursor, s["in"], put["in"])
  <2>1. s["in"] = <<>> /\ put["in"] = <<>>
    BY <1>1, <1>2
  <2> QED
    BY <1>0, <2>1, CursorEmpty
<1>8. listOwned = Cardinality(Live(listCell))
  <2>1. Live(listCell) = {}
    BY <1>3 DEF Live
  <2> QED
    BY <1>0, <2>1, FS_EmptySet
<1> QED
  BY <1>6, <1>7, <1>8 DEF ListState, ListsOK

\* r_list_insert.
LEMMA InsertOK == ASSUME ListsOK, NEW l \in Lists, NEW d \in ListData, ListInsert(l, d) PROVE ListsOK'
<1>1. PICK s : ListState(listCell, lists, put, cursor, listOwned, s)
  BY DEF ListsOK
<1>2. PICK c : c = NewCell
  OBVIOUS
<1>3. /\ l \in DOMAIN lists /\ HasCell(1)
      /\ listCell' = [a \in DOMAIN listCell \cup {c} |->
                        IF a = c THEN [data |-> d, next |-> lists[l].first] ELSE listCell[a]]
      /\ lists' = [lists EXCEPT ![l] = [first |-> c, last |-> lists[l].last]]
      /\ put' = [put EXCEPT ![l] = <<d>> \o @]
      /\ listOwned' = listOwned + 1 /\ cursor' = cursor
  BY <1>2 DEF ListInsert
<1>4. /\ ListsHold(listCell, lists, put, s) /\ CursorAt(cursor, s["in"], put["in"])
      /\ listOwned = Cardinality(Live(listCell))
  BY <1>1 DEF ListState
<1>5. /\ DOMAIN listCell \subseteq Spots /\ IsFiniteSet(DOMAIN listCell)
      /\ \A k \in Lists : /\ RunIs(listCell, s[k], put[k]) /\ Members(s[k]) \subseteq DOMAIN listCell
                          /\ s[k] \in Seq(Spots) /\ put[k] \in Seq(Data) /\ Len(put[k]) = Len(s[k]) /\ Len(s[k]) \in Nat
  BY <1>4, HoldLemma
<1>6. c \in Spots /\ c \notin DOMAIN listCell /\ d \in Data /\ d # NODATA
  BY <1>2, <1>3, <1>5, NewCellLemma, ListConstants
<1> DEFINE z == <<c>> \o s[l]
           x == <<d>> \o put[l]
           r == [s EXCEPT ![l] = z]
<1>7. /\ z \in Seq(Spots) /\ Len(z) = Len(s[l]) + 1 /\ z[1] = c /\ Members(z) = Members(s[l]) \cup {c}
      /\ \A i \in 1..Len(s[l]) : z[i + 1] = s[l][i]
  BY <1>5, <1>6, FrontLemma
<1>8. EndsAre(lists[l], s[l])
  BY <1>3, <1>4 DEF ListsHold
<1>9. RunIs(listCell', z, x)
  <2>1. Unmoved(listCell, listCell', Members(s[l])) /\ c \notin Members(s[l])
    BY <1>3, <1>5, <1>6 DEF Unmoved
  <2>2. c \in DOMAIN listCell' /\ listCell'[c] = [data |-> d, next |-> lists[l].first]
    BY <1>3
  <2>3. lists[l].first = IF s[l] = <<>> THEN NIL ELSE s[l][1]
    BY <1>8 DEF EndsAre
  <2> QED
    BY <1>5, <1>6, <2>1, <2>2, <2>3, RunFront
<1>10. Changed(listCell, lists, listCell', lists', s, l, z)
  <2>1. DOMAIN lists' = DOMAIN lists /\ (\A k \in DOMAIN lists' \ {l} : lists'[k] = lists[k])
        /\ lists'[l] = [first |-> c, last |-> lists[l].last]
    BY <1>3
  <2>2. EndsAre(lists'[l], z)
    <3>1. lists'[l].first = c /\ lists'[l].last = lists[l].last
      BY <2>1
    <3>2. z # <<>>
      BY <1>5, <1>7
    <3>3. s[l] # <<>> => z[Len(z)] = s[l][Len(s[l])]
      <4>1. s[l] # <<>> => Len(s[l]) \in 1..Len(s[l])
        BY <1>5
      <4> QED
        BY <1>7, <4>1
    <3> QED
      BY <1>7, <1>8, <3>1, <3>2, <3>3 DEF EndsAre
  <2>3. DOMAIN listCell' = DOMAIN listCell \cup {c} /\ \A a \in DOMAIN listCell : listCell'[a] = listCell[a]
    BY <1>3, <1>6
  <2>4. DOMAIN listCell' = (DOMAIN listCell \ Members(s[l])) \cup Members(z)
    BY <1>5, <1>7, <2>3
  <2>5. Members(z) \cap (DOMAIN listCell \ Members(s[l])) = {}
    BY <1>6, <1>7
  <2> HIDE DEF z
  <2> QED
    BY <1>3, <2>1, <2>2, <2>3, <2>4, <2>5 DEF Changed
<1>11. put' = [put EXCEPT ![l] = x]
  BY <1>3
<1>12. ListsHold(listCell', lists', put', r)
  <2> HIDE DEF z, x
  <2> QED
    BY <1>4, <1>9, <1>10, <1>11, HoldStep
<1>13. CursorAt(cursor', r["in"], put'["in"])
  <2>0. "in" \in Lists /\ DOMAIN s = Lists /\ DOMAIN put = Lists
    BY <1>4 DEF Lists, ListsHold
  <2>1. CASE l = "in"
    <3>1. r["in"] = <<c>> \o s["in"] /\ put'["in"] = <<d>> \o put["in"]
      BY <1>3, <2>0, <2>1
    <3>2. CursorAt(cursor, <<c>> \o s["in"], <<d>> \o put["in"])
      BY <1>4, <1>5, <1>6, <2>0, CursorFront
    <3> QED
      BY <1>3, <3>1, <3>2
  <2>2. CASE l # "in"
    BY <1>3, <1>4, <2>0, <2>2
  <2> QED
    BY <2>1, <2>2
<1>14. listOwned' = Cardinality(Live(listCell'))
  <2>1. DOMAIN listCell' = DOMAIN listCell \cup {c} /\ listCell'[c].data = d
        /\ \A a \in DOMAIN listCell : listCell'[a].data = listCell[a].data
    BY <1>3, <1>6
  <2>2. Cardinality(Live(listCell')) = Cardinality(Live(listCell)) + 1
    BY <1>5, <1>6, <2>1, LiveAdd
  <2> QED
    BY <1>3, <1>4, <2>2
<1> HIDE DEF r
<1>15. ListState(listCell', lists', put', cursor', listOwned', r)
  BY <1>12, <1>13, <1>14 DEF ListState
<1> QED
  BY <1>15 DEF ListsOK

\* Every element is one.
LEMMA NodesLemma ==
    ASSUME NEW h, NEW L, NEW P, NEW s, ListsHold(h, L, P, s), NEW a \in DOMAIN h
    PROVE  h[a] \in Nodes
<1>1. a \in Members(s["in"]) \cup Members(s["out"]) /\ \A l \in Lists : RunIs(h, s[l], P[l])
  BY DEF ListsHold
<1>2. PICK l \in Lists : a \in Members(s[l])
  BY <1>1 DEF Lists
<1>3. PICK i \in 1..Len(s[l]) : s[l][i] = a
  BY <1>2 DEF Members
<1> QED
  BY <1>1, <1>3 DEF RunIs

\* r_list_append, to a list that is empty or has its last pointer.
LEMMA AppendOK ==
    ASSUME ListsOK, NEW l \in Lists, NEW d \in ListData, ListAppend(l, d), lists[l].last # NIL \/ lists[l].first = NIL
    PROVE  ListsOK'
<1>1. PICK s : ListState(listCell, lists, put, cursor, listOwned, s)
  BY DEF ListsOK
<1>2. PICK c : c = NewCell
  OBVIOUS
<1>3. /\ l \in DOMAIN lists /\ HasCell(1)
      /\ listCell' = [a \in DOMAIN listCell \cup {c} |->
                        IF a = c THEN [data |-> d, next |-> NIL]
                        ELSE IF a = lists[l].last THEN [listCell[a] EXCEPT !.next = c]
                        ELSE listCell[a]]
      /\ lists' = [lists EXCEPT ![l] = [first |-> IF lists[l].last = NIL THEN c ELSE lists[l].first, last |-> c]]
      /\ put' = [put EXCEPT ![l] = Append(@, d)]
      /\ listOwned' = listOwned + 1
      /\ cursor' = IF l = "in" /\ cursor.ptr # NIL THEN [ptr |-> cursor.ptr, due |-> Append(cursor.due, d)] ELSE cursor
  BY <1>2 DEF ListAppend
<1>4. /\ ListsHold(listCell, lists, put, s) /\ CursorAt(cursor, s["in"], put["in"])
      /\ listOwned = Cardinality(Live(listCell))
  BY <1>1 DEF ListState
<1>5. /\ DOMAIN listCell \subseteq Spots /\ IsFiniteSet(DOMAIN listCell)
      /\ \A k \in Lists : /\ RunIs(listCell, s[k], put[k]) /\ Members(s[k]) \subseteq DOMAIN listCell
                          /\ s[k] \in Seq(Spots) /\ put[k] \in Seq(Data) /\ Len(put[k]) = Len(s[k]) /\ Len(s[k]) \in Nat
  BY <1>4, HoldLemma
<1>6. c \in Spots /\ c \notin DOMAIN listCell /\ d \in Data /\ d # NODATA
  BY <1>2, <1>3, <1>5, NewCellLemma, ListConstants
<1> DEFINE z == Append(s[l], c)
           x == Append(put[l], d)
           r == [s EXCEPT ![l] = z]
<1>7. /\ z \in Seq(Spots) /\ Len(z) = Len(s[l]) + 1 /\ z[Len(s[l]) + 1] = c /\ Members(z) = Members(s[l]) \cup {c}
      /\ \A i \in 1..Len(s[l]) : z[i] = s[l][i]
  BY <1>5, <1>6, AppendLemma
<1> HIDE DEF z
<1>8. EndsAre(lists[l], s[l])
  BY <1>3, <1>4 DEF ListsHold
<1>9. /\ s[l] = <<>> => lists[l].last = NIL
      /\ s[l] # <<>> => /\ lists[l].last = s[l][Len(s[l])] /\ lists[l].last \in Members(s[l])
                        /\ lists[l].last # NIL /\ lists[l].first = s[l][1] /\ 1 \in 1..Len(s[l])
  <2>1. s[l] # <<>> => 1 \in 1..Len(s[l]) /\ Len(s[l]) \in 1..Len(s[l])
    BY <1>5
  <2>2. s[l] # <<>> => lists[l].first = s[l][1] /\ s[l][1] \in Spots
    BY <1>5, <1>8, <2>1 DEF EndsAre
  <2>3. s[l] # <<>> => lists[l].last # NIL
    BY <2>2, ListConstants
  <2> QED
    BY <1>8, <2>1, <2>2, <2>3 DEF EndsAre, Members
<1>10. ASSUME NEW a \in DOMAIN listCell
       PROVE  /\ a # lists[l].last => listCell'[a] = listCell[a]
              /\ a = lists[l].last => listCell'[a] = [listCell[a] EXCEPT !.next = c]
              /\ listCell'[a].data = listCell[a].data
  <2>1. /\ a # lists[l].last => listCell'[a] = listCell[a]
        /\ a = lists[l].last => listCell'[a] = [listCell[a] EXCEPT !.next = c]
    BY <1>3, <1>6
  <2>2. listCell[a] \in Nodes
    BY <1>4, NodesLemma
  <2>3. [listCell[a] EXCEPT !.next = c].data = listCell[a].data
    BY <2>2 DEF Nodes
  <2> QED
    BY <2>1, <2>3
<1>11. DOMAIN listCell' = DOMAIN listCell \cup {c} /\ listCell'[c] = [data |-> d, next |-> NIL]
  BY <1>3
<1>12. RunIs(listCell', z, x)
  <2>1. PutBehind(listCell, listCell', s[l], c) /\ c \notin Members(s[l])
    <3> SUFFICES ASSUME NEW a \in Members(s[l])
                 PROVE  /\ a \in DOMAIN listCell'
                        /\ listCell'[a] = IF a = s[l][Len(s[l])] THEN [listCell[a] EXCEPT !.next = c] ELSE listCell[a]
      BY <1>5, <1>6 DEF PutBehind
    <3>1. s[l] # <<>>
      BY RunEmpty
    <3>2. a \in DOMAIN listCell
      BY <1>5
    <3> QED
      BY <1>9, <1>10, <1>11, <3>1, <3>2
  <2> QED
    BY <1>5, <1>6, <1>11, <2>1, RunBack DEF z
<1>13. Changed(listCell, lists, listCell', lists', s, l, z)
  <2>1. DOMAIN lists' = DOMAIN lists /\ (\A k \in DOMAIN lists' \ {l} : lists'[k] = lists[k])
        /\ lists'[l] = [first |-> IF lists[l].last = NIL THEN c ELSE lists[l].first, last |-> c]
    BY <1>3
  <2>2. EndsAre(lists'[l], z)
    <3>1. lists'[l].first = (IF lists[l].last = NIL THEN c ELSE lists[l].first) /\ lists'[l].last = c
      BY <2>1
    <3>2. z # <<>> /\ z[Len(z)] = c
      BY <1>5, <1>7
    <3>3. lists'[l].first = z[1]
      <4>1. CASE s[l] = <<>>
        <5>1. Len(s[l]) + 1 = 1
          BY <4>1
        <5> QED
          BY <1>7, <1>9, <3>1, <4>1, <5>1
      <4>2. CASE s[l] # <<>>
        BY <1>7, <1>9, <3>1, <4>2
      <4> QED
        BY <4>1, <4>2
    <3> QED
      BY <3>1, <3>2, <3>3 DEF EndsAre
  <2>3. \A a \in DOMAIN listCell \ Members(s[l]) : listCell'[a] = listCell[a]
    <3>1. \A a \in DOMAIN listCell \ Members(s[l]) : a # lists[l].last
      BY <1>5, <1>9, ListConstants
    <3> QED
      BY <1>10, <3>1
  <2>4. DOMAIN listCell' = (DOMAIN listCell \ Members(s[l])) \cup Members(z)
    BY <1>5, <1>7, <1>11
  <2>5. Members(z) \cap (DOMAIN listCell \ Members(s[l])) = {}
    BY <1>6, <1>7
  <2> QED
    BY <1>3, <2>1, <2>2, <2>3, <2>4, <2>5 DEF Changed
<1>14. put' = [put EXCEPT ![l] = x]
  BY <1>3
<1>15. ListsHold(listCell', lists', put', r)
  <2> HIDE DEF x
  <2> QED
    BY <1>4, <1>12, <1>13, <1>14, HoldStep
<1>16. CursorAt(cursor', r["in"], put'["in"])
  <2>0. "in" \in Lists /\ DOMAIN s = Lists /\ DOMAIN put = Lists
    BY <1>4 DEF Lists, ListsHold
  <2>1. CASE l = "in"
    <3>1. r["in"] = Append(s["in"], c) /\ put'["in"] = Append(put["in"], d)
      BY <1>3, <2>0, <2>1 DEF z
    <3>2. cursor' = IF cursor.ptr # NIL THEN [ptr |-> cursor.ptr, due |-> Append(cursor.due, d)] ELSE cursor
      BY <1>3, <2>1
    <3>3. CursorAt(IF cursor.ptr # NIL THEN [ptr |-> cursor.ptr, due |-> Append(cursor.due, d)] ELSE cursor,
                   Append(s["in"], c), Append(put["in"], d))
      BY <1>4, <1>5, <1>6, <2>0, CursorBack
    <3> QED
      BY <3>1, <3>2, <3>3
  <2>2. CASE l # "in"
    BY <1>3, <1>4, <2>0, <2>2
  <2> QED
    BY <2>1, <2>2
<1>17. listOwned' = Cardinality(Live(listCell'))
  <2>1. listCell'[c].data = d /\ \A a \in DOMAIN listCell : listCell'[a].data = listCell[a].data
    BY <1>10, <1>11
  <2>2. Cardinality(Live(listCell')) = Cardinality(Live(listCell)) + 1
    BY <1>5, <1>6, <1>11, <2>1, LiveAdd
  <2> QED
    BY <1>3, <1>4, <2>2
<1> HIDE DEF r
<1>18. ListState(listCell', lists', put', cursor', listOwned', r)
  BY <1>15, <1>16, <1>17 DEF ListState
<1> QED
  BY <1>18 DEF ListsOK

\* r_list_create.
LEMMA CreateOK == ListsOK /\ ListCreate => ListsOK'
<1> SUFFICES ASSUME ListsOK, ListCreate PROVE ListsOK'
  OBVIOUS
<1>1. PICK s : ListState(listCell, lists, put, cursor, listOwned, s)
  BY DEF ListsOK
<1>2. /\ "in" \notin DOMAIN lists
      /\ lists' = [k \in DOMAIN lists \cup {"in"} |-> IF k = "in" THEN [first |-> NIL, last |-> NIL] ELSE lists[k]]
      /\ put' = [put EXCEPT !["in"] = <<>>]
      /\ listCell' = listCell /\ cursor' = cursor /\ listOwned' = listOwned
  BY DEF ListCreate
<1>3. /\ ListsHold(listCell, lists, put, s) /\ CursorAt(cursor, s["in"], put["in"])
      /\ listOwned = Cardinality(Live(listCell))
  BY <1>1 DEF ListState
<1>4. "in" \in Lists /\ s["in"] = <<>> /\ put["in"] = <<>> /\ DOMAIN s = Lists /\ DOMAIN put = Lists
  <2>1. "in" \in Lists /\ DOMAIN s = Lists /\ DOMAIN put = Lists
    BY <1>3 DEF Lists, ListsHold
  <2>2. s["in"] = <<>>
    BY <1>2, <1>3, <2>1 DEF ListsHold
  <2>3. put["in"] \in Seq(Data) /\ Len(put["in"]) = Len(s["in"])
    BY <1>3, <2>1, HoldLemma
  <2>4. Len(<<>>) = 0
    OBVIOUS
  <2>5. put["in"] = <<>>
    BY <2>2, <2>3, <2>4
  <2> QED
    BY <2>1, <2>2, <2>5
<1>5. RunIs(listCell', <<>>, <<>>) /\ Members(<<>>) = {}
  BY RunEmpty
<1>6. Changed(listCell, lists, listCell', lists', s, "in", <<>>)
  <2>1. /\ DOMAIN lists' \ {"in"} = DOMAIN lists \ {"in"} /\ "in" \in DOMAIN lists'
        /\ \A k \in DOMAIN lists' \ {"in"} : lists'[k] = lists[k]
        /\ lists'["in"] = [first |-> NIL, last |-> NIL]
    BY <1>2
  <2>2. EndsAre(lists'["in"], <<>>)
    BY <2>1 DEF EndsAre
  <2> QED
    BY <1>2, <1>4, <1>5, <2>1, <2>2 DEF Changed
<1>7. ListsHold(listCell', lists', put', [s EXCEPT !["in"] = <<>>])
  BY <1>2, <1>3, <1>4, <1>5, <1>6, HoldStep
<1> DEFINE r == [s EXCEPT !["in"] = <<>>]
<1>8. r["in"] = <<>> /\ put'["in"] = <<>>
  BY <1>2, <1>4
<1>9. CursorAt(cursor', r["in"], put'["in"])
  BY <1>2, <1>3, <1>4, <1>8
<1>10. listOwned' = Cardinality(Live(listCell'))
  BY <1>2, <1>3
<1>11. ListState(listCell', lists', put', cursor', listOwned', r)
  BY <1>7, <1>9, <1>10 DEF ListState
<1> HIDE DEF r
<1> QED
  BY <1>11 DEF ListsOK

\* What r_list_destroy and r_list_copy walk along.
LEMMA WholeList ==
    ASSUME NEW s, ListsHold(listCell, lists, put, s), NEW l \in DOMAIN lists
    PROVE  From(lists[l].first) = s[l]
<1>1. l \in Lists /\ EndsAre(lists[l], s[l])
  BY DEF ListsHold
<1>2. RunIs(listCell, s[l], put[l]) /\ s[l] \in Seq(Spots) /\ Len(s[l]) \in Nat
  BY <1>1, HoldLemma
<1>3. 1 \in 1..(Len(s[l]) + 1) /\ ((s[l] = <<>>) <=> (1 = Len(s[l]) + 1)) /\ 1 - 1 = 0
  BY <1>2
<1>4. lists[l].first = IF 1 = Len(s[l]) + 1 THEN NIL ELSE s[l][1]
  BY <1>1, <1>3 DEF EndsAre
<1>5. From(lists[l].first) = Slice(s[l], 1 - 1, Len(s[l]))
  BY <1>2, <1>3, <1>4, FromLemma
<1>6. Slice(s[l], 0, Len(s[l])) = s[l]
  BY <1>2, SliceEnds
<1> QED
  BY <1>3, <1>5, <1>6

\* r_list_destroy.
LEMMA DestroyOK == ASSUME ListsOK, NEW l \in Lists, ListDestroy(l) PROVE ListsOK'
<1>1. PICK s : ListState(listCell, lists, put, cursor, listOwned, s)
  BY DEF ListsOK
<1>2. /\ ListsHold(listCell, lists, put, s) /\ CursorAt(cursor, s["in"], put["in"])
      /\ listOwned = Cardinality(Live(listCell))
  BY <1>1 DEF ListState
<1>3. l \in DOMAIN lists
  BY DEF ListDestroy
<1>4. /\ IsFiniteSet(DOMAIN listCell) /\ Members(s[l]) \subseteq DOMAIN listCell
      /\ s[l] \in Seq(Spots) /\ DOMAIN s = Lists /\ DOMAIN put = Lists
  <2>1. DOMAIN s = Lists /\ DOMAIN put = Lists
    BY <1>2 DEF ListsHold
  <2> QED
    BY <1>2, <2>1, HoldLemma
<1> DEFINE freed == Members(s[l])
           gone == {a \in freed : listCell[a].data # NODATA}
<1>5. /\ listCell' = [a \in DOMAIN listCell \ freed |-> listCell[a]]
      /\ listOwned' = listOwned - Cardinality(gone)
      /\ lists' = [k \in DOMAIN lists \ {l} |-> lists[k]]
      /\ cursor' = IF l = "in" THEN [ptr |-> NIL, due |-> <<>>] ELSE cursor
      /\ put' = [put EXCEPT ![l] = <<>>]
  <2>1. From(lists[l].first) = s[l]
    BY <1>2, <1>3, WholeList
  <2>2. {s[l][n] : n \in DOMAIN s[l]} = freed
    BY <1>4 DEF Members
  <2> QED
    BY <2>1, <2>2 DEF ListDestroy
<1> HIDE DEF freed, gone
<1>6. freed = Members(s[l]) /\ freed \subseteq DOMAIN listCell /\ gone = {a \in freed : listCell[a].data # NODATA}
  BY <1>4 DEF freed, gone
<1>7. RunIs(listCell', <<>>, <<>>) /\ Members(<<>>) = {}
  BY RunEmpty
<1>8. Changed(listCell, lists, listCell', lists', s, l, <<>>)
  <2>1. /\ DOMAIN lists' \ {l} = DOMAIN lists \ {l} /\ l \notin DOMAIN lists'
        /\ \A k \in DOMAIN lists' \ {l} : lists'[k] = lists[k]
    BY <1>5
  <2>2. DOMAIN listCell' = DOMAIN listCell \ freed /\ \A a \in DOMAIN listCell \ freed : listCell'[a] = listCell[a]
    BY <1>5
  <2> QED
    BY <1>6, <1>7, <2>1, <2>2 DEF Changed
<1> DEFINE r == [s EXCEPT ![l] = <<>>]
<1>9. ListsHold(listCell', lists', put', r)
  BY <1>2, <1>5, <1>7, <1>8, HoldStep
<1>10. CursorAt(cursor', r["in"], put'["in"])
  <2>0. "in" \in Lists
    BY DEF Lists
  <2>1. CASE l = "in"
    <3>1. r["in"] = <<>> /\ put'["in"] = <<>>
      BY <1>4, <1>5, <2>0, <2>1
    <3> QED
      BY <1>5, <2>1, <3>1, CursorEmpty
  <2>2. CASE l # "in"
    BY <1>2, <1>4, <1>5, <2>0, <2>2
  <2> QED
    BY <2>1, <2>2
<1>11. listOwned' = Cardinality(Live(listCell'))
  <2>1. IsFiniteSet(Live(listCell))
    <3>1. Live(listCell) \in SUBSET DOMAIN listCell
      BY DEF Live
    <3> QED
      BY <1>4, <3>1, FS_Subset
  <2>2. \A a : a \in Live(listCell') <=> a \in Live(listCell) \ gone
    BY <1>5, <1>6 DEF Live
  <2>3. Live(listCell') = Live(listCell) \ gone
    BY <2>2
  <2>4. Live(listCell) \cap gone = gone
    BY <1>6 DEF Live
  <2>5. Cardinality(Live(listCell) \ gone) = Cardinality(Live(listCell)) - Cardinality(Live(listCell) \cap gone)
    BY <2>1, FS_Difference
  <2> QED
    BY <1>2, <1>5, <2>3, <2>4, <2>5
<1> HIDE DEF r
<1>12. ListState(listCell', lists', put', cursor', listOwned', r)
  BY <1>9, <1>10, <1>11 DEF ListState
<1> QED
  BY <1>12 DEF ListsOK

\* r_list_init_iter.
LEMMA ListInitIterOK == ListsOK /\ ListInitIter => ListsOK'
<1> SUFFICES ASSUME ListsOK, ListInitIter PROVE ListsOK'
  OBVIOUS
<1>1. PICK s : ListState(listCell, lists, put, cursor, listOwned, s)
  BY DEF ListsOK
<1>2. /\ "in" \in DOMAIN lists
      /\ cursor' = [ptr |-> lists["in"].first, due |-> put["in"]]
      /\ listCell' = listCell /\ lists' = lists /\ put' = put /\ listOwned' = listOwned
  BY DEF ListInitIter
<1>3. ListsHold(listCell, lists, put, s) /\ listOwned = Cardinality(Live(listCell))
  BY <1>1 DEF ListState
<1>4. "in" \in Lists /\ EndsAre(lists["in"], s["in"])
  BY <1>2, <1>3 DEF Lists, ListsHold
<1>5. s["in"] \in Seq(Spots) /\ put["in"] \in Seq(Data) /\ Len(s["in"]) \in Nat
  BY <1>3, <1>4, HoldLemma
<1>6. 1 \in 1..(Len(s["in"]) + 1) /\ ((s["in"] = <<>>) <=> (1 = Len(s["in"]) + 1)) /\ 1 - 1 = 0
  BY <1>5
<1>7. lists["in"].first = IF 1 = Len(s["in"]) + 1 THEN NIL ELSE s["in"][1]
  BY <1>4, <1>6 DEF EndsAre
<1>8. Slice(put["in"], 1 - 1, Len(put["in"])) = put["in"]
  BY <1>5, <1>6, SliceEnds
<1>9. CursorAt(cursor', s["in"], put["in"])
  BY <1>2, <1>6, <1>7, <1>8 DEF CursorAt
<1>10. ListState(listCell', lists', put', cursor', listOwned', s)
  BY <1>2, <1>3, <1>9 DEF ListState
<1> QED
  BY <1>10 DEF ListsOK

\* r_list_iter.
LEMMA ListIterOK == ListsOK /\ ListIter => ListsOK'
<1> SUFFICES ASSUME ListsOK, ListIter PROVE ListsOK'
  OBVIOUS
<1>1. PICK s : ListState(listCell, lists, put, cursor, listOwned, s)
  BY DEF ListsOK
<1>2. /\ cursor.ptr # NIL
      /\ cursor' = [ptr |-> listCell[cursor.ptr].next, due |-> IF cursor.due = <<>> THEN <<>> ELSE Tail(cursor.due)]
      /\ listCell' = listCell /\ lists' = lists /\ put' = put /\ listOwned' = listOwned
  BY DEF ListIter
<1>3. /\ ListsHold(listCell, lists, put, s) /\ listOwned = Cardinality(Live(listCell))
      /\ CursorAt(cursor, s["in"], put["in"])
  BY <1>1 DEF ListState
<1>4. "in" \in Lists
  BY DEF Lists
<1>5. PICK z \in Seq(Spots), x \in Seq(Data) :
          z = s["in"] /\ x = put["in"] /\ Len(x) = Len(z) /\ RunIs(listCell, z, x) /\ Len(z) \in Nat
  BY <1>3, <1>4, HoldLemma
<1>6. PICK k \in 1..(Len(z) + 1) :
          cursor = [ptr |-> IF k = Len(z) + 1 THEN NIL ELSE z[k], due |-> Slice(x, k - 1, Len(x))]
  BY <1>3, <1>5 DEF CursorAt
<1>7. k # Len(z) + 1 /\ k \in 1..Len(z) /\ k + 1 \in 1..(Len(z) + 1)
  <2>1. cursor.ptr = IF k = Len(z) + 1 THEN NIL ELSE z[k]
    BY <1>6
  <2>2. k # Len(z) + 1
    BY <1>2, <2>1
  <2> QED
    BY <1>5, <2>2
<1>8. cursor.ptr = z[k] /\ cursor.due = Slice(x, k - 1, Len(x))
  BY <1>6, <1>7
<1>9. listCell[z[k]].next = IF k + 1 = Len(z) + 1 THEN NIL ELSE z[k + 1]
  <2>1. listCell[z[k]].next = IF k = Len(z) THEN NIL ELSE z[k + 1]
    BY <1>5, <1>7 DEF RunIs
  <2>2. (k = Len(z)) <=> (k + 1 = Len(z) + 1)
    BY <1>5, <1>7
  <2> QED
    BY <2>1, <2>2
<1>10. cursor.due # <<>> /\ Tail(cursor.due) = Slice(x, (k + 1) - 1, Len(x))
  <2>1. k - 1 \in Nat /\ k \in Nat /\ Len(x) \in Nat /\ k - 1 <= Len(x) /\ k <= Len(x) /\ k = (k - 1) + 1 /\ (k + 1) - 1 = k
    BY <1>5, <1>7
  <2>2. PICK m \in Nat, n \in Nat : m = k - 1 /\ n = Len(x)
    BY <2>1
  <2>3. m < n /\ n <= Len(x) /\ m + 1 = (k + 1) - 1
    BY <2>1, <2>2
  <2>4. Slice(x, m, n) # <<>> /\ Tail(Slice(x, m, n)) = Slice(x, m + 1, n)
    BY <2>3, TailSlice
  <2> QED
    BY <1>8, <2>2, <2>3, <2>4
<1>11. CursorAt(cursor', z, x)
  <2>1. cursor' = [ptr |-> IF k + 1 = Len(z) + 1 THEN NIL ELSE z[k + 1], due |-> Slice(x, (k + 1) - 1, Len(x))]
    BY <1>2, <1>8, <1>9, <1>10
  <2> QED
    BY <1>7, <2>1 DEF CursorAt
<1>12. ListState(listCell', lists', put', cursor', listOwned', s)
  BY <1>2, <1>3, <1>5, <1>11 DEF ListState
<1> QED
  BY <1>12 DEF ListsOK

\* What r_list_copy makes of a datum, and of a list with the elements s that hold p.
CopyOf(d) == IF d \in Copyable THEN d ELSE NODATA
NextOf(z, n) == IF n \in 1..Len(z) THEN z[n] ELSE NIL
CopiedTo(g, z, x) ==
    \A i \in 1..Len(z) : z[i] \in DOMAIN g /\ g[z[i]] = [data |-> x[i], next |-> NextOf(z, i + 1)]

\* The elements of a copy are linked as those it was made from.
LEMMA RunCopy ==
    ASSUME NEW g, NEW z \in Seq(Spots), NoRepeats(z), NEW x \in Seq(Data), Len(x) = Len(z), CopiedTo(g, z, x)
    PROVE  RunIs(g, z, x)
<1>1. Len(z) \in Nat
  OBVIOUS
<1>2. ASSUME NEW i \in 1..Len(z)
      PROVE  /\ z[i] \in DOMAIN g /\ g[z[i]] \in Nodes
             /\ g[z[i]].data = x[i]
             /\ g[z[i]].next = IF i = Len(z) THEN NIL ELSE z[i + 1]
  <2>1. z[i] \in DOMAIN g /\ g[z[i]] = [data |-> x[i], next |-> NextOf(z, i + 1)]
    BY DEF CopiedTo
  <2>2. i # Len(z) => i + 1 \in 1..Len(z) /\ z[i + 1] \in Spots
    BY <1>1
  <2>3. i = Len(z) => i + 1 \notin 1..Len(z)
    BY <1>1
  <2>4. NextOf(z, i + 1) = IF i = Len(z) THEN NIL ELSE z[i + 1]
    BY <2>2, <2>3 DEF NextOf
  <2>5. NextOf(z, i + 1) \in Links /\ x[i] \in Data
    <3>1. x[i] \in Data
      OBVIOUS
    <3>2. NIL \in Links /\ Spots \subseteq Links
      BY ListConstants
    <3>3. (IF i = Len(z) THEN NIL ELSE z[i + 1]) \in Links
      BY <2>2, <3>2
    <3> QED
      BY <2>4, <3>1, <3>3
  <2> QED
    BY <2>1, <2>4, <2>5 DEF Nodes
<1> QED
  BY <1>2 DEF RunIs

\* Different entries are as many as their places.
LEMMA EntriesLemma ==
    ASSUME NEW J, IsFiniteSet(J), NEW z, OneToOne(z, J)
    PROVE  IsFiniteSet({z[i] : i \in J}) /\ Cardinality({z[i] : i \in J}) = Cardinality(J)
<1> DEFINE T == {z[i] : i \in J}
           f == [i \in J |-> z[i]]
<1>1. f \in [J -> T] /\ OneToOne(f, J) /\ {f[i] : i \in J} = T
  BY DEF OneToOne
<1> HIDE DEF f, T
<1>2. IsFiniteSet({f[i] : i \in J}) /\ Cardinality({f[i] : i \in J}) = Cardinality(J)
  BY <1>1, ImageLemma
<1> QED
  BY <1>1, <1>2 DEF T

\* The elements z are new, and these places of a copy have a datum.
Joined(h, g, z) ==
    /\ DOMAIN g = DOMAIN h \cup Members(z) /\ DOMAIN h \cap Members(z) = {}
    /\ \A a \in DOMAIN h : g[a] = h[a]
Dated(x) == {i \in 1..Len(x) : x[i] # NODATA}

\* The data of a copy.
LEMMA LiveCopy ==
    ASSUME NEW h, NEW g, NEW z \in Seq(Spots), NoRepeats(z), NEW x \in Seq(Data), Len(x) = Len(z), CopiedTo(g, z, x),
           IsFiniteSet(DOMAIN h), Joined(h, g, z)
    PROVE  Cardinality(Live(g)) = Cardinality(Live(h)) + Cardinality(Dated(x))
<1> DEFINE J == {i \in 1..Len(z) : x[i] # NODATA}
           I == {z[i] : i \in J}
<1>0. /\ Len(z) \in Nat
      /\ DOMAIN g = DOMAIN h \cup Members(z) /\ DOMAIN h \cap Members(z) = {}
      /\ \A a \in DOMAIN h : g[a] = h[a]
  BY DEF Joined
<1>1. IsFiniteSet(J)
  <2>1. 1 \in Int /\ Len(z) \in Int
    BY <1>0
  <2>2. IsFiniteSet(1..Len(z))
    BY <2>1, FS_Interval
  <2>3. J \in SUBSET (1..Len(z))
    OBVIOUS
  <2> HIDE DEF J
  <2> QED
    BY <2>2, <2>3, FS_Subset
<1>2. \A i \in J : i \in 1..Len(z) /\ z[i] \in Spots /\ x[i] # NODATA
  OBVIOUS
<1>3. \A i \in 1..Len(z) : x[i] # NODATA => i \in J
  OBVIOUS
<1> HIDE DEF J
<1>4. OneToOne(z, J)
  BY <1>2 DEF OneToOne, NoRepeats
<1>5. IsFiniteSet(I) /\ Cardinality(I) = Cardinality(J)
  BY <1>1, <1>4, EntriesLemma
<1>6. \A i \in 1..Len(z) : g[z[i]].data = x[i] /\ z[i] \in Members(z)
  <2> SUFFICES ASSUME NEW i \in 1..Len(z) PROVE g[z[i]].data = x[i] /\ z[i] \in Members(z)
    OBVIOUS
  <2>1. g[z[i]] = [data |-> x[i], next |-> NextOf(z, i + 1)]
    BY DEF CopiedTo
  <2>2. g[z[i]].data = x[i]
    BY <2>1
  <2> QED
    BY <2>2 DEF Members
<1>7. \A a \in Members(z) : a \in I <=> g[a].data # NODATA
  <2> SUFFICES ASSUME NEW a \in Members(z) PROVE a \in I <=> g[a].data # NODATA
    OBVIOUS
  <2>1. PICK k \in 1..Len(z) : z[k] = a
    BY DEF Members
  <2>2. a \in I => \E i \in J : z[i] = a
    OBVIOUS
  <2>3. a \in I => k \in J
    BY <1>2, <2>1, <2>2 DEF NoRepeats
  <2>4. k \in J => a \in I
    BY <2>1
  <2>5. k \in J <=> x[k] # NODATA
    BY <1>2, <1>3, <2>1
  <2> QED
    BY <1>6, <2>1, <2>3, <2>4, <2>5
<1>8. I \subseteq Members(z)
  BY <1>2, <1>6
<1> HIDE DEF I
<1>9. \A a : a \in Live(g) <=> a \in Live(h) \cup I
  <2> SUFFICES ASSUME NEW a PROVE a \in Live(g) <=> a \in Live(h) \cup I
    OBVIOUS
  <2>1. CASE a \in DOMAIN h
    BY <1>0, <1>8, <2>1 DEF Live
  <2>2. CASE a \in Members(z)
    BY <1>0, <1>7, <2>2 DEF Live
  <2>3. CASE a \notin DOMAIN h /\ a \notin Members(z)
    BY <1>0, <1>8, <2>3 DEF Live
  <2> QED
    BY <2>1, <2>2, <2>3
<1>10. Live(g) = Live(h) \cup I /\ Live(h) \cap I = {}
  BY <1>0, <1>8, <1>9 DEF Live
<1>11. IsFiniteSet(Live(h))
  <2>1. Live(h) \in SUBSET DOMAIN h
    BY DEF Live
  <2> QED
    BY <2>1, FS_Subset
<1>12. Cardinality(Live(h) \cup I) = Cardinality(Live(h)) + Cardinality(I) - Cardinality(Live(h) \cap I)
  BY <1>5, <1>11, FS_Union
<1>13. PICK u \in Nat, v \in Nat : u = Cardinality(Live(h)) /\ v = Cardinality(J)
  BY <1>1, <1>11, FS_CardinalityType
<1>14. Cardinality(Live(g)) = u + v - 0
  BY <1>5, <1>10, <1>12, <1>13, FS_EmptySet
<1> QED
  <2>1. J = Dated(x)
    BY DEF J, Dated
  <2> QED
    BY <1>13, <1>14, <2>1

\* r_list_copy.
LEMMA CopyOK == ListsOK /\ ListCopy => ListsOK'
<1> SUFFICES ASSUME ListsOK, ListCopy PROVE ListsOK'
  OBVIOUS
<1>1. PICK s : ListState(listCell, lists, put, cursor, listOwned, s)
  BY DEF ListsOK
<1>2. /\ ListsHold(listCell, lists, put, s) /\ CursorAt(cursor, s["in"], put["in"])
      /\ listOwned = Cardinality(Live(listCell))
  BY <1>1 DEF ListState
<1> DEFINE old == From(lists["in"].first)
           n == Len(old)
           z == NewCells(n)
           x == [i \in DOMAIN put["in"] |-> CopyOf(put["in"][i])]
           data == [i \in 1..n |-> CopyOf(listCell[old[i]].data)]
           At_n(i) == IF i \in 1..n THEN z[i] ELSE NIL
           r == [s EXCEPT !["out"] = z]
<1>3. /\ "in" \in DOMAIN lists /\ "out" \notin DOMAIN lists /\ HasCell(n)
      /\ listCell' = [a \in DOMAIN listCell \cup {z[i] : i \in 1..n} |->
                        IF a \in DOMAIN listCell THEN listCell[a]
                        ELSE [data |-> data[CHOOSE i \in 1..n : z[i] = a], next |-> At_n((CHOOSE i \in 1..n : z[i] = a) + 1)]]
      /\ lists' = [k \in Lists |-> IF k = "out" THEN [first |-> At_n(1), last |-> At_n(n)] ELSE lists[k]]
      /\ put' = [put EXCEPT !["out"] = x]
      /\ listOwned' = listOwned + Cardinality({i \in 1..n : data[i] # NODATA})
      /\ cursor' = cursor
  BY DEF ListCopy, CopyOf
<1>4. old = s["in"]
  BY <1>2, <1>3, WholeList
<1> HIDE DEF old
<1>5. /\ "in" \in Lists /\ "out" \in Lists /\ "in" # "out" /\ DOMAIN s = Lists /\ DOMAIN put = Lists
      /\ DOMAIN lists = {"in"} /\ s["out"] = <<>>
  <2>1. "in" \in Lists /\ "out" \in Lists /\ "in" # "out" /\ \A l \in Lists : l = "in" \/ l = "out"
    BY DEF Lists
  <2>2. DOMAIN lists \subseteq Lists /\ DOMAIN s = Lists /\ DOMAIN put = Lists
        /\ \A l \in Lists \ DOMAIN lists : s[l] = <<>>
    BY <1>2 DEF ListsHold
  <2> QED
    BY <1>3, <2>1, <2>2
<1>6. /\ DOMAIN listCell \subseteq Spots /\ IsFiniteSet(DOMAIN listCell)
      /\ RunIs(listCell, old, put["in"]) /\ old \in Seq(Spots)
      /\ put["in"] \in Seq(Data) /\ Len(put["in"]) = n /\ n \in Nat
  BY <1>2, <1>4, <1>5, HoldLemma
<1>7. z \in [1..n -> Spots \ DOMAIN listCell] /\ OneToOne(z, 1..n)
  <2> HIDE DEF n
  <2> QED
    BY <1>3, <1>6, NewCellsLemma
<1> HIDE DEF n, z
<1>8. z \in Seq(Spots) /\ Len(z) = n /\ NoRepeats(z) /\ \A i \in 1..n : z[i] \in Spots /\ z[i] \notin DOMAIN listCell
  <2>1. z \in [1..n -> Spots] /\ \A i \in 1..n : z[i] \in Spots /\ z[i] \notin DOMAIN listCell
    BY <1>7
  <2>2. n \in Nat
    BY <1>6
  <2>3. z \in Seq(Spots) /\ Len(z) = n
    BY <2>1, <2>2, LenLemma
  <2>4. NoRepeats(z)
    BY <1>7, <2>3 DEF OneToOne, NoRepeats
  <2> QED
    BY <2>1, <2>3, <2>4
<1>9. Members(z) = {z[i] : i \in 1..n} /\ Members(z) \cap DOMAIN listCell = {}
  BY <1>8 DEF Members
<1>10. \A d \in Data : CopyOf(d) \in Data
  BY ListConstants DEF CopyOf
<1>11. x \in Seq(Data) /\ Len(x) = n /\ \A i \in 1..n : x[i] = CopyOf(put["in"][i])
  <2>1. DOMAIN put["in"] = 1..n
    BY <1>6
  <2>2. \A i \in 1..n : put["in"][i] \in Data
    BY <1>6
  <2>3. x \in [1..n -> Data]
    BY <1>10, <2>1, <2>2
  <2>4. \A i \in 1..n : x[i] = CopyOf(put["in"][i])
    BY <2>1
  <2> HIDE DEF x
  <2>5. n \in Nat
    BY <1>6
  <2>6. x \in Seq(Data) /\ Len(x) = n
    BY <2>3, <2>5, LenLemma
  <2> QED
    BY <2>4, <2>6
<1>12. \A i \in 1..n : data[i] = x[i]
  <2>1. \A i \in 1..Len(old) : listCell[old[i]].data = put["in"][i]
    BY <1>6 DEF RunIs
  <2> QED
    BY <1>11, <2>1 DEF n
<1> HIDE DEF x, data
<1>13. CopiedTo(listCell', z, x)
  <2> SUFFICES ASSUME NEW i \in 1..n
               PROVE  z[i] \in DOMAIN listCell' /\ listCell'[z[i]] = [data |-> x[i], next |-> NextOf(z, i + 1)]
    BY <1>8 DEF CopiedTo
  <2>1. z[i] \notin DOMAIN listCell /\ z[i] \in {z[j] : j \in 1..n}
    BY <1>8
  <2>2. (CHOOSE j \in 1..n : z[j] = z[i]) = i
    BY <1>7 DEF OneToOne
  <2>3. listCell'[z[i]] = [data |-> data[CHOOSE j \in 1..n : z[j] = z[i]], next |-> At_n((CHOOSE j \in 1..n : z[j] = z[i]) + 1)]
    BY <1>3, <2>1
  <2>4. listCell'[z[i]] = [data |-> data[i], next |-> At_n(i + 1)]
    BY <2>2, <2>3
  <2>5. At_n(i + 1) = NextOf(z, i + 1)
    BY <1>8 DEF NextOf
  <2>6. DOMAIN listCell' = DOMAIN listCell \cup {z[j] : j \in 1..n}
    BY <1>3
  <2> QED
    BY <1>12, <2>1, <2>4, <2>5, <2>6
<1>14. RunIs(listCell', z, x)
  BY <1>8, <1>11, <1>13, RunCopy
<1>15. DOMAIN listCell' = DOMAIN listCell \cup Members(z) /\ \A a \in DOMAIN listCell : listCell'[a] = listCell[a]
  BY <1>3, <1>9
<1>16. Changed(listCell, lists, listCell', lists', s, "out", z)
  <2>1. DOMAIN lists' = Lists /\ lists'["in"] = lists["in"] /\ lists'["out"] = [first |-> At_n(1), last |-> At_n(n)]
    BY <1>3, <1>5
  <2>2. DOMAIN lists' \ {"out"} = DOMAIN lists \ {"out"} /\ \A k \in DOMAIN lists' \ {"out"} : lists'[k] = lists[k]
    BY <1>5, <2>1 DEF Lists
  <2>3. EndsAre(lists'["out"], z)
    <3>1. lists'["out"].first = At_n(1) /\ lists'["out"].last = At_n(n)
      BY <2>1
    <3>2. CASE z = <<>>
      <4>1. n = 0 /\ 1 \notin 1..0 /\ 0 \notin 1..0
        BY <1>8, <3>2
      <4> QED
        BY <3>1, <3>2, <4>1 DEF EndsAre
    <3>3. CASE z # <<>>
      <4>1. 1 \in 1..n /\ n \in 1..n
        BY <1>6, <1>8, <3>3
      <4> QED
        BY <1>8, <3>1, <3>3, <4>1 DEF EndsAre
    <3> QED
      BY <3>2, <3>3
  <2>4. Members(s["out"]) = {}
    BY <1>5, RunEmpty
  <2> QED
    BY <1>5, <1>9, <1>15, <2>1, <2>2, <2>3, <2>4 DEF Changed
<1>17. ListsHold(listCell', lists', put', r)
  BY <1>2, <1>3, <1>5, <1>14, <1>16, HoldStep
<1>18. CursorAt(cursor', r["in"], put'["in"])
  BY <1>2, <1>3, <1>5
<1>19. listOwned' = Cardinality(Live(listCell'))
  <2>1. {i \in 1..n : data[i] # NODATA} = Dated(x)
    BY <1>11, <1>12 DEF Dated
  <2>2. Joined(listCell, listCell', z)
    BY <1>9, <1>15 DEF Joined
  <2>3. z \in Seq(Spots) /\ NoRepeats(z) /\ x \in Seq(Data) /\ Len(x) = Len(z)
    BY <1>8, <1>11
  <2>4. IsFiniteSet(DOMAIN listCell)
    BY <1>6
  <2>5. Cardinality(Live(listCell')) = Cardinality(Live(listCell)) + Cardinality(Dated(x))
    BY <1>13, <2>2, <2>3, <2>4, LiveCopy
  <2> QED
    BY <1>2, <1>3, <2>1, <2>5
<1> HIDE DEF r
<1>20. ListState(listCell', lists', put', cursor', listOwned', r)
  BY <1>17, <1>18, <1>19 DEF ListState
<1> QED
  BY <1>20 DEF ListsOK

\* The lists after any step.
LEMMA ListStep == ListInv /\ [ListNext]_listVars => ListInv'
<1> SUFFICES ASSUME ListInv, [ListNext]_listVars PROVE ListInv'
  OBVIOUS
<1>1. CASE UNCHANGED listVars
  BY <1>1 DEF ListInv, ListsOK, listVars
<1>2. CASE ListNext
  <2>1. ListsOK /\ ~misfit
    BY <1>2 DEF ListInv, ListsOK, ListNext
  <2>2. ListsOK' => ListInv'
    BY DEF ListInv, ListsOK
  <2>3. CASE ListCreate
    BY <2>1, <2>2, <2>3, CreateOK
  <2>4. ASSUME NEW l \in Lists, ListDestroy(l) PROVE ListInv'
    BY <2>1, <2>2, <2>4, DestroyOK
  <2>5. ASSUME NEW l \in Lists, NEW d \in ListData, ListInsert(l, d) PROVE ListInv'
    BY <2>1, <2>2, <2>5, InsertOK
  <2>6. ASSUME NEW l \in Lists, NEW d \in ListData, ListAppend(l, d) PROVE ListInv'
    <3>1. CASE lists[l].last # NIL \/ lists[l].first = NIL
      BY <2>1, <2>2, <2>6, <3>1, AppendOK
    <3>2. CASE lists[l].last = NIL /\ lists[l].first # NIL
      BY <2>6, <3>2 DEF ListAppend, ListInv
    <3> QED
      BY <3>1, <3>2
  <2>7. CASE ListCopy
    BY <2>1, <2>2, <2>7, CopyOK
  <2>8. CASE ListInitIter
    BY <2>1, <2>2, <2>8, ListInitIterOK
  <2>9. CASE ListIter
    BY <2>1, <2>2, <2>9, ListIterOK
  <2> QED
    BY <1>2, <2>3, <2>4, <2>5, <2>6, <2>7, <2>8, <2>9 DEF ListNext
<1> QED
  BY <1>1, <1>2

-----------------------------------------------------------------------------
(* Chains of buffers. *)
Numbers == 1..BufCt
Bytes   == 0..3
Buffers == {b \in [data : [1..BufSize -> Bytes], r_offset : Nat, length : Nat] : b.length + b.r_offset <= BufSize}

\* A buffer is in one place.
Placed(hd, fr, ch) ==
    /\ hd \in Seq(Numbers) /\ NoRepeats(hd) /\ fr \in Seq(Numbers) /\ NoRepeats(fr)
    /\ ch \in [Heads -> Seq(Numbers)] /\ \A h \in Heads : NoRepeats(ch[h])
    /\ Members(hd) \cap Members(fr) = {}
    /\ \A h \in Heads : Members(ch[h]) \cap (Members(hd) \cup Members(fr)) = {}
    /\ \A h, g \in Heads : h # g => Members(ch[h]) \cap Members(ch[g]) = {}

\* The bytes p are what the buffers c hold, each at least one of them: off[n] are in the
\* first n buffers.
OffsetsAre(bf, c, p, off) ==
    /\ off \in [0..Len(c) -> 0..Len(p)] /\ off[0] = 0 /\ off[Len(c)] = Len(p)
    /\ \A n \in 1..Len(c) :
          /\ bf[c[n]].length >= 1
          /\ off[n] = off[n - 1] + bf[c[n]].length
          /\ \A i \in 1..bf[c[n]].length : p[off[n - 1] + i] = bf[c[n]].data[bf[c[n]].r_offset + i]
ChainHolds(bf, c, p) == p \in Seq(Bytes) /\ \E off : OffsetsAre(bf, c, p, off)

ChainInv ==
    /\ buf \in [Numbers -> Buffers]
    /\ Placed(held, freeList, chain)
    /\ pending \in [Heads -> Seq(Bytes)]
    /\ \A h \in Heads : ChainHolds(buf, chain[h], pending[h])

\* What is in one buffer.
LEMMA DataInLemma ==
    ASSUME NEW b \in Buffers
    PROVE  /\ DataIn(b) \in Seq(Bytes) /\ Len(DataIn(b)) = b.length /\ b.length \in Nat /\ b.r_offset \in Nat
           /\ \A i \in 1..b.length : DataIn(b)[i] = b.data[b.r_offset + i]
<1>1. /\ b.length \in Nat /\ b.r_offset \in Nat /\ b.length + b.r_offset <= BufSize /\ b.data \in [1..BufSize -> Bytes]
      /\ BufSize \in Nat
  BY ContainersAssumption DEF Buffers
<1>2. PICK l \in Nat, o \in Nat, d \in [1..BufSize -> Bytes] : l = b.length /\ o = b.r_offset /\ d = b.data
  BY <1>1
<1>3. \A i \in 1..l : i + o \in 1..BufSize /\ i + o = o + i
  BY <1>1, <1>2
<1> DEFINE f == [i \in 1..l |-> IF i + o \in DOMAIN d THEN d[i + o] ELSE NOBYTE]
<1>4. DataIn(b) = f
  BY <1>2 DEF DataIn
<1>5. f \in [1..l -> Bytes] /\ \A i \in 1..l : f[i] = d[o + i]
  BY <1>3
<1> HIDE DEF f
<1>6. f \in Seq(Bytes) /\ Len(f) = l
  BY <1>5, LenLemma
<1> QED
  BY <1>2, <1>4, <1>5, <1>6

\* The first n entries.
LEMMA PrefixLemma ==
    ASSUME NEW S, NEW p \in Seq(S), NEW n \in Nat, n <= Len(p)
    PROVE  Slice(p, 0, n) \in Seq(S) /\ Len(Slice(p, 0, n)) = n /\ \A i \in 1..n : Slice(p, 0, n)[i] = p[i]
<1> DEFINE f == [i \in 1..n |-> p[i]]
<1>1. n - 0 = n /\ \A i \in 1..n : 0 + i = i
  OBVIOUS
<1>2. Slice(p, 0, n) = f
  BY <1>1 DEF Slice
<1>3. f \in [1..n -> S]
  OBVIOUS
<1>4. f \in Seq(S) /\ Len(f) = n
  BY <1>3, LenLemma
<1> QED
  BY <1>2, <1>4

\* One sequence behind another.
IsJoin(z, y, d) ==
    /\ Len(z) = Len(y) + Len(d)
    /\ \A i \in 1..Len(y) : z[i] = y[i]
    /\ \A i \in 1..Len(d) : z[Len(y) + i] = d[i]

\* The entries of two sequences one behind the other.
LEMMA JoinedLemma ==
    ASSUME NEW S, NEW y \in Seq(S), NEW d \in Seq(S)
    PROVE  y \o d \in Seq(S) /\ IsJoin(y \o d, y, d)
<1>1. Len(y) \in Nat /\ Len(d) \in Nat
  OBVIOUS
<1>2. y \o d \in Seq(S) /\ Len(y \o d) = Len(y) + Len(d)
  OBVIOUS
<1>3. \A i \in 1..Len(y) : (y \o d)[i] = y[i]
  OBVIOUS
<1>4. \A i \in 1..Len(d) : (y \o d)[Len(y) + i] = d[i]
  OBVIOUS
<1> QED
  BY <1>2, <1>3, <1>4 DEF IsJoin

\* Two sequences of the same length with the same entries.
LEMMA SameSeq ==
    ASSUME NEW S, NEW y \in Seq(S), NEW z \in Seq(S), Len(y) = Len(z), \A i \in 1..Len(z) : y[i] = z[i]
    PROVE  y = z
OBVIOUS

\* A prefix and what follows it make up a longer prefix.
LEMMA JoinLemma ==
    ASSUME NEW S, NEW p \in Seq(S), NEW d \in Seq(S), NEW m \in Nat, NEW n \in Nat, m <= n, n <= Len(p),
           Len(d) = n - m, \A i \in 1..(n - m) : p[m + i] = d[i]
    PROVE  Slice(p, 0, m) \o d = Slice(p, 0, n)
<1>0. 0 \in Nat /\ 0 <= m /\ 0 <= n /\ m <= Len(p) /\ Len(p) \in Nat /\ m - 0 = m /\ n - 0 = n
  OBVIOUS
<1> DEFINE y == Slice(p, 0, m)
           q == Slice(p, 0, n)
<1>1. y \in Seq(S) /\ Len(y) = m /\ \A i \in 1..m : y[i] = p[i]
  BY <1>0, PrefixLemma
<1>2. q \in Seq(S) /\ Len(q) = n /\ \A i \in 1..n : q[i] = p[i]
  BY PrefixLemma
<1> HIDE DEF y, q
<1>3. /\ y \o d \in Seq(S) /\ Len(y \o d) = m + Len(d)
      /\ \A i \in 1..m : (y \o d)[i] = y[i]
      /\ \A i \in 1..Len(d) : (y \o d)[m + i] = d[i]
  <2>1. y \in Seq(S) /\ d \in Seq(S)
    BY <1>1
  <2>2. y \o d \in Seq(S) /\ IsJoin(y \o d, y, d)
    BY <2>1, JoinedLemma
  <2>3. Len(y) = m
    BY <1>1
  <2> QED
    BY <2>2, <2>3 DEF IsJoin
<1>4. m + Len(d) = n
  OBVIOUS
<1>5. Len(y \o d) = Len(q)
  BY <1>2, <1>3, <1>4
<1>6. ASSUME NEW i \in 1..Len(q) PROVE (y \o d)[i] = q[i]
  <2>1. i \in 1..n /\ q[i] = p[i]
    BY <1>2
  <2>2. CASE i <= m
    BY <1>1, <1>3, <1>4, <2>1, <2>2
  <2>3. CASE ~(i <= m)
    <3>1. i - m \in 1..(n - m) /\ m + (i - m) = i
      BY <2>1, <2>3
    <3>2. (y \o d)[m + (i - m)] = d[i - m]
      BY <1>3, <3>1
    <3> QED
      BY <2>1, <3>1, <3>2
  <2> QED
    BY <2>2, <2>3
<1>7. y \o d = q
  <2>1. y \o d \in Seq(S) /\ q \in Seq(S)
    BY <1>2, <1>3
  <2> QED
    BY <2>1, <1>5, <1>6, SameSeq
<1> QED
  BY <1>7 DEF y, q

\* The buffers of a chain, one behind the other, hold the bytes that were written to it.
LEMMA ContentsLemma ==
    ASSUME buf \in [Numbers -> Buffers], NEW h \in Heads, chain[h] \in Seq(Numbers), ChainHolds(buf, chain[h], pending[h])
    PROVE  Contents(h) = pending[h]
<1>1. PICK c, p : c = chain[h] /\ p = pending[h]
  OBVIOUS
<1>2. c \in Seq(Numbers) /\ p \in Seq(Bytes) /\ \E off : OffsetsAre(buf, c, p, off)
  BY <1>1 DEF ChainHolds
<1>3. PICK off : OffsetsAre(buf, c, p, off)
  BY <1>2
<1>4. PICK N \in Nat : N = Len(c)
  BY <1>2
<1>5. /\ off \in [0..N -> 0..Len(p)] /\ off[0] = 0 /\ off[N] = Len(p) /\ Len(p) \in Nat
      /\ \A n \in 1..N : c[n] \in Numbers /\ off[n] = off[n - 1] + buf[c[n]].length
      /\ \A n \in 1..N : \A i \in 1..buf[c[n]].length : p[off[n - 1] + i] = buf[c[n]].data[buf[c[n]].r_offset + i]
  <2>1. off \in [0..N -> 0..Len(p)] /\ off[0] = 0 /\ off[N] = Len(p) /\ Len(p) \in Nat
    BY <1>2, <1>3, <1>4 DEF OffsetsAre
  <2>2. \A n \in 1..N : c[n] \in Numbers
    BY <1>2, <1>4
  <2>3. \A n \in 1..Len(c) :
           /\ off[n] = off[n - 1] + buf[c[n]].length
           /\ \A i \in 1..buf[c[n]].length : p[off[n - 1] + i] = buf[c[n]].data[buf[c[n]].r_offset + i]
    BY <1>3 DEF OffsetsAre
  <2> QED
    BY <1>4, <2>1, <2>2, <2>3
<1> DEFINE Step(g) == [n \in 0..N |-> IF n = 0 THEN <<>> ELSE g[n - 1] \o DataIn(buf[c[n]])]
           upto == CHOOSE g : g = [n \in 0..N |-> IF n = 0 THEN <<>> ELSE g[n - 1] \o DataIn(buf[c[n]])]
           w == [n \in 0..N |-> Slice(p, 0, off[n])]
<1>6. Contents(h) = upto[N]
  BY <1>1, <1>4 DEF Contents
<1>7. Slice(p, 0, 0) = <<>>
  <2>1. 0 \in Nat /\ 0 <= Len(p)
    BY <1>5
  <2>2. Slice(p, 0, 0) \in Seq(Bytes) /\ Len(Slice(p, 0, 0)) = 0
    BY <1>2, <2>1, PrefixLemma
  <2> QED
    BY <2>2
<1>8. ASSUME NEW n \in 1..N PROVE Slice(p, 0, off[n - 1]) \o DataIn(buf[c[n]]) = Slice(p, 0, off[n])
  <2>1. n \in 0..N /\ n - 1 \in 0..N
    BY <1>4
  <2>2. PICK j \in Nat, k \in Nat : j = off[n - 1] /\ k = off[n] /\ k <= Len(p)
    BY <1>5, <2>1
  <2>3. PICK b \in Buffers : b = buf[c[n]]
    BY <1>5
  <2>4. PICK d : d = DataIn(b)
    OBVIOUS
  <2>5. /\ d \in Seq(Bytes) /\ Len(d) = b.length /\ b.length \in Nat /\ b.r_offset \in Nat
        /\ \A i \in 1..b.length : d[i] = b.data[b.r_offset + i]
    BY <2>4, DataInLemma
  <2>6. k = j + b.length /\ \A i \in 1..b.length : p[j + i] = b.data[b.r_offset + i]
    BY <1>5, <2>2, <2>3
  <2>7. j <= k /\ k - j = b.length
    BY <2>5, <2>6
  <2>8. Len(d) = k - j /\ \A i \in 1..(k - j) : p[j + i] = d[i]
    BY <2>5, <2>6, <2>7
  <2>9. p \in Seq(Bytes) /\ d \in Seq(Bytes)
    BY <1>2, <2>5
  <2>10. Slice(p, 0, j) \o d = Slice(p, 0, k)
    BY <2>2, <2>7, <2>8, <2>9, JoinLemma
  <2> QED
    BY <2>2, <2>3, <2>4, <2>10
<1>9. w = Step(w)
  <2>1. ASSUME NEW n \in 0..N PROVE w[n] = Step(w)[n]
    <3>1. CASE n = 0
      BY <1>5, <1>7, <3>1
    <3>2. CASE n # 0
      <4>1. n \in 1..N /\ n - 1 \in 0..N
        BY <1>4, <3>2
      <4>2. Slice(p, 0, off[n - 1]) \o DataIn(buf[c[n]]) = Slice(p, 0, off[n])
        BY <1>8, <4>1
      <4>3. w[n - 1] = Slice(p, 0, off[n - 1]) /\ w[n] = Slice(p, 0, off[n])
        BY <4>1
      <4> QED
        BY <3>2, <4>2, <4>3
    <3> QED
      BY <3>1, <3>2
  <2> QED
    BY <2>1
<1>10. w[N] = Slice(p, 0, off[N])
  BY <1>4
<1> HIDE DEF w
<1>11. upto = Step(upto)
  <2>1. (CHOOSE g : g = Step(g)) = Step(CHOOSE g : g = Step(g))
    BY <1>9, Zenon
  <2> QED
    BY <2>1
<1> HIDE DEF upto
<1>12. ASSUME NEW n \in 0..N, upto[n] # w[n] PROVE FALSE
  <2> DEFINE D == {j \in 0..N : upto[j] # w[j]}
  <2>1. D \in SUBSET Nat /\ D # {}
    BY <1>12
  <2>2. PICK d \in D : \A e \in D : d <= e
    BY <2>1, LeastLemma
  <2>3. d # 0
    <3>1. Step(upto)[0] = <<>> /\ Step(w)[0] = <<>>
      BY <1>4
    <3> QED
      BY <1>9, <1>11, <2>2, <3>1
  <2>4. d \in 1..N /\ d - 1 \in 0..N /\ d - 1 \notin D
    BY <1>4, <2>2, <2>3
  <2>5. upto[d - 1] = w[d - 1]
    BY <2>4
  <2>6. Step(upto)[d] = Step(w)[d]
    BY <2>4, <2>5
  <2> QED
    BY <1>9, <1>11, <2>2, <2>6
<1>13. upto[N] = Slice(p, 0, Len(p))
  BY <1>4, <1>5, <1>10, <1>12
<1>14. Slice(p, 0, Len(p)) = p
  BY <1>2, SliceEnds
<1> QED
  BY <1>1, <1>6, <1>13, <1>14

\* The entries of a sequence are its members.
LEMMA EntryLemma ==
    ASSUME NEW S, NEW s \in Seq(S)
    PROVE  {s[n] : n \in DOMAIN s} = Members(s)
<1>1. DOMAIN s = 1..Len(s)
  OBVIOUS
<1> QED
  BY <1>1 DEF Members

\* The buffers that are in a place: in the program's hands, on the free list, in a chain.
Keeps(k) == IF k = "held" THEN held ELSE IF k = "free" THEN freeList ELSE chain[k]
Keepers == {"held", "free"} \cup Heads

\* A buffer is in one place.
OnePlace == \A p, q \in Places : LiesAt(p) = LiesAt(q) => p = q

\* Buffers that are placed so are in one place each.
LEMMA OnePlaceLemma ==
    ASSUME Placed(held, freeList, chain)
    PROVE  OnePlace
<1>0. "held" \notin Heads /\ "free" \notin Heads /\ "held" # "free"
  <2>1. {"held", "free"} \cap Heads = {}
    BY ContainersAssumption
  <2> QED
    BY <2>1
<1>1. /\ Keeps("held") = held /\ Keeps("free") = freeList /\ \A h \in Heads : Keeps(h) = chain[h]
  BY <1>0 DEF Keeps
<1>2. \A k \in Keepers : Keeps(k) \in Seq(Numbers) /\ NoRepeats(Keeps(k))
  BY <1>1 DEF Keepers, Placed
<1>3. ASSUME NEW k \in Keepers, NEW l \in Keepers, k # l PROVE Members(Keeps(k)) \cap Members(Keeps(l)) = {}
  BY <1>1, <1>3 DEF Keepers, Placed
<1>4. ASSUME NEW p \in Places PROVE \E k \in Keepers : \E n \in 1..Len(Keeps(k)) : p = <<k, n>>
  <2>1. \A k \in Keepers : DOMAIN Keeps(k) = 1..Len(Keeps(k))
    BY <1>2
  <2>2. CASE p \in {<<"held", n>> : n \in DOMAIN held}
    BY <1>1, <2>1, <2>2 DEF Keepers
  <2>3. CASE p \in {<<"free", n>> : n \in DOMAIN freeList}
    BY <1>1, <2>1, <2>3 DEF Keepers
  <2>4. CASE \E h \in Heads : p \in {<<h, n>> : n \in DOMAIN chain[h]}
    BY <1>1, <2>1, <2>4 DEF Keepers
  <2> QED
    BY <2>2, <2>3, <2>4 DEF Places
<1>5. ASSUME NEW k \in Keepers, NEW n \in 1..Len(Keeps(k)) PROVE LiesAt(<<k, n>>) = Keeps(k)[n]
  BY DEF LiesAt, Keeps
<1> SUFFICES ASSUME NEW p \in Places, NEW q \in Places, LiesAt(p) = LiesAt(q) PROVE p = q
  BY DEF OnePlace
<1>6. PICK k \in Keepers : \E n \in 1..Len(Keeps(k)) : p = <<k, n>>
  BY <1>4
<1>7. PICK n \in 1..Len(Keeps(k)) : p = <<k, n>>
  BY <1>6
<1>8. PICK l \in Keepers : \E m \in 1..Len(Keeps(l)) : q = <<l, m>>
  BY <1>4
<1>9. PICK m \in 1..Len(Keeps(l)) : q = <<l, m>>
  BY <1>8
<1>10. Keeps(k)[n] = Keeps(l)[m]
  <2>1. LiesAt(p) = Keeps(k)[n]
    BY <1>5, <1>7
  <2>2. LiesAt(q) = Keeps(l)[m]
    BY <1>5, <1>9
  <2> QED
    BY <2>1, <2>2
<1>11. k = l
  <2>1. Keeps(k)[n] \in Members(Keeps(k)) /\ Keeps(l)[m] \in Members(Keeps(l))
    BY DEF Members
  <2> QED
    BY <1>3, <1>10, <2>1
<1>12. n = m
  BY <1>2, <1>10, <1>11 DEF NoRepeats
<1> QED
  BY <1>7, <1>9, <1>11, <1>12

\* The invariant of the chains implies what is wanted of them.
LEMMA ChainFaithfulOK == ChainInv => ChainFaithful
<1> SUFFICES ASSUME ChainInv PROVE ChainFaithful
  OBVIOUS
<1>1. /\ buf \in [Numbers -> Buffers] /\ Placed(held, freeList, chain)
      /\ \A h \in Heads : ChainHolds(buf, chain[h], pending[h])
  BY DEF ChainInv
<1>2. \A h \in Heads : chain[h] \in Seq(Numbers)
  BY <1>1 DEF Placed
<1>3. ASSUME NEW h \in Heads PROVE Contents(h) = pending[h]
  <2>1. chain[h] \in Seq(Numbers) /\ ChainHolds(buf, chain[h], pending[h])
    BY <1>1, <1>2
  <2> QED
    BY <1>1, <2>1, ContentsLemma
<1>4. OnePlace
  BY <1>1, OnePlaceLemma
<1> QED
  BY <1>3, <1>4 DEF ChainFaithful, OnePlace

\* What malloc still has can be numbered.
LEMMA SpareBuffers ==
    ASSUME NEW U, U = Unused, NEW m, m = Cardinality(U)
    PROVE  \E s \in [1..m -> U] : OneToOne(s, 1..m)
<1>1. BufCt \in Nat
  BY ContainersAssumption
<1>2. IsFiniteSet(1..BufCt)
  <2>1. 1 \in Int /\ BufCt \in Int
    BY <1>1
  <2> QED
    BY <2>1, FS_Interval
<1>3. U \in SUBSET (1..BufCt)
  BY DEF Unused
<1>4. IsFiniteSet(U) /\ Cardinality(U) \in Nat
  BY <1>2, <1>3, FS_Subset, FS_CardinalityType
<1>5. m \in Nat
  BY <1>4
<1>6. IsFiniteSet(1..m) /\ Cardinality(1..m) = m
  <2>1. 1 \in Int /\ m \in Int /\ (1 > m => m = 0) /\ m - 1 + 1 = m
    BY <1>5
  <2> QED
    BY <1>5, <2>1, FS_Interval
<1>7. Cardinality(1..m) <= Cardinality(U)
  BY <1>5, <1>6
<1>8. \E f \in [1..m -> U] : OneToOne(f, 1..m)
  BY <1>4, <1>6, <1>7, InjectionLemma
<1> QED
  BY <1>8

\* nr_p_buf_alloc: the free list comes first, and nothing is obtained that is in use.
LEMMA ObtainLemma ==
    ASSUME Placed(held, freeList, chain)
    PROVE  /\ Obtainable \in Seq(Numbers) /\ NoRepeats(Obtainable) /\ Len(freeList) <= Len(Obtainable)
           /\ \A i \in 1..Len(freeList) : Obtainable[i] = freeList[i]
           /\ Members(Obtainable) \cap Members(held) = {}
           /\ \A h \in Heads : Members(Obtainable) \cap Members(chain[h]) = {}
<1>1. /\ held \in Seq(Numbers) /\ freeList \in Seq(Numbers) /\ NoRepeats(freeList) /\ \A h \in Heads : chain[h] \in Seq(Numbers)
      /\ Members(held) \cap Members(freeList) = {}
      /\ \A h \in Heads : Members(chain[h]) \cap Members(freeList) = {}
  BY DEF Placed
<1>2. /\ {held[n] : n \in DOMAIN held} = Members(held) /\ {freeList[n] : n \in DOMAIN freeList} = Members(freeList)
      /\ \A h \in Heads : {chain[h][n] : n \in DOMAIN chain[h]} = Members(chain[h])
  <2>1. \A h \in Heads : {chain[h][n] : n \in DOMAIN chain[h]} = Members(chain[h])
    BY <1>1, EntryLemma
  <2> QED
    BY <1>1, <2>1, EntryLemma
<1>3. /\ Unused \subseteq Numbers /\ Unused \cap Members(held) = {} /\ Unused \cap Members(freeList) = {}
      /\ \A h \in Heads : Unused \cap Members(chain[h]) = {}
  <2>1. Members(held) \subseteq Used /\ Members(freeList) \subseteq Used
    BY <1>2 DEF Used
  <2>2. \A h \in Heads : Members(chain[h]) \subseteq Used
    BY <1>2 DEF Used
  <2> QED
    BY <2>1, <2>2 DEF Unused, Numbers
<1>4. PICK U, m : U = Unused /\ m = Cardinality(U)
  OBVIOUS
<1>41. PICK s : s = CHOOSE t \in [1..m -> U] : \A i, j \in 1..m : t[i] = t[j] => i = j
  OBVIOUS
<1>42. s \in [1..m -> U] /\ \A i, j \in 1..m : s[i] = s[j] => i = j
  <2>1. \E t \in [1..m -> U] : OneToOne(t, 1..m)
    BY <1>4, SpareBuffers
  <2>2. \E t \in [1..m -> U] : \A i, j \in 1..m : t[i] = t[j] => i = j
    BY <2>1 DEF OneToOne
  <2> QED
    BY <1>41, <2>2, Zenon
<1>43. Obtainable = freeList \o s
  BY <1>4, <1>41 DEF Obtainable
<1>5. m \in Nat
  <2>1. U \in SUBSET (1..BufCt)
    BY <1>3, <1>4 DEF Numbers
  <2>2. 1 \in Int /\ BufCt \in Int
    BY ContainersAssumption
  <2>3. IsFiniteSet(1..BufCt)
    BY <2>2, FS_Interval
  <2> QED
    BY <1>4, <2>1, <2>3, FS_Subset, FS_CardinalityType
<1>6. s \in Seq(U) /\ Len(s) = m
  BY <1>42, <1>5, LenLemma
<1>7. s \in Seq(Numbers)
  <2>1. s \in [1..m -> Numbers]
    BY <1>3, <1>4, <1>42
  <2> QED
    BY <1>5, <2>1, LenLemma
<1>8. NoRepeats(s) /\ Members(s) \subseteq U
  <2>1. Members(s) \subseteq U
    BY <1>6, MembersLemma
  <2> QED
    BY <1>42, <1>6, <2>1 DEF NoRepeats
<1>9. /\ freeList \o s \in Seq(Numbers) /\ Members(freeList \o s) = Members(freeList) \cup Members(s)
      /\ NoRepeats(freeList) /\ NoRepeats(s) /\ Members(freeList) \cap Members(s) = {} => NoRepeats(freeList \o s)
  BY <1>1, <1>7, ConcatLemma
<1>10. Members(freeList) \cap Members(s) = {}
  BY <1>3, <1>4, <1>8
<1>11. IsJoin(freeList \o s, freeList, s)
  BY <1>1, <1>7, JoinedLemma
<1>12. Len(freeList) <= Len(freeList \o s) /\ \A i \in 1..Len(freeList) : (freeList \o s)[i] = freeList[i]
  <2>1. Len(freeList) \in Nat /\ Len(s) \in Nat
    BY <1>1, <1>5, <1>6
  <2> QED
    BY <1>11, <2>1 DEF IsJoin
<1>13. NoRepeats(freeList \o s)
  BY <1>1, <1>8, <1>9, <1>10
<1> QED
  BY <1>1, <1>3, <1>4, <1>43, <1>8, <1>9, <1>12, <1>13

\* The first k that can be obtained are in no place afterwards but their new one.
Taken(new, rest, k) ==
    /\ new \in Seq(Numbers) /\ Len(new) = k /\ NoRepeats(new)
    /\ rest \in Seq(Numbers) /\ NoRepeats(rest) /\ Members(rest) \subseteq Members(freeList)
    /\ Members(new) \cap Members(rest) = {} /\ Members(new) \cap Members(held) = {}
    /\ \A h \in Heads : Members(new) \cap Members(chain[h]) = {}

\* nr_p_buf_alloc, k times.
LEMMA TakeLemma ==
    ASSUME Placed(held, freeList, chain), NEW k \in Nat, k <= Len(Obtainable)
    PROVE  Taken(Slice(Obtainable, 0, k), StillFree(k), k)
<1>1. /\ freeList \in Seq(Numbers) /\ NoRepeats(freeList)
  BY DEF Placed
<1>2. PICK o : o = Obtainable
  OBVIOUS
<1>3. /\ o \in Seq(Numbers) /\ NoRepeats(o) /\ Len(freeList) <= Len(o)
      /\ \A i \in 1..Len(freeList) : o[i] = freeList[i]
      /\ Members(o) \cap Members(held) = {}
      /\ \A h \in Heads : Members(o) \cap Members(chain[h]) = {}
  BY <1>2, ObtainLemma
<1>4. PICK f \in Seq(Numbers), m \in Nat, l \in Nat : f = freeList /\ m = Len(f) /\ l = Len(o)
  BY <1>1, <1>3
<1> DEFINE new == Slice(o, 0, k)
           rest == StillFree(k)
<1>5. new \in Seq(Numbers) /\ Len(new) = k /\ \A i \in 1..k : new[i] = o[i]
  BY <1>2, <1>3, PrefixLemma
<1>6. /\ rest \in Seq(Numbers)
      /\ \A i \in 1..Len(rest) : k + i \in 1..m /\ rest[i] = f[k + i]
  <2>1. CASE k <= m
    <3>1. k <= m /\ m <= Len(f)
      BY <1>4, <2>1
    <3>2. /\ Slice(f, k, m) \in Seq(Numbers) /\ Len(Slice(f, k, m)) = m - k
          /\ \A i \in 1..(m - k) : k + i \in 1..Len(f) /\ Slice(f, k, m)[i] = f[k + i]
      BY <3>1, SliceLemma
    <3> QED
      BY <1>4, <3>2 DEF StillFree
  <2>2. CASE ~(k <= m)
    <3>1. 1..(m - k) = {}
      BY <2>2
    <3>2. rest = [i \in 1..(m - k) |-> f[k + i]]
      BY <1>4 DEF StillFree, Slice
    <3>3. rest = <<>>
      BY <3>1, <3>2
    <3> QED
      BY <3>3
  <2> QED
    BY <2>1, <2>2
<1> HIDE DEF new, rest
<1>7. \A i \in 1..k : i \in 1..l
  BY <1>2, <1>4
<1>8. NoRepeats(new)
  BY <1>3, <1>4, <1>5, <1>7 DEF NoRepeats
<1>9. \A i \in 1..Len(rest) : k + i \in 1..l /\ rest[i] = o[k + i]
  BY <1>3, <1>4, <1>6
<1>10. NoRepeats(rest)
  <2> SUFFICES ASSUME NEW i \in 1..Len(rest), NEW j \in 1..Len(rest), rest[i] = rest[j] PROVE i = j
    BY DEF NoRepeats
  <2>1. k + i \in 1..l /\ k + j \in 1..l /\ o[k + i] = o[k + j]
    BY <1>9
  <2>2. k + i = k + j
    BY <1>3, <1>4, <2>1 DEF NoRepeats
  <2> QED
    BY <2>2
<1>11. Members(rest) \subseteq Members(freeList)
  BY <1>4, <1>6 DEF Members
<1>12. Members(new) \subseteq Members(o)
  BY <1>4, <1>5, <1>7 DEF Members
<1>13. Members(new) \cap Members(rest) = {}
  <2> SUFFICES ASSUME NEW x, x \in Members(new), x \in Members(rest) PROVE FALSE
    OBVIOUS
  <2>1. PICK i \in 1..k : x = o[i]
    BY <1>5 DEF Members
  <2>2. PICK j \in 1..Len(rest) : x = o[k + j]
    BY <1>9 DEF Members
  <2>3. i \in 1..l /\ k + j \in 1..l /\ i # k + j
    BY <1>7, <1>9
  <2> QED
    BY <1>3, <1>4, <2>1, <2>2, <2>3 DEF NoRepeats
<1>14. Taken(new, rest, k)
  BY <1>3, <1>5, <1>6, <1>8, <1>10, <1>11, <1>12, <1>13 DEF Taken
<1> QED
  BY <1>2, <1>14 DEF new, rest

\* What is in hd, fr and c is there only once, and in no chain but h.
WellApart(hd, fr, c, h) ==
    /\ Members(hd) \cap Members(fr) = {} /\ Members(hd) \cap Members(c) = {} /\ Members(fr) \cap Members(c) = {}
    /\ \A g \in Heads \ {h} : Members(chain[g]) \cap (Members(hd) \cup Members(fr) \cup Members(c)) = {}

\* A step that moves buffers between the hands, the free list and one chain.
LEMMA PlacedStep ==
    ASSUME Placed(held, freeList, chain), NEW h \in Heads,
           NEW hd \in Seq(Numbers), NoRepeats(hd), NEW fr \in Seq(Numbers), NoRepeats(fr),
           NEW c \in Seq(Numbers), NoRepeats(c), WellApart(hd, fr, c, h)
    PROVE  Placed(hd, fr, [chain EXCEPT ![h] = c])
<1> DEFINE ch == [chain EXCEPT ![h] = c]
<1>1. /\ chain \in [Heads -> Seq(Numbers)] /\ \A g \in Heads : NoRepeats(chain[g])
      /\ \A f, g \in Heads : f # g => Members(chain[f]) \cap Members(chain[g]) = {}
  BY DEF Placed
<1>2. ch \in [Heads -> Seq(Numbers)] /\ ch[h] = c /\ \A g \in Heads \ {h} : ch[g] = chain[g]
  BY <1>1
<1> HIDE DEF ch
<1>3. \A g \in Heads : NoRepeats(ch[g])
  BY <1>1, <1>2
<1>4. \A g \in Heads : Members(ch[g]) \cap (Members(hd) \cup Members(fr)) = {}
  BY <1>2 DEF WellApart
<1>5. ASSUME NEW f \in Heads, NEW g \in Heads, f # g PROVE Members(ch[f]) \cap Members(ch[g]) = {}
  <2>1. CASE f = h
    BY <1>2, <1>5, <2>1 DEF WellApart
  <2>2. CASE g = h
    BY <1>2, <1>5, <2>2 DEF WellApart
  <2>3. CASE f # h /\ g # h
    BY <1>1, <1>2, <1>5, <2>3
  <2> QED
    BY <2>1, <2>2, <2>3
<1>6. Members(hd) \cap Members(fr) = {}
  BY DEF WellApart
<1>7. Placed(hd, fr, ch)
  BY <1>2, <1>3, <1>4, <1>5, <1>6 DEF Placed
<1> QED
  BY <1>7 DEF ch

\* The bytes of a chain depend on its buffers alone.
LEMMA HoldsFrame ==
    ASSUME NEW bf, NEW g, NEW c \in Seq(Numbers), NEW p, ChainHolds(bf, c, p), \A b \in Members(c) : g[b] = bf[b]
    PROVE  ChainHolds(g, c, p)
<1>1. p \in Seq(Bytes) /\ \E off : OffsetsAre(bf, c, p, off)
  BY DEF ChainHolds
<1>2. PICK off : OffsetsAre(bf, c, p, off)
  BY <1>1
<1>3. \A n \in 1..Len(c) : g[c[n]] = bf[c[n]]
  BY DEF Members
<1>4. OffsetsAre(g, c, p, off)
  <2>1. ASSUME NEW n \in 1..Len(c)
        PROVE  /\ g[c[n]].length >= 1
               /\ off[n] = off[n - 1] + g[c[n]].length
               /\ \A i \in 1..g[c[n]].length : p[off[n - 1] + i] = g[c[n]].data[g[c[n]].r_offset + i]
    <3>1. /\ bf[c[n]].length >= 1
          /\ off[n] = off[n - 1] + bf[c[n]].length
          /\ \A i \in 1..bf[c[n]].length : p[off[n - 1] + i] = bf[c[n]].data[bf[c[n]].r_offset + i]
      BY <1>2 DEF OffsetsAre
    <3>2. g[c[n]] = bf[c[n]]
      BY <1>3
    <3> QED
      BY <3>1, <3>2
  <2>2. off \in [0..Len(c) -> 0..Len(p)] /\ off[0] = 0 /\ off[Len(c)] = Len(p)
    BY <1>2 DEF OffsetsAre
  <2> QED
    BY <2>1, <2>2 DEF OffsetsAre
<1> QED
  BY <1>1, <1>4 DEF ChainHolds

\* Nothing is in a chain without buffers.
LEMMA HoldsNothing == ASSUME NEW bf PROVE ChainHolds(bf, <<>>, <<>>)
<1>1. <<>> \in Seq(Bytes) /\ Len(<<>>) = 0 /\ 1..0 = {}
  OBVIOUS
<1> DEFINE off == [n \in 0..0 |-> 0]
<1>2. off \in [0..0 -> 0..0] /\ off[0] = 0
  OBVIOUS
<1> HIDE DEF off
<1>3. OffsetsAre(bf, <<>>, <<>>, off)
  BY <1>1, <1>2 DEF OffsetsAre
<1> QED
  BY <1>1, <1>3 DEF ChainHolds

\* The chains but those of X are as they were, with what is in their buffers.
OthersKept(X) ==
    \A g \in Heads \ X : chain'[g] = chain[g] /\ pending'[g] = pending[g] /\ \A b \in Members(chain[g]) : buf'[b] = buf[b]
WrittenTo(X) == \A h \in Heads \cap X : ChainHolds(buf', chain'[h], pending'[h])

\* A step keeps the invariant when the chains it is about hold what they should.
LEMMA KeepLemma ==
    ASSUME ChainInv, NEW X, buf' \in [Numbers -> Buffers], Placed(held', freeList', chain'),
           pending' \in [Heads -> Seq(Bytes)], WrittenTo(X), OthersKept(X)
    PROVE  ChainInv'
<1>1. ASSUME NEW h \in Heads PROVE ChainHolds(buf', chain'[h], pending'[h])
  <2>1. CASE h \in X
    BY <2>1 DEF WrittenTo
  <2>2. CASE h \notin X
    <3>1. chain'[h] = chain[h] /\ pending'[h] = pending[h] /\ \A b \in Members(chain[h]) : buf'[b] = buf[b]
      BY <2>2 DEF OthersKept
    <3>2. ChainHolds(buf, chain[h], pending[h]) /\ chain[h] \in Seq(Numbers)
      BY DEF ChainInv, Placed
    <3>3. ChainHolds(buf', chain[h], pending[h])
      BY <3>1, <3>2, HoldsFrame
    <3> QED
      BY <3>1, <3>3
  <2> QED
    BY <2>1, <2>2
<1> QED
  BY <1>1 DEF ChainInv

\* A buffer that holds nothing.
LEMMA EmptyBuffer ==
    ASSUME NEW d \in [1..BufSize -> Bytes]
    PROVE  [data |-> d, r_offset |-> 0, length |-> 0] \in Buffers
<1>1. BufSize \in Nat
  BY ContainersAssumption
<1> QED
  BY <1>1 DEF Buffers

\* A new buffer.
LEMMA StockLemma == Stock \in Buffers /\ Stock.data \in [1..BufSize -> Bytes]
<1> DEFINE d == [i \in 1..BufSize |-> NOBYTE]
<1>1. d \in [1..BufSize -> Bytes] /\ Stock = [data |-> d, r_offset |-> 0, length |-> 0]
  BY DEF NOBYTE, Bytes, Stock
<1> HIDE DEF d
<1> QED
  BY <1>1, EmptyBuffer

\* Nothing is in a chain to begin with.
LEMMA ChainInitOK == ChainInit => ChainInv
<1> SUFFICES ASSUME ChainInit PROVE ChainInv
  OBVIOUS
<1>1. /\ buf = [b \in 1..BufCt |-> Stock] /\ freeList = <<>> /\ held = <<>>
      /\ chain = [h \in Heads |-> <<>>] /\ pending = [h \in Heads |-> <<>>]
  BY DEF ChainInit
<1>2. buf \in [Numbers -> Buffers]
  BY <1>1, StockLemma DEF Numbers
<1>3. \A S : <<>> \in Seq(S) /\ Len(<<>>) = 0 /\ 1..0 = {}
  OBVIOUS
<1>4. NoRepeats(<<>>) /\ Members(<<>>) = {}
  BY <1>3 DEF NoRepeats, Members
<1>5. Placed(held, freeList, chain)
  BY <1>1, <1>3, <1>4 DEF Placed
<1>6. pending \in [Heads -> Seq(Bytes)]
  BY <1>1
<1>7. \A h \in Heads : ChainHolds(buf, chain[h], pending[h])
  BY <1>1, HoldsNothing
<1> QED
  BY <1>2, <1>5, <1>6, <1>7 DEF ChainInv

\* What the invariant says of the variables.
LEMMA ChainParts ==
    ASSUME ChainInv
    PROVE  /\ buf \in [Numbers -> Buffers] /\ Placed(held, freeList, chain) /\ pending \in [Heads -> Seq(Bytes)]
           /\ held \in Seq(Numbers) /\ NoRepeats(held) /\ freeList \in Seq(Numbers) /\ NoRepeats(freeList)
           /\ chain \in [Heads -> Seq(Numbers)] /\ \A h \in Heads : NoRepeats(chain[h])
           /\ \A b \in Numbers : buf[b].data \in [1..BufSize -> Bytes]
           /\ \A h \in Heads : ChainHolds(buf, chain[h], pending[h])
<1>1. /\ buf \in [Numbers -> Buffers] /\ Placed(held, freeList, chain) /\ pending \in [Heads -> Seq(Bytes)]
      /\ \A h \in Heads : ChainHolds(buf, chain[h], pending[h])
  BY DEF ChainInv
<1>2. \A b \in Buffers : b.data \in [1..BufSize -> Bytes]
  BY DEF Buffers
<1>3. \A b \in Numbers : buf[b].data \in [1..BufSize -> Bytes]
  BY <1>1, <1>2
<1> QED
  BY <1>1, <1>3 DEF Placed

\* The buffers of a chain, and no others, are changed by a step on it.
LEMMA OtherChains ==
    ASSUME Placed(held, freeList, chain), NEW h \in Heads, NEW g \in Heads \ {h}
    PROVE  Members(chain[g]) \cap (Members(chain[h]) \cup Members(held) \cup Members(freeList)) = {}
BY DEF Placed

\* nr_p_buf_alloc keeps the chains.
LEMMA AllocKeeps == ChainInv /\ BufAlloc => ChainInv'
<1> SUFFICES ASSUME ChainInv, BufAlloc PROVE ChainInv'
  OBVIOUS
<1>0. /\ buf \in [Numbers -> Buffers] /\ Placed(held, freeList, chain) /\ pending \in [Heads -> Seq(Bytes)]
      /\ chain \in [Heads -> Seq(Numbers)] /\ \A b \in Numbers : buf[b].data \in [1..BufSize -> Bytes]
  BY ChainParts
<1>1. PICK o : o = Obtainable
  OBVIOUS
<1>2. /\ held = <<>> /\ o # <<>> /\ buf' = [buf EXCEPT ![Head(o)] = Emptied(Head(o))]
      /\ held' = <<Head(o)>> /\ freeList' = StillFree(1) /\ chain' = chain /\ pending' = pending
  BY <1>1 DEF BufAlloc
<1>3. o \in Seq(Numbers)
  BY <1>0, <1>1, ObtainLemma
<1>4. PICK x \in Numbers : x = Head(o) /\ x = o[1] /\ 1 <= Len(o)
  BY <1>2, <1>3
<1>5. PICK new, rest : new = Slice(o, 0, 1) /\ rest = StillFree(1)
  OBVIOUS
<1>6. Taken(new, rest, 1)
  <2>1. 1 \in Nat /\ 1 <= Len(Obtainable)
    BY <1>1, <1>4
  <2> QED
    BY <1>0, <1>1, <1>5, <2>1, TakeLemma
<1>7. x \in Members(new)
  <2>1. 1 \in Nat /\ 1 <= Len(o)
    BY <1>4
  <2>2. Len(new) = 1 /\ \A i \in 1..1 : new[i] = o[i]
    BY <1>3, <1>5, <2>1, PrefixLemma
  <2> QED
    BY <1>4, <2>2 DEF Members
<1>8. /\ <<x>> \in Seq(Numbers) /\ NoRepeats(<<x>>) /\ Members(<<x>>) = {x}
  BY DEF NoRepeats, Members
<1>9. Placed(<<x>>, rest, chain)
  BY <1>0, <1>6, <1>7, <1>8 DEF Placed, Taken
<1>10. Placed(held', freeList', chain')
  BY <1>2, <1>4, <1>5, <1>9
<1>11. Emptied(x) \in Buffers
  BY <1>0, EmptyBuffer DEF Emptied
<1>12. buf' \in [Numbers -> Buffers] /\ \A b \in Numbers \ {x} : buf'[b] = buf[b]
  BY <1>0, <1>2, <1>4, <1>11
<1>13. ASSUME NEW g \in Heads, NEW b \in Members(chain[g]) PROVE buf'[b] = buf[b]
  <2>1. b # x
    BY <1>6, <1>7 DEF Taken
  <2>2. b \in Numbers
    BY <1>0, MembersLemma
  <2> QED
    BY <1>12, <2>1, <2>2
<1>14. WrittenTo({}) /\ OthersKept({})
  BY <1>2, <1>13 DEF WrittenTo, OthersKept
<1>15. pending' \in [Heads -> Seq(Bytes)]
  BY <1>0, <1>2
<1> QED
  BY <1>10, <1>12, <1>14, <1>15, KeepLemma

\* nr_p_buf_free keeps the chains.
LEMMA FreeKeeps == ChainInv /\ BufFree => ChainInv'
<1> SUFFICES ASSUME ChainInv, BufFree PROVE ChainInv'
  OBVIOUS
<1>0. /\ buf \in [Numbers -> Buffers] /\ Placed(held, freeList, chain) /\ pending \in [Heads -> Seq(Bytes)]
      /\ held \in Seq(Numbers) /\ freeList \in Seq(Numbers) /\ NoRepeats(freeList)
  BY ChainParts
<1>1. /\ held # <<>> /\ freeList' = Append(freeList, held[1]) /\ held' = <<>>
      /\ buf' = buf /\ chain' = chain /\ pending' = pending
  BY DEF BufFree
<1>2. PICK x \in Numbers : x = held[1] /\ x \in Members(held)
  BY <1>0, <1>1 DEF Members
<1>3. x \notin Members(freeList) /\ \A h \in Heads : x \notin Members(chain[h])
  BY <1>0, <1>2 DEF Placed
<1>4. PICK fr : fr = Append(freeList, x)
  OBVIOUS
<1>5. fr \in Seq(Numbers) /\ Members(fr) = Members(freeList) \cup {x} /\ NoRepeats(fr)
  BY <1>0, <1>3, <1>4, AppendLemma
<1>6. <<>> \in Seq(Numbers) /\ NoRepeats(<<>>) /\ Members(<<>>) = {}
  BY DEF NoRepeats, Members
<1>7. Placed(<<>>, fr, chain)
  BY <1>0, <1>3, <1>5, <1>6 DEF Placed
<1>8. Placed(held', freeList', chain')
  BY <1>1, <1>2, <1>4, <1>7
<1>9. WrittenTo({}) /\ OthersKept({})
  BY <1>1 DEF WrittenTo, OthersKept
<1>10. buf' \in [Numbers -> Buffers] /\ pending' \in [Heads -> Seq(Bytes)]
  BY <1>0, <1>1
<1> QED
  BY <1>8, <1>9, <1>10, KeepLemma

\* nr_p_buf_ctx_destroy keeps the chains.
LEMMA ContextKeeps == ChainInv /\ BufContext => ChainInv'
<1> SUFFICES ASSUME ChainInv, BufContext PROVE ChainInv'
  OBVIOUS
<1>0. /\ buf \in [Numbers -> Buffers] /\ Placed(held, freeList, chain) /\ pending \in [Heads -> Seq(Bytes)]
      /\ freeList \in Seq(Numbers) /\ chain \in [Heads -> Seq(Numbers)]
  BY ChainParts
<1>1. /\ buf' = DestroyChain(freeList) /\ freeList' = <<>>
      /\ held' = held /\ chain' = chain /\ pending' = pending
  BY DEF BufContext
<1>2. <<>> \in Seq(Numbers) /\ NoRepeats(<<>>) /\ Members(<<>>) = {}
  BY DEF NoRepeats, Members
<1>3. Placed(held, <<>>, chain)
  BY <1>0, <1>2 DEF Placed
<1>4. Placed(held', freeList', chain')
  BY <1>1, <1>3
<1>5. \A b \in Numbers : (\E n \in DOMAIN freeList : freeList[n] = b) <=> b \in Members(freeList)
  <2>1. DOMAIN freeList = 1..Len(freeList)
    BY <1>0
  <2> QED
    BY <2>1 DEF Members
<1>6. buf' = [b \in Numbers |-> IF \E n \in DOMAIN freeList : freeList[n] = b THEN Stock ELSE buf[b]]
  BY <1>0, <1>1 DEF DestroyChain
<1>7. buf' \in [Numbers -> Buffers]
  BY <1>0, <1>6, StockLemma
<1>8. \A b \in Numbers : b \notin Members(freeList) => buf'[b] = buf[b]
  BY <1>5, <1>6
<1>9. ASSUME NEW g \in Heads, NEW b \in Members(chain[g]) PROVE buf'[b] = buf[b]
  <2>1. b \notin Members(freeList)
    BY <1>0 DEF Placed
  <2>2. b \in Numbers
    BY <1>0, MembersLemma
  <2> QED
    BY <1>8, <2>1, <2>2
<1>10. WrittenTo({}) /\ OthersKept({})
  BY <1>1, <1>9 DEF WrittenTo, OthersKept
<1>11. pending' \in [Heads -> Seq(Bytes)]
  BY <1>0, <1>1
<1> QED
  BY <1>4, <1>7, <1>10, <1>11, KeepLemma

\* nr_p_buf_free_chain keeps the other chains.
LEMMA FreeChainKeeps == ASSUME ChainInv, NEW h \in Heads, BufFreeChain(h) PROVE ChainInv'
<1>0. /\ buf \in [Numbers -> Buffers] /\ Placed(held, freeList, chain) /\ pending \in [Heads -> Seq(Bytes)]
      /\ held \in Seq(Numbers) /\ NoRepeats(held) /\ freeList \in Seq(Numbers) /\ NoRepeats(freeList)
      /\ chain \in [Heads -> Seq(Numbers)] /\ \A g \in Heads : NoRepeats(chain[g])
  BY ChainParts
<1>1. PICK c : c = chain[h]
  OBVIOUS
<1>2. /\ freeList' = freeList \o c
      /\ buf' = [b \in DOMAIN buf |-> IF \E n \in DOMAIN c : c[n] = b THEN [buf[b] EXCEPT !.data = Stock.data] ELSE buf[b]]
      /\ chain' = [chain EXCEPT ![h] = <<>>] /\ pending' = [pending EXCEPT ![h] = <<>>] /\ held' = held
  BY <1>1 DEF BufFreeChain
<1>3. c \in Seq(Numbers) /\ NoRepeats(c)
  BY <1>0, <1>1
<1>4. PICK fr : fr = freeList \o c
  OBVIOUS
<1>5. Members(freeList) \cap Members(c) = {} /\ Members(held) \cap Members(c) = {} /\ Members(held) \cap Members(freeList) = {}
  BY <1>0, <1>1 DEF Placed
<1>6. fr \in Seq(Numbers) /\ Members(fr) = Members(freeList) \cup Members(c) /\ NoRepeats(fr)
  BY <1>0, <1>3, <1>4, <1>5, ConcatLemma
<1>7. <<>> \in Seq(Numbers) /\ NoRepeats(<<>>) /\ Members(<<>>) = {} /\ <<>> \in Seq(Bytes)
  BY DEF NoRepeats, Members
<1>8. WellApart(held, fr, <<>>, h)
  <2>1. \A g \in Heads \ {h} : Members(chain[g]) \cap (Members(c) \cup Members(held) \cup Members(freeList)) = {}
    BY <1>0, <1>1, OtherChains
  <2> QED
    BY <1>5, <1>6, <1>7, <2>1 DEF WellApart
<1>9. Placed(held, fr, [chain EXCEPT ![h] = <<>>])
  BY <1>0, <1>6, <1>7, <1>8, PlacedStep
<1>10. Placed(held', freeList', chain')
  BY <1>2, <1>4, <1>9
<1>11. \A b \in Numbers : (\E n \in DOMAIN c : c[n] = b) <=> b \in Members(c)
  <2>1. DOMAIN c = 1..Len(c)
    BY <1>3
  <2> QED
    BY <2>1 DEF Members
<1>12. ASSUME NEW b \in Buffers PROVE [b EXCEPT !.data = Stock.data] \in Buffers
  BY StockLemma DEF Buffers
<1>13. buf' \in [Numbers -> Buffers]
  BY <1>0, <1>2, <1>12
<1>14. \A b \in Numbers : b \notin Members(c) => buf'[b] = buf[b]
  BY <1>0, <1>2, <1>11
<1>15. pending' \in [Heads -> Seq(Bytes)] /\ pending'[h] = <<>> /\ chain'[h] = <<>>
       /\ \A g \in Heads \ {h} : pending'[g] = pending[g] /\ chain'[g] = chain[g]
  BY <1>0, <1>2, <1>7
<1>16. ASSUME NEW g \in Heads \ {h}, NEW b \in Members(chain[g]) PROVE buf'[b] = buf[b]
  <2>1. b \notin Members(c)
    BY <1>0, <1>1, OtherChains
  <2>2. b \in Numbers
    BY <1>0, MembersLemma
  <2> QED
    BY <1>14, <2>1, <2>2
<1>17. OthersKept({h})
  BY <1>15, <1>16 DEF OthersKept
<1>18. WrittenTo({h})
  BY <1>15, HoldsNothing DEF WrittenTo
<1> QED
  BY <1>10, <1>13, <1>15, <1>17, <1>18, KeepLemma

\* The facts of OffsetsAre for one buffer.
AtBuffer(bf, c, p, off, n) ==
    /\ n \in 0..Len(c) /\ n - 1 \in 0..Len(c) /\ off[n] \in Nat /\ off[n - 1] \in Nat /\ off[n] <= Len(p)
    /\ c[n] \in Numbers /\ bf[c[n]].length \in Nat /\ bf[c[n]].r_offset \in Nat
    /\ bf[c[n]].length + bf[c[n]].r_offset <= BufSize /\ bf[c[n]].data \in [1..BufSize -> Bytes]
    /\ bf[c[n]].length >= 1
    /\ off[n] = off[n - 1] + bf[c[n]].length
    /\ \A i \in 1..bf[c[n]].length : p[off[n - 1] + i] = bf[c[n]].data[bf[c[n]].r_offset + i]

\* What the offsets say of the buffer n of a chain.
LEMMA OffsetLemma ==
    ASSUME NEW bf \in [Numbers -> Buffers], NEW c \in Seq(Numbers), NEW p \in Seq(Bytes), NEW off, OffsetsAre(bf, c, p, off),
           NEW n \in 1..Len(c)
    PROVE  AtBuffer(bf, c, p, off, n)
<1>1. Len(c) \in Nat /\ Len(p) \in Nat /\ c[n] \in Numbers
  OBVIOUS
<1>2. n \in 0..Len(c) /\ n - 1 \in 0..Len(c)
  BY <1>1
<1>3. bf[c[n]] \in Buffers
  BY <1>1
<1>4. off \in [0..Len(c) -> 0..Len(p)]
  BY DEF OffsetsAre
<1>5. off[n] \in 0..Len(p) /\ off[n - 1] \in 0..Len(p)
  BY <1>2, <1>4
<1>6. /\ bf[c[n]].length \in Nat /\ bf[c[n]].r_offset \in Nat
      /\ bf[c[n]].length + bf[c[n]].r_offset <= BufSize /\ bf[c[n]].data \in [1..BufSize -> Bytes]
  BY <1>3 DEF Buffers
<1>7. /\ bf[c[n]].length >= 1 /\ off[n] = off[n - 1] + bf[c[n]].length
      /\ \A i \in 1..bf[c[n]].length : p[off[n - 1] + i] = bf[c[n]].data[bf[c[n]].r_offset + i]
  BY DEF OffsetsAre
<1> QED
  BY <1>1, <1>2, <1>5, <1>6, <1>7 DEF AtBuffer

\* A byte is read from the first buffer, which is left without it, or goes when it has no other.
ByteRead(bf, g, c) ==
    /\ g[c[1]].length = bf[c[1]].length - 1 /\ g[c[1]].r_offset = bf[c[1]].r_offset + 1
    /\ \A j \in 1..BufSize : j # bf[c[1]].r_offset + 1 => g[c[1]].data[j] = bf[c[1]].data[j]
    /\ \A n \in 2..Len(c) : g[c[n]] = bf[c[n]]

\* Bytes are left in the first buffer.
LEMMA ReadPart ==
    ASSUME NEW bf \in [Numbers -> Buffers], NEW c \in Seq(Numbers), c # <<>>, NEW p \in Seq(Bytes), p # <<>>, ChainHolds(bf, c, p),
           NEW g, ByteRead(bf, g, c), bf[c[1]].length # 1
    PROVE  ChainHolds(g, c, Tail(p))
<1>1. PICK off : OffsetsAre(bf, c, p, off)
  BY DEF ChainHolds
<1>2. PICK N \in Nat, M \in Nat : N = Len(c) /\ M = Len(p) /\ N >= 1 /\ M >= 1
  OBVIOUS
<1>3. PICK x : x = Tail(p)
  OBVIOUS
<1>4. x \in Seq(Bytes) /\ Len(x) = M - 1 /\ \A i \in 1..(M - 1) : x[i] = p[i + 1]
  BY <1>2, <1>3, RestLemma
<1>5. off[0] = 0 /\ off[N] = M
  BY <1>1, <1>2 DEF OffsetsAre
<1> DEFINE new == [n \in 0..N |-> IF n = 0 THEN 0 ELSE off[n] - 1]
<1>6. \A n \in 1..N : off[n] \in Nat /\ off[n - 1] \in Nat /\ off[n] <= M /\ off[n] >= 1
  <2> SUFFICES ASSUME NEW n \in 1..N PROVE off[n] \in Nat /\ off[n - 1] \in Nat /\ off[n] <= M /\ off[n] >= 1
    OBVIOUS
  <2>1. n \in 1..Len(c)
    BY <1>2
  <2>2. off[n] \in Nat /\ off[n - 1] \in Nat /\ off[n] <= Len(p) /\ bf[c[n]].length \in Nat
        /\ bf[c[n]].length >= 1 /\ off[n] = off[n - 1] + bf[c[n]].length
    BY <1>1, <2>1, OffsetLemma DEF AtBuffer
  <2> QED
    BY <1>2, <2>2
<1>7. new \in [0..N -> 0..(M - 1)] /\ new[0] = 0 /\ new[N] = M - 1 /\ \A n \in 1..N : new[n] = off[n] - 1
  BY <1>2, <1>5, <1>6
<1> HIDE DEF new
<1>8. ASSUME NEW n \in 1..N
      PROVE  /\ g[c[n]].length >= 1
             /\ new[n] = new[n - 1] + g[c[n]].length
             /\ \A i \in 1..g[c[n]].length : x[new[n - 1] + i] = g[c[n]].data[g[c[n]].r_offset + i]
  <2>0. n \in 1..Len(c)
    BY <1>2
  <2>1. /\ off[n] \in Nat /\ off[n - 1] \in Nat /\ off[n] <= Len(p)
        /\ c[n] \in Numbers /\ bf[c[n]].length \in Nat /\ bf[c[n]].r_offset \in Nat
        /\ bf[c[n]].length + bf[c[n]].r_offset <= BufSize /\ bf[c[n]].data \in [1..BufSize -> Bytes]
        /\ bf[c[n]].length >= 1
        /\ off[n] = off[n - 1] + bf[c[n]].length
        /\ \A i \in 1..bf[c[n]].length : p[off[n - 1] + i] = bf[c[n]].data[bf[c[n]].r_offset + i]
    <3>1. AtBuffer(bf, c, p, off, n)
      BY <1>1, <2>0, OffsetLemma
    <3> QED
      BY <3>1 DEF AtBuffer
  <2>21. PICK l \in Nat, r \in Nat, o \in Nat : l = bf[c[n]].length /\ r = bf[c[n]].r_offset /\ o = off[n - 1]
    BY <2>1
  <2>22. PICK d : d = bf[c[n]].data
    OBVIOUS
  <2>2. l = bf[c[n]].length /\ r = bf[c[n]].r_offset /\ d = bf[c[n]].data /\ o = off[n - 1]
    BY <2>21, <2>22
  <2>3. l >= 1 /\ off[n] = o + l /\ o + l <= M /\ l + r <= BufSize /\ \A i \in 1..l : p[o + i] = d[r + i]
    BY <1>2, <2>1, <2>2
  <2>30. BufSize \in Nat
    BY ContainersAssumption
  <2>4. CASE n = 1
    <3>1. /\ g[c[n]].length = l - 1 /\ g[c[n]].r_offset = r + 1
          /\ \A j \in 1..BufSize : j # r + 1 => g[c[n]].data[j] = d[j]
      BY <2>2, <2>4 DEF ByteRead
    <3>0. PICK e : e = g[c[n]].data
      OBVIOUS
    <3>2. PICK k \in Nat, s \in Nat : k = g[c[n]].length /\ s = g[c[n]].r_offset
      <4>1. l >= 1
        BY <2>3
      <4>2. l - 1 \in Nat /\ r + 1 \in Nat
        BY <4>1
      <4>3. g[c[n]].length = l - 1 /\ g[c[n]].r_offset = r + 1
        BY <3>1
      <4> QED
        BY <4>2, <4>3
    <3>3. k = l - 1 /\ s = r + 1 /\ \A j \in 1..BufSize : j # r + 1 => e[j] = d[j]
      BY <3>0, <3>1, <3>2
    <3>4. o = 0 /\ new[n - 1] = 0 /\ new[n] = l - 1
      BY <1>5, <1>7, <2>2, <2>3, <2>4
    <3>5. k >= 1
      BY <2>2, <2>3, <2>4, <3>3
    <3>6. ASSUME NEW i \in 1..k PROVE x[0 + i] = e[s + i]
      <4>1. /\ i \in 1..(M - 1) /\ i + 1 \in 1..l /\ s + i \in 1..BufSize /\ s + i # r + 1 /\ s + i = r + (i + 1)
            /\ o + (i + 1) = i + 1 /\ 0 + i = i
        BY <1>2, <2>30, <2>3, <3>3, <3>4
      <4>2. x[i] = p[i + 1]
        BY <1>4, <4>1
      <4>3. p[o + (i + 1)] = d[r + (i + 1)]
        BY <2>3, <4>1
      <4>4. e[s + i] = d[s + i]
        BY <3>3, <4>1
      <4> QED
        BY <4>1, <4>2, <4>3, <4>4
    <3>7. l - 1 = 0 + k
      BY <3>3
    <3>8. \A i \in 1..k : x[0 + i] = e[s + i]
      BY <3>6
    <3> QED
      BY <3>0, <3>2, <3>4, <3>5, <3>7, <3>8
  <2>5. CASE n # 1
    <3>1. n \in 2..Len(c) /\ n - 1 \in 1..N
      BY <1>2, <2>5
    <3>2. g[c[n]] = bf[c[n]]
      BY <3>1 DEF ByteRead
    <3>3. new[n - 1] = o - 1 /\ new[n] = (o - 1) + l /\ o >= 1
      <4>1. off[n - 1] >= 1
        BY <1>6, <3>1
      <4>2. new[n - 1] = off[n - 1] - 1 /\ new[n] = off[n] - 1
        BY <1>7, <3>1
      <4>3. off[n - 1] = o /\ off[n] = o + l
        BY <2>2, <2>3
      <4>4. (o + l) - 1 = (o - 1) + l
        OBVIOUS
      <4> QED
        BY <4>1, <4>2, <4>3, <4>4
    <3>4. ASSUME NEW i \in 1..l PROVE x[(o - 1) + i] = d[r + i]
      <4>1. (o - 1) + i \in 1..(M - 1) /\ ((o - 1) + i) + 1 = o + i
        BY <1>2, <2>3, <3>3
      <4>2. x[(o - 1) + i] = p[((o - 1) + i) + 1]
        BY <1>4, <4>1
      <4> QED
        BY <2>3, <4>1, <4>2
    <3> QED
      BY <2>2, <2>3, <3>2, <3>3, <3>4
  <2> QED
    BY <2>4, <2>5
<1>9. OffsetsAre(g, c, x, new)
  BY <1>2, <1>4, <1>7, <1>8 DEF OffsetsAre
<1> QED
  BY <1>3, <1>4, <1>9 DEF ChainHolds

\* The first buffer is empty now and goes.
LEMMA ReadLast ==
    ASSUME NEW bf \in [Numbers -> Buffers], NEW c \in Seq(Numbers), c # <<>>, NEW p \in Seq(Bytes), p # <<>>, ChainHolds(bf, c, p),
           NEW g, ByteRead(bf, g, c), bf[c[1]].length = 1
    PROVE  ChainHolds(g, Tail(c), Tail(p))
<1>1. PICK off : OffsetsAre(bf, c, p, off)
  BY DEF ChainHolds
<1>2. PICK N \in Nat, M \in Nat : N = Len(c) /\ M = Len(p) /\ N >= 1 /\ M >= 1
  OBVIOUS
<1>3. PICK x, z : x = Tail(p) /\ z = Tail(c)
  OBVIOUS
<1>4. x \in Seq(Bytes) /\ Len(x) = M - 1 /\ \A i \in 1..(M - 1) : x[i] = p[i + 1]
  BY <1>2, <1>3, RestLemma
<1>41. z \in Seq(Numbers) /\ Len(z) = N - 1 /\ \A i \in 1..(N - 1) : z[i] = c[i + 1]
  BY <1>2, <1>3, RestLemma
<1>5. off[0] = 0 /\ off[N] = M
  BY <1>1, <1>2 DEF OffsetsAre
<1>51. off[1] = 1
  <2>1. 1 \in 1..Len(c) /\ 1 - 1 = 0
    BY <1>2
  <2>2. off[1] = off[1 - 1] + bf[c[1]].length
    BY <1>1, <2>1, OffsetLemma DEF AtBuffer
  <2> QED
    BY <1>5, <2>1, <2>2
<1> DEFINE new == [n \in 0..(N - 1) |-> off[n + 1] - 1]
<1>6. \A n \in 1..N : off[n] \in Nat /\ off[n - 1] \in Nat /\ off[n] <= M /\ off[n] >= 1
  <2> SUFFICES ASSUME NEW n \in 1..N PROVE off[n] \in Nat /\ off[n - 1] \in Nat /\ off[n] <= M /\ off[n] >= 1
    OBVIOUS
  <2>1. n \in 1..Len(c)
    BY <1>2
  <2>2. off[n] \in Nat /\ off[n - 1] \in Nat /\ off[n] <= Len(p) /\ bf[c[n]].length \in Nat
        /\ bf[c[n]].length >= 1 /\ off[n] = off[n - 1] + bf[c[n]].length
    BY <1>1, <2>1, OffsetLemma DEF AtBuffer
  <2> QED
    BY <1>2, <2>2
<1>7. new \in [0..(N - 1) -> 0..(M - 1)] /\ new[0] = 0 /\ new[N - 1] = M - 1 /\ \A n \in 0..(N - 1) : new[n] = off[n + 1] - 1
  <2>1. \A n \in 0..(N - 1) : n + 1 \in 1..N /\ off[n + 1] - 1 \in 0..(M - 1)
    BY <1>2, <1>6
  <2>2. N - 1 \in 0..(N - 1) /\ 0 \in 0..(N - 1) /\ (N - 1) + 1 = N /\ 0 + 1 = 1 /\ 1 - 1 = 0
    BY <1>2
  <2> QED
    BY <1>5, <1>51, <2>1, <2>2
<1> HIDE DEF new
<1>8. ASSUME NEW n \in 1..(N - 1)
      PROVE  /\ g[z[n]].length >= 1
             /\ new[n] = new[n - 1] + g[z[n]].length
             /\ \A i \in 1..g[z[n]].length : x[new[n - 1] + i] = g[z[n]].data[g[z[n]].r_offset + i]
  <2>0. PICK k \in 1..Len(c) : k = n + 1 /\ n = k - 1 /\ k \in 2..Len(c)
    BY <1>2
  <2>1. /\ off[k] \in Nat /\ off[k - 1] \in Nat /\ off[k] <= Len(p)
        /\ c[k] \in Numbers /\ bf[c[k]].length \in Nat /\ bf[c[k]].r_offset \in Nat
        /\ bf[c[k]].length >= 1
        /\ off[k] = off[k - 1] + bf[c[k]].length
        /\ \A i \in 1..bf[c[k]].length : p[off[k - 1] + i] = bf[c[k]].data[bf[c[k]].r_offset + i]
    <3>1. AtBuffer(bf, c, p, off, k)
      BY <1>1, OffsetLemma
    <3> QED
      BY <3>1 DEF AtBuffer
  <2>21. PICK l \in Nat, r \in Nat, o \in Nat : l = bf[c[k]].length /\ r = bf[c[k]].r_offset /\ o = off[n]
    BY <2>0, <2>1
  <2>22. PICK d : d = bf[c[k]].data
    OBVIOUS
  <2>2. l = bf[c[k]].length /\ r = bf[c[k]].r_offset /\ d = bf[c[k]].data /\ o = off[n]
    BY <2>21, <2>22
  <2>3. l >= 1 /\ off[n + 1] = o + l /\ o + l <= M /\ \A i \in 1..l : p[o + i] = d[r + i]
    BY <1>2, <2>0, <2>1, <2>2
  <2>4. g[z[n]] = bf[c[k]]
    <3>1. z[n] = c[k]
      BY <1>41, <2>0
    <3> QED
      BY <2>0, <3>1 DEF ByteRead
  <2>5. o >= 1 /\ new[n - 1] = o - 1 /\ new[n] = (o - 1) + l
    <3>1. n \in 1..N /\ n - 1 \in 0..(N - 1) /\ n \in 0..(N - 1) /\ (n - 1) + 1 = n
      BY <1>2
    <3>2. new[n - 1] = off[n] - 1 /\ new[n] = off[n + 1] - 1
      BY <1>7, <3>1
    <3> QED
      <4>1. off[n] >= 1
        BY <1>6, <3>1
      <4>3. off[n] = o /\ off[n + 1] = o + l
        BY <2>2, <2>3
      <4>4. (o + l) - 1 = (o - 1) + l
        OBVIOUS
      <4> QED
        BY <3>2, <4>1, <4>3, <4>4
  <2>6. ASSUME NEW i \in 1..l PROVE x[(o - 1) + i] = d[r + i]
    <3>1. (o - 1) + i \in 1..(M - 1) /\ ((o - 1) + i) + 1 = o + i
      BY <1>2, <2>3, <2>5
    <3>2. x[(o - 1) + i] = p[((o - 1) + i) + 1]
      BY <1>4, <3>1
    <3> QED
      BY <2>3, <3>1, <3>2
  <2> QED
    BY <2>2, <2>3, <2>4, <2>5, <2>6
<1>9. OffsetsAre(g, z, x, new)
  <2>1. Len(z) = N - 1 /\ Len(x) = M - 1
    BY <1>4, <1>41
  <2> QED
    BY <1>7, <1>8, <2>1 DEF OffsetsAre
<1> QED
  BY <1>3, <1>4, <1>9 DEF ChainHolds

\* A chain with bytes has a buffer, and the first one has one of them.
LEMMA FirstBuffer ==
    ASSUME NEW bf \in [Numbers -> Buffers], NEW c \in Seq(Numbers), NEW p \in Seq(Bytes), p # <<>>, ChainHolds(bf, c, p)
    PROVE  c # <<>> /\ Head(c) = c[1] /\ c[1] \in Members(c) /\ c[1] \in Numbers /\ bf[c[1]].length >= 1
<1>1. PICK off : OffsetsAre(bf, c, p, off)
  BY DEF ChainHolds
<1>2. Len(p) \in Nat /\ Len(p) # 0
  OBVIOUS
<1>3. off[0] = 0 /\ off[Len(c)] = Len(p)
  BY <1>1 DEF OffsetsAre
<1>4. Len(c) # 0 /\ Len(c) \in Nat
  BY <1>2, <1>3
<1>5. c # <<>> /\ 1 \in 1..Len(c) /\ Head(c) = c[1] /\ c[1] \in Numbers
  BY <1>4
<1>6. AtBuffer(bf, c, p, off, 1)
  BY <1>1, <1>5, OffsetLemma
<1> QED
  BY <1>5, <1>6 DEF AtBuffer, Members

\* Reading a byte keeps the chains.
LEMMA ReadKeeps == ASSUME ChainInv, NEW h \in Heads, BufRead(h) PROVE ChainInv'
<1>0. /\ buf \in [Numbers -> Buffers] /\ Placed(held, freeList, chain) /\ pending \in [Heads -> Seq(Bytes)]
      /\ held \in Seq(Numbers) /\ NoRepeats(held) /\ freeList \in Seq(Numbers) /\ NoRepeats(freeList)
      /\ chain \in [Heads -> Seq(Numbers)] /\ \A g \in Heads : NoRepeats(chain[g])
      /\ \A g \in Heads : ChainHolds(buf, chain[g], pending[g])
  BY ChainParts
<1>1. PICK c \in Seq(Numbers), p \in Seq(Bytes) : c = chain[h] /\ p = pending[h]
  BY <1>0
<1>2. p # <<>> /\ ChainHolds(buf, c, p) /\ NoRepeats(c)
  BY <1>0, <1>1 DEF BufRead
<1>3. c # <<>> /\ Head(c) = c[1] /\ c[1] \in Members(c) /\ c[1] \in Numbers /\ buf[c[1]].length >= 1
  BY <1>0, <1>2, FirstBuffer
<1>4. PICK b \in Numbers : b = c[1]
  BY <1>3
<1>5. PICK u \in Buffers : u = buf[b]
  BY <1>0
<1>6. /\ u.length \in Nat /\ u.r_offset \in Nat /\ u.length + u.r_offset <= BufSize
      /\ u.data \in [1..BufSize -> Bytes] /\ u.length >= 1
  BY <1>3, <1>4, <1>5 DEF Buffers
<1>7. PICK at \in 1..BufSize : at = u.r_offset + 1
  <2>1. BufSize \in Nat
    BY ContainersAssumption
  <2> QED
    BY <1>6, <2>1
<1>8. PICK v : v = [data |-> [u.data EXCEPT ![at] = NOBYTE], r_offset |-> at, length |-> u.length - 1]
  OBVIOUS
<1>9. /\ buf' = [buf EXCEPT ![b] = v] /\ pending' = [pending EXCEPT ![h] = Tail(p)] /\ held' = held
      /\ IF u.length = 1 THEN chain' = [chain EXCEPT ![h] = Tail(c)] /\ freeList' = Append(freeList, b)
                         ELSE chain' = chain /\ freeList' = freeList
  BY <1>0, <1>1, <1>3, <1>4, <1>5, <1>7, <1>8 DEF BufRead
<1>10. v \in Buffers
  <2>1. PICK d : d = [u.data EXCEPT ![at] = NOBYTE]
    OBVIOUS
  <2>2. d \in [1..BufSize -> Bytes]
    BY <1>6, <2>1 DEF NOBYTE, Bytes
  <2>3. at \in Nat /\ u.length - 1 \in Nat /\ (u.length - 1) + at <= BufSize
    <3>1. PICK l \in Nat, r \in Nat : l = u.length /\ r = u.r_offset
      BY <1>6
    <3>2. l >= 1 /\ l + r <= BufSize /\ at = r + 1 /\ BufSize \in Nat
      BY <1>6, <1>7, <3>1, ContainersAssumption
    <3>3. at \in Nat /\ l - 1 \in Nat /\ (l - 1) + at <= BufSize
      BY <3>2
    <3> QED
      BY <3>1, <3>3
  <2>4. v = [data |-> d, r_offset |-> at, length |-> u.length - 1]
    BY <1>8, <2>1
  <2> QED
    BY <2>2, <2>3, <2>4 DEF Buffers
<1>11. buf' \in [Numbers -> Buffers] /\ buf'[b] = v /\ \A a \in Numbers \ {b} : buf'[a] = buf[a]
  BY <1>0, <1>9, <1>10
<1>12. ByteRead(buf, buf', c)
  <2>1. v.length = u.length - 1 /\ v.r_offset = u.r_offset + 1
    BY <1>7, <1>8
  <2>2. \A j \in 1..BufSize : j # u.r_offset + 1 => v.data[j] = u.data[j]
    BY <1>6, <1>7, <1>8
  <2>3. ASSUME NEW n \in 2..Len(c) PROVE buf'[c[n]] = buf[c[n]]
    <3>1. n \in 1..Len(c) /\ 1 \in 1..Len(c) /\ n # 1
      OBVIOUS
    <3>2. c[n] # c[1] /\ c[n] \in Numbers
      BY <1>2, <3>1 DEF NoRepeats
    <3> QED
      BY <1>4, <1>11, <3>2
  <2> QED
    BY <1>4, <1>5, <1>11, <2>1, <2>2, <2>3 DEF ByteRead
<1>13. Tail(p) \in Seq(Bytes)
  BY <1>2, RestLemma
<1>14. pending' \in [Heads -> Seq(Bytes)] /\ pending'[h] = Tail(p) /\ \A g \in Heads \ {h} : pending'[g] = pending[g]
  BY <1>0, <1>9, <1>13
<1>15. ASSUME NEW g \in Heads \ {h}, NEW a \in Members(chain[g]) PROVE buf'[a] = buf[a]
  <2>1. a \notin Members(c)
    BY <1>0, <1>1, OtherChains
  <2>2. a \in Numbers
    BY <1>0, MembersLemma
  <2> QED
    BY <1>3, <1>4, <1>11, <2>1, <2>2
<1>16. CASE u.length = 1
  <2>1. chain' = [chain EXCEPT ![h] = Tail(c)] /\ freeList' = Append(freeList, b)
    BY <1>9, <1>16
  <2>2. PICK z, fr : z = Tail(c) /\ fr = Append(freeList, b)
    OBVIOUS
  <2>3. z \in Seq(Numbers) /\ Members(z) = Members(c) \ {b} /\ NoRepeats(z)
    BY <1>2, <1>3, <1>4, <2>2, TailLemma
  <2>4. Members(freeList) \cap Members(c) = {} /\ Members(held) \cap Members(c) = {} /\ Members(held) \cap Members(freeList) = {}
    BY <1>0, <1>1 DEF Placed
  <2>5. fr \in Seq(Numbers) /\ Members(fr) = Members(freeList) \cup {b} /\ NoRepeats(fr)
    BY <1>0, <1>3, <1>4, <2>2, <2>4, AppendLemma
  <2>6. WellApart(held, fr, z, h)
    <3>1. \A g \in Heads \ {h} : Members(chain[g]) \cap (Members(c) \cup Members(held) \cup Members(freeList)) = {}
      BY <1>0, <1>1, OtherChains
    <3>2. b \in Members(c)
      BY <1>3, <1>4
    <3> QED
      BY <2>3, <2>4, <2>5, <3>1, <3>2 DEF WellApart
  <2>7. Placed(held, fr, [chain EXCEPT ![h] = z])
    BY <1>0, <2>3, <2>5, <2>6, PlacedStep
  <2>8. Placed(held', freeList', chain')
    BY <1>9, <2>1, <2>2, <2>7
  <2>9. chain'[h] = z /\ \A g \in Heads \ {h} : chain'[g] = chain[g]
    BY <1>0, <2>1, <2>2
  <2>10. ChainHolds(buf', z, Tail(p))
    BY <1>0, <1>2, <1>3, <1>4, <1>5, <1>12, <1>16, <2>2, ReadLast
  <2>11. WrittenTo({h})
    BY <1>14, <2>9, <2>10 DEF WrittenTo
  <2>12. OthersKept({h})
    BY <1>14, <1>15, <2>9 DEF OthersKept
  <2> QED
    BY <1>11, <1>14, <2>8, <2>11, <2>12, KeepLemma
<1>17. CASE u.length # 1
  <2>1. chain' = chain /\ freeList' = freeList
    BY <1>9, <1>17
  <2>2. Placed(held', freeList', chain')
    BY <1>0, <1>9, <2>1
  <2>3. ChainHolds(buf', c, Tail(p))
    BY <1>0, <1>2, <1>3, <1>4, <1>5, <1>12, <1>17, ReadPart
  <2>4. WrittenTo({h})
    BY <1>1, <1>14, <2>1, <2>3 DEF WrittenTo
  <2>5. OthersKept({h})
    BY <1>14, <1>15, <2>1 DEF OthersKept
  <2> QED
    BY <1>11, <1>14, <2>2, <2>4, <2>5, KeepLemma
<1> QED
  BY <1>16, <1>17

\* The last buffer of c gets the first k bytes of x behind its own; those before it stay.
Grown(bf, g, c, x, k) ==
    /\ \A n \in 1..(Len(c) - 1) : g[c[n]] = bf[c[n]]
    /\ c = <<>> => k = 0
    /\ c # <<>> =>
          /\ g[c[Len(c)]].length = bf[c[Len(c)]].length + k
          /\ g[c[Len(c)]].r_offset = bf[c[Len(c)]].r_offset
          /\ \A i \in 1..bf[c[Len(c)]].length : g[c[Len(c)]].data[bf[c[Len(c)]].r_offset + i] = bf[c[Len(c)]].data[bf[c[Len(c)]].r_offset + i]
          /\ \A i \in 1..k : g[c[Len(c)]].data[(bf[c[Len(c)]].r_offset + bf[c[Len(c)]].length) + i] = x[i]
\* The buffer j of z gets the bytes of x from e[j - 1] to e[j].
Begun(g, z, x, e) ==
    \A j \in 1..Len(z) :
        /\ e[j - 1] < e[j]
        /\ g[z[j]].length = e[j] - e[j - 1] /\ g[z[j]].r_offset = 0
        /\ \A i \in 1..(e[j] - e[j - 1]) : g[z[j]].data[i] = x[e[j - 1] + i]

\* What was written is behind what was there.
LEMMA WriteLemma ==
    ASSUME NEW bf \in [Numbers -> Buffers], NEW c \in Seq(Numbers), NEW p \in Seq(Bytes), ChainHolds(bf, c, p),
           NEW g, NEW z \in Seq(Numbers), NEW x \in Seq(Bytes), NEW e \in [0..Len(z) -> 0..Len(x)], e[Len(z)] = Len(x),
           Grown(bf, g, c, x, e[0]), Begun(g, z, x, e)
    PROVE  ChainHolds(g, c \o z, p \o x)
<1>1. PICK off : OffsetsAre(bf, c, p, off)
  BY DEF ChainHolds
<1>2. PICK L \in Nat, K \in Nat, M \in Nat, X \in Nat : L = Len(c) /\ K = Len(z) /\ M = Len(p) /\ X = Len(x)
  OBVIOUS
<1>3. PICK y, q : y = c \o z /\ q = p \o x
  OBVIOUS
<1>4. y \in Seq(Numbers) /\ Len(y) = L + K /\ (\A i \in 1..L : y[i] = c[i]) /\ \A i \in 1..K : y[L + i] = z[i]
  <2>1. y \in Seq(Numbers) /\ IsJoin(y, c, z)
    BY <1>3, JoinedLemma
  <2> QED
    BY <1>2, <2>1 DEF IsJoin
<1>5. q \in Seq(Bytes) /\ Len(q) = M + X /\ (\A i \in 1..M : q[i] = p[i]) /\ \A i \in 1..X : q[M + i] = x[i]
  <2>1. q \in Seq(Bytes) /\ IsJoin(q, p, x)
    BY <1>3, JoinedLemma
  <2> QED
    BY <1>2, <2>1 DEF IsJoin
<1>6. off \in [0..L -> 0..M] /\ off[0] = 0 /\ off[L] = M
  BY <1>1, <1>2 DEF OffsetsAre
<1>7. e \in [0..K -> 0..X] /\ e[K] = X /\ \A j \in 0..K : e[j] \in Nat /\ e[j] <= X
  <2>1. e \in [0..K -> 0..X] /\ e[K] = X
    BY <1>2
  <2> QED
    BY <2>1
<1>8. c = <<>> <=> L = 0
  BY <1>2
<1> DEFINE new == [n \in 0..(L + K) |-> IF n < L THEN off[n] ELSE M + e[n - L]]
<1>9. new \in [0..(L + K) -> 0..(M + X)]
  <2> SUFFICES ASSUME NEW n \in 0..(L + K) PROVE (IF n < L THEN off[n] ELSE M + e[n - L]) \in 0..(M + X)
    OBVIOUS
  <2>1. CASE n < L
    <3>1. n \in 0..L
      BY <2>1
    <3>2. off[n] \in 0..M
      BY <1>6, <3>1
    <3> QED
      BY <2>1, <3>2
  <2>2. CASE ~(n < L)
    <3>1. n - L \in 0..K
      BY <2>2
    <3>2. e[n - L] \in Nat /\ e[n - L] <= X
      BY <1>7, <3>1
    <3> QED
      BY <2>2, <3>2
  <2> QED
    BY <2>1, <2>2
<1>10. /\ \A n \in 0..(L + K) : n < L => new[n] = off[n]
       /\ \A j \in 0..K : new[L + j] = M + e[j]
  <2>1. ASSUME NEW j \in 0..K PROVE new[L + j] = M + e[j]
    <3>1. L + j \in 0..(L + K) /\ ~(L + j < L) /\ (L + j) - L = j
      OBVIOUS
    <3> QED
      BY <3>1
  <2> QED
    BY <2>1
<1> HIDE DEF new
<1>11. new[0] = 0
  <2>1. CASE L = 0
    <3>1. e[0] = 0 /\ M = 0 /\ L + 0 = 0 /\ 0 \in 0..K
      BY <1>6, <1>8, <2>1 DEF Grown
    <3>2. new[L + 0] = M + e[0]
      BY <1>10, <3>1
    <3> QED
      BY <3>1, <3>2
  <2>2. CASE L # 0
    <3>1. 0 \in 0..(L + K) /\ 0 < L
      BY <2>2
    <3> QED
      BY <1>6, <1>10, <3>1
  <2> QED
    BY <2>1, <2>2
<1>12. new[L + K] = M + X
  <2>1. K \in 0..K
    OBVIOUS
  <2> QED
    BY <1>7, <1>10, <2>1
<1>13. ASSUME NEW n \in 1..(L + K)
       PROVE  /\ g[y[n]].length >= 1
              /\ new[n] = new[n - 1] + g[y[n]].length
              /\ \A i \in 1..g[y[n]].length : q[new[n - 1] + i] = g[y[n]].data[g[y[n]].r_offset + i]
  <2>1. CASE n <= L
    <3>1. n \in 1..Len(c) /\ n \in 1..L /\ n - 1 \in 0..(L + K) /\ n - 1 < L /\ n \in 0..(L + K)
      BY <1>2, <2>1
    <3>2. AtBuffer(bf, c, p, off, n)
      BY <1>1, <3>1, OffsetLemma
    <3>3. y[n] = c[n] /\ new[n - 1] = off[n - 1]
      BY <1>4, <1>10, <3>1
    <3>4. PICK l \in Nat, r \in Nat, o \in Nat : l = bf[c[n]].length /\ r = bf[c[n]].r_offset /\ o = off[n - 1]
      BY <3>2 DEF AtBuffer
    <3>5. PICK d : d = bf[c[n]].data
      OBVIOUS
    <3>6. l >= 1 /\ off[n] = o + l /\ o + l <= M /\ \A i \in 1..l : p[o + i] = d[r + i]
      BY <1>2, <3>2, <3>4, <3>5 DEF AtBuffer
    <3>7. ASSUME NEW i \in 1..l PROVE q[o + i] = d[r + i]
      <4>1. o + i \in 1..M
        BY <3>6
      <4> QED
        BY <1>5, <3>6, <4>1
    <3>8. CASE n < L
      <4>1. n \in 1..(Len(c) - 1)
        BY <1>2, <3>1, <3>8
      <4>2. g[c[n]] = bf[c[n]]
        BY <4>1 DEF Grown
      <4>3. new[n] = off[n]
        BY <1>10, <3>1, <3>8
      <4> QED
        BY <3>3, <3>4, <3>5, <3>6, <3>7, <4>2, <4>3
    <3>9. CASE n = L
      <4>1. PICK k \in Nat : k = e[0] /\ k <= X
        <5>1. 0 \in 0..K
          OBVIOUS
        <5> QED
          BY <1>7, <5>1
      <4>2. new[n] = M + k
        <5>1. 0 \in 0..K /\ L + 0 = n
          BY <3>9
        <5>2. new[L + 0] = M + e[0]
          BY <1>10, <5>1
        <5> QED
          BY <4>1, <5>1, <5>2
      <4>3. M = o + l
        BY <1>6, <3>6, <3>9
      <4>4. c # <<>> /\ n = Len(c)
        BY <1>2, <1>8, <3>1, <3>9
      <4>5. /\ g[c[n]].length = l + k /\ g[c[n]].r_offset = r
            /\ \A i \in 1..l : g[c[n]].data[r + i] = d[r + i]
            /\ \A i \in 1..k : g[c[n]].data[(r + l) + i] = x[i]
        BY <3>4, <3>5, <4>1, <4>4 DEF Grown
      <4>6. PICK f : f = g[c[n]].data
        OBVIOUS
      <4>7. ASSUME NEW i \in 1..(l + k) PROVE q[o + i] = f[r + i]
        <5>1. CASE i <= l
          <6>1. i \in 1..l
            BY <5>1
          <6>2. f[r + i] = d[r + i]
            BY <4>5, <4>6, <6>1
          <6> QED
            BY <3>7, <6>1, <6>2
        <5>2. CASE ~(i <= l)
          <6>1. PICK m \in 1..k : i = l + m
            <7>1. i - l \in 1..k /\ i = l + (i - l)
              BY <5>2
            <7> QED
              BY <7>1
          <6>2. m \in 1..X /\ o + i = M + m /\ r + i = (r + l) + m
            BY <4>1, <4>3, <6>1
          <6>3. q[M + m] = x[m]
            BY <1>5, <6>2
          <6>4. f[(r + l) + m] = x[m]
            BY <4>5, <4>6, <6>1
          <6> QED
            BY <6>2, <6>3, <6>4
        <5> QED
          BY <5>1, <5>2
      <4>8. new[n] = o + (l + k) /\ l + k >= 1
        BY <3>6, <4>2, <4>3
      <4> QED
        BY <3>3, <3>4, <4>5, <4>6, <4>7, <4>8
    <3> QED
      BY <2>1, <3>8, <3>9
  <2>2. CASE ~(n <= L)
    <3>1. PICK j \in 1..K : n = L + j
      <4>1. n - L \in 1..K /\ n = L + (n - L)
        BY <2>2
      <4> QED
        BY <4>1
    <3>2. j - 1 \in 0..K /\ j \in 0..K /\ n - 1 = L + (j - 1) /\ j \in 1..Len(z)
      BY <1>2, <3>1
    <3>3. PICK a \in Nat, b \in Nat : a = e[j - 1] /\ b = e[j] /\ b <= X
      BY <1>7, <3>2
    <3>4. y[n] = z[j] /\ new[n] = M + b /\ new[n - 1] = M + a
      <4>1. new[L + (j - 1)] = M + e[j - 1] /\ new[L + j] = M + e[j]
        BY <1>10, <3>2
      <4> QED
        BY <1>4, <3>1, <3>2, <3>3, <4>1
    <3>5. /\ a < b /\ g[z[j]].length = b - a /\ g[z[j]].r_offset = 0
          /\ \A i \in 1..(b - a) : g[z[j]].data[i] = x[a + i]
      <4>1. /\ e[j - 1] < e[j]
            /\ g[z[j]].length = e[j] - e[j - 1] /\ g[z[j]].r_offset = 0
            /\ \A i \in 1..(e[j] - e[j - 1]) : g[z[j]].data[i] = x[e[j - 1] + i]
        BY <3>2 DEF Begun
      <4> QED
        BY <3>3, <4>1
    <3>6. PICK f : f = g[z[j]].data
      OBVIOUS
    <3>8. a < b /\ b <= X
      BY <3>3, <3>5
    <3>9. b - a >= 1 /\ M + b = (M + a) + (b - a)
      BY <3>8
    <3>7. ASSUME NEW i \in 1..(b - a) PROVE q[(M + a) + i] = f[0 + i]
      <4>1. a + i \in 1..X /\ (M + a) + i = M + (a + i) /\ 0 + i = i
        BY <3>8
      <4>2. q[M + (a + i)] = x[a + i]
        BY <1>5, <4>1
      <4> QED
        BY <3>5, <3>6, <4>1, <4>2
    <3> QED
      BY <3>4, <3>5, <3>6, <3>7, <3>9
  <2> QED
    BY <2>1, <2>2
<1>14. OffsetsAre(g, y, q, new)
  BY <1>4, <1>5, <1>9, <1>11, <1>12, <1>13 DEF OffsetsAre
<1> QED
  BY <1>3, <1>5, <1>14 DEF ChainHolds

\* As many buffers as are needed: the last of them gets something.
LEMMA RoundLemma ==
    ASSUME NEW a \in Nat, NEW B \in Nat \ {0}, NEW j \in Nat, j >= 1, j <= (a + B - 1) \div B
    PROVE  (j - 1) * B < a
<1>1. PICK q \in Int : q = (a + B - 1) \div B
  OBVIOUS
<1>2. q * B <= a + B - 1
  BY <1>1
<1>3. j * B <= q * B
  BY <1>1
<1>4. (j - 1) * B = j * B - B
  OBVIOUS
<1>5. j * B \in Int /\ q * B \in Int
  BY <1>1
<1> QED
  BY <1>2, <1>3, <1>4, <1>5

\* Multiplication by the size of a buffer is monotonic.
LEMMA TimesLemma ==
    ASSUME NEW B \in Nat \ {0}, NEW j \in Nat, NEW k \in Nat, j <= k
    PROVE  j * B <= k * B /\ j * B \in Nat /\ k * B \in Nat
OBVIOUS

\* How much of the bytes the first j of the new buffers hold, with what the last old one took.
Edge(len, here, j) == Lesser(len, here + j * BufSize)

\* Every new buffer gets a byte at least and not more than it has room for.
LEMMA EdgeLemma ==
    ASSUME NEW len \in Nat, NEW here \in 0..len, NEW got \in Nat, got <= (len - here + BufSize - 1) \div BufSize
    PROVE  /\ \A j \in 0..got : /\ Edge(len, here, j) \in 0..len
                                /\ Edge(len, here, j) <= Edge(len, here, got)
           /\ Edge(len, here, 0) = here
           /\ \A j \in 1..got : /\ Edge(len, here, j - 1) = here + (j - 1) * BufSize
                                /\ Edge(len, here, j - 1) < Edge(len, here, j)
                                /\ Edge(len, here, j) - Edge(len, here, j - 1) <= BufSize
<1>0. BufSize \in Nat \ {0} /\ here \in Nat /\ here <= len
  BY ContainersAssumption
<1>1. PICK B \in Nat \ {0} : B = BufSize
  BY <1>0
<1>2. ASSUME NEW j \in 0..got
      PROVE  /\ Edge(len, here, j) \in 0..len
             /\ Edge(len, here, j) <= Edge(len, here, got)
  <2>1. j \in Nat /\ j <= got
    OBVIOUS
  <2>2. j * B <= got * B /\ j * B \in Nat /\ got * B \in Nat
    BY <2>1, TimesLemma
  <2>3. PICK s \in Nat, t \in Nat : s = j * B /\ t = got * B /\ s <= t
    BY <2>2
  <2>4. Edge(len, here, j) = Lesser(len, here + s) /\ Edge(len, here, got) = Lesser(len, here + t)
    BY <1>1, <2>3 DEF Edge
  <2> QED
    BY <1>0, <2>3, <2>4 DEF Lesser
<1>3. Edge(len, here, 0) = here
  <2>1. 0 * B = 0
    OBVIOUS
  <2> QED
    BY <1>0, <1>1, <2>1 DEF Edge, Lesser
<1>4. ASSUME NEW j \in 1..got
      PROVE  /\ Edge(len, here, j - 1) = here + (j - 1) * BufSize
             /\ Edge(len, here, j - 1) < Edge(len, here, j)
             /\ Edge(len, here, j) - Edge(len, here, j - 1) <= BufSize
  <2>1. PICK a \in Nat : a = len - here
    BY <1>0
  <2>2. PICK q \in Int : q = (a + B - 1) \div B /\ got <= q
    BY <1>1, <2>1
  <2>3. j \in Nat /\ j >= 1 /\ j <= (a + B - 1) \div B
    BY <2>2
  <2>4. (j - 1) * B < a
    BY <2>3, RoundLemma
  <2>5. j * B = (j - 1) * B + B
    OBVIOUS
  <2>6. j - 1 \in Nat /\ (j - 1) * B \in Nat
    OBVIOUS
  <2>7. PICK s \in Nat : s = (j - 1) * B
    BY <2>6
  <2>8. here + s < len /\ j * B = s + B
    BY <1>0, <2>1, <2>4, <2>5, <2>7
  <2>9. Edge(len, here, j - 1) = Lesser(len, here + s) /\ Edge(len, here, j) = Lesser(len, here + (s + B))
    BY <1>1, <2>7, <2>8 DEF Edge
  <2>10. Lesser(len, here + s) = here + s
    BY <1>0, <2>8 DEF Lesser
  <2>11. here + s < Lesser(len, here + (s + B)) /\ Lesser(len, here + (s + B)) - (here + s) <= B
    BY <1>0, <2>8 DEF Lesser
  <2> QED
    BY <1>1, <2>7, <2>9, <2>10, <2>11
<1> QED
  BY <1>2, <1>3, <1>4

\* Bytes are put behind those that a buffer holds.
LEMMA FilledLemma ==
    ASSUME NEW b \in Buffers, NEW x \in Seq(Bytes), (b.length + b.r_offset) + Len(x) <= BufSize
    PROVE  /\ Filled(b, x) \in Buffers /\ Filled(b, x).length = b.length + Len(x) /\ Filled(b, x).r_offset = b.r_offset
           /\ \A i \in 1..b.length : Filled(b, x).data[b.r_offset + i] = b.data[b.r_offset + i]
           /\ \A i \in 1..Len(x) : Filled(b, x).data[(b.r_offset + b.length) + i] = x[i]
<1>1. b.length \in Nat /\ b.r_offset \in Nat /\ b.data \in [1..BufSize -> Bytes] /\ BufSize \in Nat
  BY ContainersAssumption DEF Buffers
<1>2. PICK l \in Nat, r \in Nat, k \in Nat : l = b.length /\ r = b.r_offset /\ k = Len(x)
  BY <1>1
<1>3. (l + r) + k <= BufSize /\ DOMAIN x = 1..k /\ \A i \in 1..k : x[i] \in Bytes
  BY <1>2
<1> DEFINE d == [i \in 1..BufSize |-> IF i - (l + r) \in 1..k THEN x[i - (l + r)] ELSE b.data[i]]
<1>4. Filled(b, x) = [data |-> d, r_offset |-> r, length |-> l + k]
  BY <1>2, <1>3 DEF Filled, End
<1>5. d \in [1..BufSize -> Bytes]
  BY <1>1, <1>3
<1>6. ASSUME NEW i \in 1..l PROVE d[r + i] = b.data[r + i]
  <2>1. r + i \in 1..BufSize /\ (r + i) - (l + r) \notin 1..k
    BY <1>1, <1>3
  <2> QED
    BY <2>1
<1>7. ASSUME NEW i \in 1..k PROVE d[(r + l) + i] = x[i]
  <2>1. (r + l) + i \in 1..BufSize /\ ((r + l) + i) - (l + r) = i
    BY <1>1, <1>3
  <2> QED
    BY <2>1
<1> HIDE DEF d
<1>8. [data |-> d, r_offset |-> r, length |-> l + k] \in Buffers
  <2>1. l + k \in Nat /\ (l + k) + r <= BufSize
    BY <1>1, <1>3
  <2> QED
    BY <1>5, <2>1 DEF Buffers
<1> QED
  BY <1>2, <1>4, <1>6, <1>7, <1>8

\* nr_p_buf_write_to_chain: the buffers afterwards, z the new ones.
BuffersWritten(last, here, bytes, len, z) ==
    [b \in DOMAIN buf |->
        IF b = last THEN Filled(buf[b], Slice(bytes, 0, here))
        ELSE IF \E j \in DOMAIN z : z[j] = b
        THEN Filled(Emptied(b), Slice(bytes, here + ((CHOOSE j \in DOMAIN z : z[j] = b) - 1) * BufSize,
                                      Lesser(len, here + (CHOOSE j \in DOMAIN z : z[j] = b) * BufSize)))
        ELSE buf[b]]

\* The step, with what is computed in it.
Written(h, len, got, bytes, last, here, z) ==
    /\ bytes \in Seq(Bytes) /\ Len(bytes) = len
    /\ IF chain[h] = <<>> THEN last = 0 ELSE last = chain[h][Len(chain[h])]
    /\ here \in 0..len /\ (last = 0 => here = 0) /\ (last # 0 => here + End(buf[last]) <= BufSize)
    /\ z = Slice(Obtainable, 0, got) /\ got <= Len(Obtainable)
    /\ got <= (len - here + BufSize - 1) \div BufSize
    /\ buf' = BuffersWritten(last, here, bytes, len, z)
    /\ chain' = [chain EXCEPT ![h] = chain[h] \o z]
    /\ freeList' = StillFree(got)
    /\ pending' = [pending EXCEPT ![h] = pending[h] \o Slice(bytes, 0, Edge(len, here, got))]
    /\ held' = held

\* A write computes these.
LEMMA WriteParts ==
    ASSUME ChainInv, NEW h \in Heads, NEW len \in Nat, NEW got \in Nat, BufWrite(h, len, got)
    PROVE  \E bytes, last, here, z : Written(h, len, got, bytes, last, here, z)
<1> DEFINE before == IF pending[h] = <<>> THEN 0 ELSE pending[h][Len(pending[h])]
           bytes == [i \in 1..len |-> 1 + ((before + i - 1) % 3)]
           last == IF chain[h] = <<>> THEN 0 ELSE chain[h][Len(chain[h])]
           here == IF last = 0 THEN 0 ELSE Lesser(len, BufSize - End(buf[last]))
           z == Slice(Obtainable, 0, got)
<1>0. /\ buf \in [Numbers -> Buffers] /\ pending \in [Heads -> Seq(Bytes)] /\ chain \in [Heads -> Seq(Numbers)]
  BY ChainParts
<1>1. buf' = BuffersWritten(last, here, bytes, len, z)
  BY DEF BufWrite, BuffersWritten
<1>2. /\ got <= (len - here + BufSize - 1) \div BufSize /\ got <= Len(Obtainable)
      /\ freeList' = StillFree(got) /\ held' = held
  BY DEF BufWrite
<1>3. chain' = [chain EXCEPT ![h] = chain[h] \o z]
  BY DEF BufWrite
<1>4. pending' = [pending EXCEPT ![h] = pending[h] \o Slice(bytes, 0, Edge(len, here, got))]
  BY DEF BufWrite, Edge
<1>5. IF chain[h] = <<>> THEN last = 0 ELSE last = chain[h][Len(chain[h])]
  OBVIOUS
<1>6. here \in 0..len /\ (last = 0 => here = 0) /\ (last # 0 => here + End(buf[last]) <= BufSize)
  <2>1. CASE last = 0
    BY <2>1
  <2>2. CASE last # 0
    <3>1. chain[h] # <<>> /\ last = chain[h][Len(chain[h])]
      BY <2>2
    <3>2. last \in Numbers
      BY <1>0, <3>1
    <3>3. PICK u \in Buffers : u = buf[last]
      BY <1>0, <3>2
    <3>4. u.length \in Nat /\ u.r_offset \in Nat /\ u.length + u.r_offset <= BufSize /\ BufSize \in Nat
      BY ContainersAssumption DEF Buffers
    <3>5. PICK e \in Nat : e = End(buf[last]) /\ e <= BufSize
      BY <3>3, <3>4 DEF End
    <3>6. here = Lesser(len, BufSize - e)
      BY <2>2, <3>5
    <3> HIDE DEF here, last
    <3>7. here \in 0..len /\ here + e <= BufSize
      BY <3>4, <3>5, <3>6 DEF Lesser
    <3> QED
      BY <2>2, <3>5, <3>7
  <2> QED
    BY <2>1, <2>2
<1>7. bytes \in Seq(Bytes) /\ Len(bytes) = len
  <2>1. before \in Nat
    <3>1. pending[h] \in Seq(Bytes)
      BY <1>0
    <3>2. pending[h] # <<>> => pending[h][Len(pending[h])] \in Bytes
      BY <3>1
    <3> QED
      BY <3>2 DEF Bytes
  <2> HIDE DEF before
  <2>2. \A i \in 1..len : 1 + ((before + i - 1) % 3) \in Bytes
    BY <2>1 DEF Bytes
  <2>3. bytes \in [1..len -> Bytes]
    BY <2>2
  <2> HIDE DEF bytes
  <2> QED
    BY <2>3, LenLemma
<1>8. z = Slice(Obtainable, 0, got)
  OBVIOUS
<1> HIDE DEF before, bytes, last, here, z
<1>9. Written(h, len, got, bytes, last, here, z)
  BY <1>1, <1>2, <1>3, <1>4, <1>5, <1>6, <1>7, <1>8 DEF Written
<1> QED
  BY <1>9

\* A part of a sequence.
CutOf(y, S, s, m, n) == y \in Seq(S) /\ Len(y) = n - m /\ \A i \in 1..(n - m) : y[i] = s[m + i]

\* Slice cuts such a part out.
LEMMA CutLemma ==
    ASSUME NEW S, NEW s \in Seq(S), NEW m \in Nat, NEW n \in Nat, m <= n, n <= Len(s)
    PROVE  CutOf(Slice(s, m, n), S, s, m, n)
BY SliceLemma DEF CutOf

\* The beginning of a sequence.
PrefixOf(y, S, s, n) == y \in Seq(S) /\ Len(y) = n /\ \A i \in 1..n : y[i] = s[i]

\* Slice cuts it off.
LEMMA CutPrefix ==
    ASSUME NEW S, NEW s \in Seq(S), NEW n \in Nat, n <= Len(s)
    PROVE  PrefixOf(Slice(s, 0, n), S, s, n)
BY PrefixLemma DEF PrefixOf

\* e[j] of len bytes are in the last old buffer, which took here of them, and the first j of n new ones.
EdgesAre(e, len, here, n, done) ==
    /\ \A j \in 0..n : e[j] \in Nat /\ e[j] <= done
    /\ \A j \in 1..n : /\ e[j - 1] = here + (j - 1) * BufSize /\ e[j] = Lesser(len, here + j * BufSize)
                       /\ e[j - 1] < e[j] /\ e[j] - e[j - 1] <= BufSize

\* What a write of len bytes begins with: the chain c and the new buffers z, done the bytes that fit.
Arranged(c, z, len, bytes, done, here, last, x) ==
    /\ c \in Seq(Numbers) /\ NoRepeats(c) /\ z \in Seq(Numbers) /\ NoRepeats(z) /\ Members(z) \cap Members(c) = {}
    /\ len \in Nat /\ bytes \in Seq(Bytes) /\ Len(bytes) = len /\ done \in Nat /\ done <= len
    /\ here \in Nat /\ here <= done /\ (c = <<>> => last = 0) /\ (c # <<>> => last = c[Len(c)])
    /\ (last = 0 => here = 0) /\ (last # 0 => here + End(buf[last]) <= BufSize)
    /\ \A i \in 1..done : x[i] = bytes[i]
\* What it leaves.
Leaves(g, c, z, x, here, e) ==
    /\ g \in [Numbers -> Buffers] /\ Grown(buf, g, c, x, here) /\ Begun(g, z, x, e)
    /\ \A b \in Numbers : b \notin Members(c) /\ b \notin Members(z) => g[b] = buf[b]

\* The last buffer is filled up and the new ones are filled in order; no other is touched.
LEMMA WriteLeaves ==
    ASSUME buf \in [Numbers -> Buffers], NEW c, NEW z, NEW len, NEW bytes, NEW done, NEW here, NEW last, NEW x,
           Arranged(c, z, len, bytes, done, here, last, x), NEW e, EdgesAre(e, len, here, Len(z), done),
           NEW g, g = BuffersWritten(last, here, bytes, len, z)
    PROVE  Leaves(g, c, z, x, here, e)
<1>a. /\ c \in Seq(Numbers) /\ NoRepeats(c) /\ z \in Seq(Numbers) /\ NoRepeats(z) /\ Members(z) \cap Members(c) = {}
      /\ len \in Nat /\ bytes \in Seq(Bytes) /\ Len(bytes) = len /\ done \in Nat /\ done <= len
      /\ here \in Nat /\ here <= done /\ (c = <<>> => last = 0) /\ (c # <<>> => last = c[Len(c)])
      /\ (last = 0 => here = 0) /\ (last # 0 => here + End(buf[last]) <= BufSize)
      /\ \A i \in 1..done : x[i] = bytes[i]
  BY DEF Arranged
<1> USE <1>a
<1>0. BufSize \in Nat /\ 0 \notin Numbers /\ Len(z) \in Nat /\ Len(c) \in Nat
  BY ContainersAssumption DEF Numbers
<1>1. \A b \in Numbers : (\E j \in DOMAIN z : z[j] = b) <=> b \in Members(z)
  <2>1. DOMAIN z = 1..Len(z)
    OBVIOUS
  <2> QED
    BY <2>1 DEF Members
<1>2. DOMAIN g = Numbers
  BY DEF BuffersWritten
<1>3. ASSUME NEW b \in Numbers, b # last, b \notin Members(z) PROVE g[b] = buf[b]
  BY <1>1, <1>3 DEF BuffersWritten
<1>4. last # 0 => c # <<>> /\ last = c[Len(c)] /\ last \in Numbers /\ last \in Members(c)
  BY DEF Members
<1>5. ASSUME last # 0
      PROVE  /\ g[last] \in Buffers /\ g[last].length = buf[last].length + here /\ g[last].r_offset = buf[last].r_offset
             /\ \A i \in 1..buf[last].length : g[last].data[buf[last].r_offset + i] = buf[last].data[buf[last].r_offset + i]
             /\ \A i \in 1..here : g[last].data[(buf[last].r_offset + buf[last].length) + i] = x[i]
  <2>1. PICK y : y = Slice(bytes, 0, here)
    OBVIOUS
  <2>2. here <= Len(bytes)
    OBVIOUS
  <2>3. y \in Seq(Bytes) /\ Len(y) = here /\ \A i \in 1..here : y[i] = bytes[i]
    <3>1. bytes \in Seq(Bytes) /\ here \in Nat /\ here <= Len(bytes)
      BY <2>2
    <3>2. PrefixOf(Slice(bytes, 0, here), Bytes, bytes, here)
      BY <3>1, CutPrefix
    <3> QED
      BY <2>1, <3>2 DEF PrefixOf
  <2>4. PICK u \in Buffers : u = buf[last]
    BY <1>4, <1>5
  <2>5. g[last] = Filled(u, y)
    BY <1>4, <1>5, <2>1, <2>4 DEF BuffersWritten
  <2>6. u.length \in Nat /\ u.r_offset \in Nat /\ (u.length + u.r_offset) + Len(y) <= BufSize
    <3>1. u.length \in Nat /\ u.r_offset \in Nat
      BY DEF Buffers
    <3>2. here + (u.length + u.r_offset) <= BufSize
      BY <1>5, <2>4 DEF End
    <3> QED
      BY <1>0, <2>3, <3>1, <3>2
  <2>7. y \in Seq(Bytes)
    BY <2>3
  <2>8. /\ Filled(u, y) \in Buffers /\ Filled(u, y).length = u.length + Len(y) /\ Filled(u, y).r_offset = u.r_offset
        /\ \A i \in 1..u.length : Filled(u, y).data[u.r_offset + i] = u.data[u.r_offset + i]
        /\ \A i \in 1..Len(y) : Filled(u, y).data[(u.r_offset + u.length) + i] = y[i]
    BY <2>6, <2>7, FilledLemma
  <2>9. \A i \in 1..here : y[i] = x[i]
    <3>1. \A i \in 1..here : i \in 1..done
      OBVIOUS
    <3> QED
      BY <2>3, <3>1
  <2> QED
    BY <2>3, <2>4, <2>5, <2>8, <2>9
<1>6. ASSUME NEW j \in 1..Len(z)
      PROVE  /\ z[j] \in Numbers /\ g[z[j]] \in Buffers /\ e[j - 1] < e[j]
             /\ g[z[j]].length = e[j] - e[j - 1] /\ g[z[j]].r_offset = 0
             /\ \A i \in 1..(e[j] - e[j - 1]) : g[z[j]].data[i] = x[e[j - 1] + i]
  <2>1. z[j] \in Numbers /\ z[j] \in Members(z)
    BY DEF Members
  <2>2. z[j] # last
    BY <1>0, <1>4, <2>1
  <2>3. (CHOOSE i \in DOMAIN z : z[i] = z[j]) = j
    <3>1. j \in DOMAIN z /\ \A i \in DOMAIN z : z[i] = z[j] => i = j
      BY DEF NoRepeats
    <3> QED
      BY <3>1
  <2>4. PICK a \in Nat, b \in Nat : a = e[j - 1] /\ b = e[j] /\ b <= done
    <3>1. j \in 0..Len(z) /\ j - 1 \in 0..Len(z)
      OBVIOUS
    <3> QED
      BY <3>1 DEF EdgesAre
  <2>5. a = here + (j - 1) * BufSize /\ b = Lesser(len, here + j * BufSize) /\ a < b /\ b - a <= BufSize
    BY <2>4 DEF EdgesAre
  <2>6. g[z[j]] = Filled(Emptied(z[j]), Slice(bytes, a, b))
    <3>1. g[z[j]] = Filled(Emptied(z[j]), Slice(bytes, here + ((CHOOSE i \in DOMAIN z : z[i] = z[j]) - 1) * BufSize,
                                      Lesser(len, here + (CHOOSE i \in DOMAIN z : z[i] = z[j]) * BufSize)))
      BY <1>1, <2>1, <2>2 DEF BuffersWritten
    <3> QED
      BY <2>3, <2>5, <3>1
  <2>7. PICK y : y = Slice(bytes, a, b)
    OBVIOUS
  <2>8. a <= b /\ b <= Len(bytes) /\ b - a \in Nat
    <3>1. a < b /\ b <= done
      BY <2>4, <2>5
    <3>2. done <= Len(bytes)
      BY <1>a
    <3>3. Len(bytes) \in Nat /\ done \in Nat
      BY <1>a
    <3> QED
      BY <3>1, <3>2, <3>3
  <2>9. y \in Seq(Bytes) /\ Len(y) = b - a /\ \A i \in 1..(b - a) : y[i] = bytes[a + i]
    <3>1. bytes \in Seq(Bytes) /\ a <= b /\ b <= Len(bytes)
      BY <2>8
    <3>2. CutOf(Slice(bytes, a, b), Bytes, bytes, a, b)
      BY <3>1, CutLemma
    <3> QED
      BY <2>7, <3>2 DEF CutOf
  <2>10. PICK u : u = Emptied(z[j])
    OBVIOUS
  <2>11. u \in Buffers /\ u.length = 0 /\ u.r_offset = 0
    <3>1. PICK d : d = buf[z[j]].data
      OBVIOUS
    <3>2. u = [data |-> d, r_offset |-> 0, length |-> 0]
      BY <2>10, <3>1 DEF Emptied
    <3>3. d \in [1..BufSize -> Bytes]
      BY <2>1, <3>1 DEF Buffers
    <3> QED
      BY <3>2, <3>3, EmptyBuffer
  <2>12. y \in Seq(Bytes) /\ (u.length + u.r_offset) + Len(y) <= BufSize
    BY <1>0, <2>5, <2>9, <2>11
  <2>13. /\ Filled(u, y) \in Buffers /\ Filled(u, y).length = u.length + Len(y) /\ Filled(u, y).r_offset = u.r_offset
         /\ \A i \in 1..Len(y) : Filled(u, y).data[(u.r_offset + u.length) + i] = y[i]
    BY <2>11, <2>12, FilledLemma
  <2>14. PICK v : v = g[z[j]]
    OBVIOUS
  <2>15. v \in Buffers /\ v.length = b - a /\ v.r_offset = 0 /\ \A i \in 1..(b - a) : v.data[(0 + 0) + i] = y[i]
    <3>1. v = Filled(u, y)
      BY <2>6, <2>7, <2>10, <2>14
    <3>2. 0 + (b - a) = b - a
      BY <2>8
    <3> QED
      BY <2>9, <2>11, <2>13, <3>1, <3>2
  <2>16. ASSUME NEW i \in 1..(b - a) PROVE v.data[i] = x[a + i]
    <3>1. (0 + 0) + i = i /\ a + i \in 1..done
      <4>1. b <= done
        BY <2>4
      <4> QED
        BY <4>1
    <3>2. y[i] = bytes[a + i] /\ v.data[(0 + 0) + i] = y[i]
      BY <2>9, <2>15
    <3> QED
      BY <3>1, <3>2
  <2>17. \A i \in 1..(b - a) : v.data[i] = x[a + i]
    BY <2>16
  <2>18. a < b /\ v \in Buffers /\ v.length = b - a /\ v.r_offset = 0
    BY <2>5, <2>15
  <2>19. a = e[j - 1] /\ b = e[j]
    BY <2>4
  <2> QED
    BY <2>1, <2>14, <2>17, <2>18, <2>19
<1>7. g \in [Numbers -> Buffers]
  <2>1. ASSUME NEW b \in Numbers PROVE g[b] \in Buffers
    <3>1. CASE b = last
      BY <1>0, <1>5, <3>1
    <3>2. CASE b \in Members(z)
      BY <1>6, <3>2 DEF Members
    <3>3. CASE b # last /\ b \notin Members(z)
      BY <1>3, <3>3
    <3> QED
      BY <3>1, <3>2, <3>3
  <2>2. g = [b \in Numbers |-> g[b]]
    BY <1>2 DEF BuffersWritten
  <2> QED
    BY <2>1, <2>2
<1>8. Begun(g, z, x, e)
  BY <1>6 DEF Begun
<1>9. Grown(buf, g, c, x, here)
  <2>1. ASSUME NEW n \in 1..(Len(c) - 1) PROVE g[c[n]] = buf[c[n]]
    <3>1. n \in 1..Len(c) /\ Len(c) \in 1..Len(c) /\ n # Len(c) /\ c # <<>>
      BY <1>0
    <3>2. c[n] \in Numbers /\ c[n] \in Members(c) /\ c[n] # last
      BY <3>1 DEF Members, NoRepeats
    <3> QED
      BY <1>3, <3>2
  <2>2. c # <<>> => last # 0
    BY <1>0
  <2> QED
    BY <1>5, <2>1, <2>2 DEF Grown
<1>10. ASSUME NEW b \in Numbers, b \notin Members(c), b \notin Members(z) PROVE g[b] = buf[b]
  BY <1>0, <1>3, <1>4, <1>10
<1> QED
  BY <1>7, <1>8, <1>9, <1>10 DEF Leaves

\* nr_p_buf_write_to_chain keeps the chains, wherever it stopped.
LEMMA WriteKeeps ==
    ASSUME ChainInv, NEW h \in Heads, NEW len \in Nat, NEW got \in Nat, BufWrite(h, len, got)
    PROVE  ChainInv'
<1>0. /\ buf \in [Numbers -> Buffers] /\ Placed(held, freeList, chain) /\ pending \in [Heads -> Seq(Bytes)]
      /\ held \in Seq(Numbers) /\ NoRepeats(held) /\ freeList \in Seq(Numbers) /\ NoRepeats(freeList)
      /\ chain \in [Heads -> Seq(Numbers)] /\ \A g \in Heads : NoRepeats(chain[g])
      /\ \A b \in Numbers : buf[b].data \in [1..BufSize -> Bytes]
      /\ \A g \in Heads : ChainHolds(buf, chain[g], pending[g])
  BY ChainParts
<1>1. PICK bytes, last, here, z : Written(h, len, got, bytes, last, here, z)
  BY WriteParts
<1>2. PICK c \in Seq(Numbers), p \in Seq(Bytes) : c = chain[h] /\ p = pending[h]
  BY <1>0
<1>3. /\ bytes \in Seq(Bytes) /\ Len(bytes) = len /\ (c = <<>> => last = 0) /\ (c # <<>> => last = c[Len(c)])
      /\ here \in 0..len /\ (last = 0 => here = 0) /\ (last # 0 => here + End(buf[last]) <= BufSize)
      /\ z = Slice(Obtainable, 0, got) /\ got <= Len(Obtainable)
      /\ got <= (len - here + BufSize - 1) \div BufSize
      /\ buf' = BuffersWritten(last, here, bytes, len, z)
      /\ chain' = [chain EXCEPT ![h] = c \o z] /\ freeList' = StillFree(got)
      /\ pending' = [pending EXCEPT ![h] = p \o Slice(bytes, 0, Edge(len, here, got))] /\ held' = held
  BY <1>1, <1>2 DEF Written
<1>4. PICK rest : rest = StillFree(got)
  OBVIOUS
<1>5. Taken(z, rest, got)
  BY <1>0, <1>3, <1>4, TakeLemma
<1>6. /\ z \in Seq(Numbers) /\ Len(z) = got /\ NoRepeats(z)
      /\ rest \in Seq(Numbers) /\ NoRepeats(rest) /\ Members(rest) \subseteq Members(freeList)
      /\ Members(z) \cap Members(rest) = {} /\ Members(z) \cap Members(held) = {}
      /\ \A g \in Heads : Members(z) \cap Members(chain[g]) = {}
  BY <1>5 DEF Taken
<1> DEFINE e == [j \in 0..got |-> Edge(len, here, j)]
<1>7. /\ \A j \in 0..got : e[j] \in 0..len /\ e[j] <= e[got]
      /\ e[0] = here /\ here \in Nat
      /\ \A j \in 1..got : /\ e[j - 1] = here + (j - 1) * BufSize /\ e[j] = Lesser(len, here + j * BufSize)
                           /\ e[j - 1] < e[j] /\ e[j] - e[j - 1] <= BufSize
  <2>0. here \in 0..len /\ got <= (len - here + BufSize - 1) \div BufSize
    BY <1>3
  <2>1. /\ \A j \in 0..got : Edge(len, here, j) \in 0..len /\ Edge(len, here, j) <= Edge(len, here, got)
        /\ Edge(len, here, 0) = here
        /\ \A j \in 1..got : /\ Edge(len, here, j - 1) = here + (j - 1) * BufSize
                             /\ Edge(len, here, j - 1) < Edge(len, here, j)
                             /\ Edge(len, here, j) - Edge(len, here, j - 1) <= BufSize
    BY <2>0, EdgeLemma
  <2>2. \A j \in 0..got : e[j] = Edge(len, here, j)
    OBVIOUS
  <2>3. 0 \in 0..got /\ got \in 0..got /\ \A j \in 1..got : j \in 0..got /\ j - 1 \in 0..got
    OBVIOUS
  <2>4. \A j \in 1..got : Edge(len, here, j) = Lesser(len, here + j * BufSize)
    BY DEF Edge
  <2> HIDE DEF e
  <2>5. \A j \in 0..got : e[j] \in 0..len /\ e[j] <= e[got]
    BY <2>1, <2>2, <2>3
  <2>6. e[0] = here /\ here \in Nat
    BY <2>0, <2>1, <2>2, <2>3
  <2>7. ASSUME NEW j \in 1..got
        PROVE  /\ e[j - 1] = here + (j - 1) * BufSize /\ e[j] = Lesser(len, here + j * BufSize)
               /\ e[j - 1] < e[j] /\ e[j] - e[j - 1] <= BufSize
    <3>1. e[j] = Edge(len, here, j) /\ e[j - 1] = Edge(len, here, j - 1)
      BY <2>2, <2>3
    <3>2. /\ Edge(len, here, j - 1) = here + (j - 1) * BufSize
          /\ Edge(len, here, j - 1) < Edge(len, here, j)
          /\ Edge(len, here, j) - Edge(len, here, j - 1) <= BufSize
          /\ Edge(len, here, j) = Lesser(len, here + j * BufSize)
      BY <2>1, <2>4
    <3> QED
      BY <3>1, <3>2
  <2> QED
    BY <2>5, <2>6, <2>7
<1>8. e[got] = Edge(len, here, got) /\ DOMAIN e = 0..got /\ e = [j \in 0..got |-> e[j]]
  OBVIOUS
<1> HIDE DEF e
<1>9. PICK done \in Nat : done = e[got] /\ done <= len
  <2>1. got \in 0..got
    OBVIOUS
  <2> QED
    BY <1>7, <2>1
<1>10. PICK x : x = Slice(bytes, 0, done)
  OBVIOUS
<1>11. x \in Seq(Bytes) /\ Len(x) = done /\ \A i \in 1..done : x[i] = bytes[i]
  BY <1>3, <1>9, <1>10, PrefixLemma
<1>12. e \in [0..got -> 0..done] /\ \A j \in 0..got : e[j] \in Nat /\ e[j] <= done
  <2>1. \A j \in 0..got : e[j] \in Nat /\ e[j] <= done
    BY <1>7, <1>9
  <2> QED
    BY <1>8, <2>1
<1>13. /\ buf' \in [Numbers -> Buffers]
       /\ Grown(buf, buf', c, x, here)
       /\ Begun(buf', z, x, e)
       /\ \A b \in Numbers : b \notin Members(c) /\ b \notin Members(z) => buf'[b] = buf[b]
  <2>1. EdgesAre(e, len, here, Len(z), done)
    BY <1>6, <1>7, <1>12 DEF EdgesAre
  <2>2. here \in Nat /\ here <= done
    <3>1. 0 \in 0..got
      OBVIOUS
    <3> QED
      BY <1>7, <1>12, <3>1
  <2>3. bytes \in Seq(Bytes) /\ z \in Seq(Numbers) /\ NoRepeats(z) /\ NoRepeats(c) /\ Members(z) \cap Members(c) = {}
    BY <1>0, <1>2, <1>3, <1>6
  <2>4. /\ Len(bytes) = len /\ (c = <<>> => last = 0) /\ (c # <<>> => last = c[Len(c)])
        /\ (last = 0 => here = 0) /\ (last # 0 => here + End(buf[last]) <= BufSize)
        /\ buf' = BuffersWritten(last, here, bytes, len, z)
    BY <1>3
  <2>5. \A i \in 1..done : x[i] = bytes[i]
    BY <1>11
  <2> QED
    <3>1. PICK g : g = buf'
      OBVIOUS
    <3>2. g = BuffersWritten(last, here, bytes, len, z) /\ buf \in [Numbers -> Buffers]
      BY <1>0, <2>4, <3>1
    <3>3. Arranged(c, z, len, bytes, done, here, last, x)
      BY <1>9, <2>2, <2>3, <2>4, <2>5 DEF Arranged
    <3>4. Leaves(g, c, z, x, here, e)
      BY <2>1, <3>2, <3>3, WriteLeaves
    <3> QED
      BY <3>1, <3>4 DEF Leaves
<1>14. ChainHolds(buf', c \o z, p \o x)
  <2>1. ChainHolds(buf, c, p)
    BY <1>0, <1>2
  <2>2. e \in [0..Len(z) -> 0..Len(x)] /\ e[Len(z)] = Len(x) /\ z \in Seq(Numbers) /\ x \in Seq(Bytes)
    BY <1>6, <1>9, <1>11, <1>12
  <2>3. Grown(buf, buf', c, x, e[0])
    BY <1>7, <1>13
  <2> QED
    BY <1>0, <1>13, <2>1, <2>2, <2>3, WriteLemma
<1>15. PICK y, q : y = c \o z /\ q = p \o x
  OBVIOUS
<1>16. /\ chain' = [chain EXCEPT ![h] = y] /\ freeList' = rest /\ held' = held /\ pending' = [pending EXCEPT ![h] = q]
  BY <1>3, <1>4, <1>8, <1>9, <1>10, <1>15
<1>17. Members(rest) \cap Members(c) = {} /\ Members(held) \cap Members(c) = {} /\ Members(held) \cap Members(rest) = {}
       /\ Members(z) \cap Members(c) = {}
  BY <1>0, <1>2, <1>6 DEF Placed
<1>18. y \in Seq(Numbers) /\ Members(y) = Members(c) \cup Members(z) /\ NoRepeats(y)
  <2>1. z \in Seq(Numbers) /\ NoRepeats(c) /\ NoRepeats(z) /\ Members(c) \cap Members(z) = {}
    BY <1>0, <1>2, <1>6, <1>17
  <2> QED
    BY <1>15, <2>1, ConcatLemma
<1>19. \A g \in Heads \ {h} : Members(chain[g]) \cap (Members(c) \cup Members(held) \cup Members(freeList)) = {}
  BY <1>0, <1>2, OtherChains
<1>20. WellApart(held, rest, y, h)
  BY <1>6, <1>17, <1>18, <1>19 DEF WellApart
<1>21. Placed(held, rest, [chain EXCEPT ![h] = y])
  <2>1. rest \in Seq(Numbers) /\ NoRepeats(rest)
    BY <1>6
  <2> QED
    BY <1>0, <1>18, <1>20, <2>1, PlacedStep
<1>22. Placed(held', freeList', chain')
  BY <1>16, <1>21
<1>23. q \in Seq(Bytes)
  <2>1. x \in Seq(Bytes)
    BY <1>11
  <2> QED
    BY <1>15, <2>1, JoinedLemma
<1>24. /\ pending' \in [Heads -> Seq(Bytes)] /\ pending'[h] = q /\ chain'[h] = y
       /\ \A g \in Heads \ {h} : pending'[g] = pending[g] /\ chain'[g] = chain[g]
  BY <1>0, <1>16, <1>23
<1>25. WrittenTo({h})
  BY <1>14, <1>15, <1>24 DEF WrittenTo
<1>26. ASSUME NEW g \in Heads \ {h}, NEW b \in Members(chain[g]) PROVE buf'[b] = buf[b]
  <2>1. b \notin Members(c)
    BY <1>19
  <2>2. b \notin Members(z)
    BY <1>6
  <2>3. b \in Numbers
    BY <1>0, MembersLemma
  <2> QED
    BY <1>13, <2>1, <2>2, <2>3
<1>27. OthersKept({h})
  BY <1>24, <1>26 DEF OthersKept
<1> QED
  BY <1>13, <1>22, <1>24, <1>25, <1>27, KeepLemma

\* Every step of p_buf.c's users keeps the invariant of the chains.
LEMMA ChainStep == ChainInv /\ [ChainNext]_chainVars => ChainInv'
<1> SUFFICES ASSUME ChainInv, [ChainNext]_chainVars PROVE ChainInv'
  OBVIOUS
<1>1. CASE UNCHANGED chainVars
  BY <1>1 DEF ChainInv, chainVars
<1>2. CASE BufAlloc
  BY <1>2, AllocKeeps
<1>3. CASE BufFree
  BY <1>3, FreeKeeps
<1>4. ASSUME NEW h \in Heads, NEW len \in 1..MaxPending, NEW got \in 0..BufCt, BufWrite(h, len, got) PROVE ChainInv'
  <2>1. len \in Nat /\ got \in Nat
    OBVIOUS
  <2> QED
    BY <1>4, <2>1, WriteKeeps
<1>5. ASSUME NEW h \in Heads, BufRead(h) PROVE ChainInv'
  BY <1>5, ReadKeeps
<1>6. ASSUME NEW h \in Heads, BufFreeChain(h) PROVE ChainInv'
  BY <1>6, FreeChainKeeps
<1>7. CASE BufContext
  BY <1>7, ContextKeeps
<1> QED
  BY <1>1, <1>2, <1>3, <1>4, <1>5, <1>6, <1>7 DEF ChainNext

\* The elements of the lists and the buffers of the chains are, in every state, linked and filled
\* as the two invariants say: the one that r_list.c keeps, up to the first append that follows an
\* insertion into an empty list, and the one that p_buf.c keeps.
THEOREM ContainersInductive == ContainersSpec => [](ListInv /\ ChainInv)
<1>1. ListInit /\ ChainInit => ListInv /\ ChainInv
  BY ListInitOK, ChainInitOK
<1>2. ListInv /\ ChainInv /\ [ContainersNext]_<<listVars, chainVars>> => (ListInv /\ ChainInv)'
  <2> SUFFICES ASSUME ListInv, ChainInv, [ContainersNext]_<<listVars, chainVars>> PROVE ListInv' /\ ChainInv'
    OBVIOUS
  <2>1. [ListNext]_listVars /\ [ChainNext]_chainVars
    BY DEF ContainersNext, listVars, chainVars
  <2> QED
    BY <2>1, ListStep, ChainStep
<1> QED
  BY <1>1, <1>2, PTL DEF ContainersSpec

\* Lists hold what was put in them and chains the bytes written and not read, whatever the order
\* of the calls of r_list.c and p_buf.c and wherever a write stops for want of memory.
THEOREM ContainersKeep == ContainersSpec => []ContentsKept
<1>1. ListInv /\ ChainInv => ContentsKept
  BY ListsFromInv, ChainFaithfulOK DEF ContentsKept
<1> QED
  BY <1>1, ContainersInductive, PTL

=============================================================================
