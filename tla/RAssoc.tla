------------------------------- MODULE RAssoc -------------------------------
(***************************************************************************)
(* The hash table (util/libekr/r_assoc.c), cell by cell: chains of doubly   *)
(* linked elements, an iterator that holds pointers into them, and copies.  *)
(* An element owns its datum from the insertion on until destroy() is       *)
(* called for it; "owned" counts those.  Cells are numbered, and malloc     *)
(* takes the first free one.                                                *)
(*                                                                          *)
(* A pointer to a freed cell becomes DANGLING.  Using it is undefined, so   *)
(* the actions that would are not enabled.  A failed malloc leaves the      *)
(* table as it was and is not a step.                                       *)
(***************************************************************************)
EXTENDS Integers, Sequences, FiniteSets

CONSTANTS
    AssocKeys,  \* what programs insert
    HashOf,     \* key -> the number of its chain, the hash masked to the table's bits
    ChainCt,    \* assoc->size, the number of chains
    CellCt,     \* cells that malloc has
    MaxSurplus  \* bound: how far num_elements exceeds the elements

ASSUME AssocAssumption ==
    /\ HashOf \in [AssocKeys -> 0..(ChainCt - 1)]
    /\ {ChainCt, CellCt, MaxSurplus} \subseteq Nat

NULL     == 0
DANGLING == -1
Cells    == 1..CellCt
Tables   == {"old", "knew"}

VARIABLES
    heap,      \* the allocated cells: cell -> [key, prev, next]
    live,      \* the tables that exist
    chains,    \* table -> number -> first cell
    counted,   \* table -> num_elements
    iter,      \* the iterator over "old": [prev_chain, prev, next_chain, next]
    visits,    \* how often the iterator returned a key
    lasting,   \* the keys that are there since the iterator was set up and were not returned
    owned      \* the data handed over and not destroyed yet

assocVars == <<heap, live, chains, counted, iter, visits, lasting, owned>>

NoIter == [prev_chain |-> -1, prev |-> NULL, next_chain |-> ChainCt, next |-> NULL]
Least(S) == CHOOSE x \in S : \A y \in S : x <= y

-----------------------------------------------------------------------------
\* The cells from the first one on, and NULL when there are no more.
Along(first) ==
    LET walk[n \in 0..CellCt] ==
            IF n = 0 THEN first
            ELSE IF walk[n - 1] = NULL THEN NULL ELSE heap[walk[n - 1]].next
    IN  walk
ChainOf(t, c)  == LET walk == Along(chains[t][c]) IN {walk[n] : n \in 0..CellCt} \ {NULL}
CellsOf(t)     == UNION {ChainOf(t, c) : c \in 0..(ChainCt - 1)}
KeysOf(t)      == {heap[a].key : a \in CellsOf(t)}

\* r_assoc_fetch_bucket: the first cell of the key's chain that has the key.
Bucket(t, k) ==
    LET walk == Along(chains[t][HashOf[k]])
        hits == {n \in 0..CellCt : walk[n] # NULL /\ heap[walk[n]].key = k}
    IN  IF hits = {} THEN NULL ELSE walk[Least(hits)]

\* What the iterator is left with when a is freed.
Forget(a) == [iter EXCEPT !.prev = IF @ = a THEN DANGLING ELSE @,
                          !.next = IF @ = a THEN DANGLING ELSE @]

-----------------------------------------------------------------------------
AssocInit ==
    /\ heap = << >> /\ live = {}
    /\ chains = [t \in Tables |-> [c \in 0..(ChainCt - 1) |-> NULL]]
    /\ counted = [t \in Tables |-> 0]
    /\ iter = NoIter
    /\ visits = [k \in AssocKeys |-> 0] /\ lasting = {}
    /\ owned = 0

\* r_assoc_create
Create ==
    /\ "old" \notin live
    /\ live' = live \cup {"old"}
    /\ UNCHANGED <<heap, chains, counted, iter, visits, lasting, owned>>

\* r_assoc_insert of a key that the table does not have: at the head of its chain.
InsertNew(t, k) ==
    /\ t \in live /\ Bucket(t, k) = NULL
    /\ Cells \ DOMAIN heap # {}
    /\ LET a     == Least(Cells \ DOMAIN heap)
           first == chains[t][HashOf[k]]
       IN  /\ heap' = [x \in DOMAIN heap \cup {a} |->
                         IF x = a THEN [key |-> k, prev |-> NULL, next |-> first]
                         ELSE IF x = first THEN [heap[x] EXCEPT !.prev = a] ELSE heap[x]]
           /\ chains' = [chains EXCEPT ![t] = [chains[t] EXCEPT ![HashOf[k]] = a]]
    /\ counted' = [counted EXCEPT ![t] = @ + 1]
    /\ owned' = owned + 1
    /\ UNCHANGED <<live, iter, visits, lasting>>

\* r_assoc_insert with R_ASSOC_REPLACE, without which nothing happens: one datum
\* comes, the old one is destroyed, and the element counts once more.
Replace(t, k) ==
    /\ t \in live /\ Bucket(t, k) # NULL
    /\ counted[t] < Cardinality(CellsOf(t)) + MaxSurplus
    /\ counted' = [counted EXCEPT ![t] = @ + 1]
    /\ UNCHANGED <<heap, live, chains, iter, visits, lasting, owned>>

\* Mutant: the element behind the removed one keeps its prev.
UnlinkCell_OneWay(t, c, a) ==
    LET el == heap[a]
    IN  /\ heap' = [x \in DOMAIN heap \ {a} |->
                      IF x = el.prev THEN [heap[x] EXCEPT !.next = el.next] ELSE heap[x]]
        /\ chains' = IF el.prev = NULL THEN [chains EXCEPT ![t] = [chains[t] EXCEPT ![c] = el.next]]
                     ELSE chains
        /\ counted' = [counted EXCEPT ![t] = @ - 1]
        /\ owned' = owned - 1

\* What r_assoc_delete and r_assoc_iter_delete share: take the cell out of its chain,
\* destroy the datum, free the cell.
UnlinkCell(t, c, a) ==
    LET el == heap[a]
    IN  /\ heap' = [x \in DOMAIN heap \ {a} |->
                      IF x = el.prev THEN [heap[x] EXCEPT !.next = el.next]
                      ELSE IF x = el.next THEN [heap[x] EXCEPT !.prev = el.prev]
                      ELSE heap[x]]
        /\ chains' = IF el.prev = NULL THEN [chains EXCEPT ![t] = [chains[t] EXCEPT ![c] = el.next]]
                     ELSE chains
        /\ counted' = [counted EXCEPT ![t] = @ - 1]
        /\ owned' = owned - 1

\* r_assoc_delete
Delete(t, k) ==
    /\ t \in live /\ Bucket(t, k) # NULL
    /\ UnlinkCell(t, HashOf[k], Bucket(t, k))
    /\ iter' = Forget(Bucket(t, k))
    /\ lasting' = IF t = "old" THEN lasting \ {k} ELSE lasting
    /\ UNCHANGED <<live, visits>>

\* copy_assoc_chain for every chain, with elements whose copy() makes a datum of its own:
\* the cells that the copies get, each one of its own.
Twins ==
    CHOOSE f \in [CellsOf("old") -> Cells \ DOMAIN heap] :
        \A a, b \in CellsOf("old") : f[a] = f[b] => a = b

\* r_assoc_copy: prev and next are like the old ones.
Copy ==
    /\ "old" \in live /\ "knew" \notin live
    /\ Cardinality(CellsOf("old")) <= Cardinality(Cells \ DOMAIN heap)
    /\ LET twin   == Twins
           To(a)  == IF a = NULL THEN NULL ELSE twin[a]
           Old(x) == CHOOSE a \in DOMAIN twin : twin[a] = x
       IN  /\ heap' = [x \in DOMAIN heap \cup {twin[a] : a \in DOMAIN twin} |->
                         IF x \in DOMAIN heap THEN heap[x]
                         ELSE [key |-> heap[Old(x)].key, prev |-> To(heap[Old(x)].prev),
                               next |-> To(heap[Old(x)].next)]]
           /\ chains' = [chains EXCEPT !["knew"] =
                           [c \in 0..(ChainCt - 1) |-> To(chains["old"][c])]]
           /\ owned' = owned + Cardinality(DOMAIN twin)
    /\ live' = live \cup {"knew"}
    /\ counted' = [counted EXCEPT !["knew"] = counted["old"]]
    /\ UNCHANGED <<iter, visits, lasting>>

\* r_assoc_destroy
Destroy(t) ==
    /\ t \in live
    /\ live' = live \ {t}
    /\ heap' = [x \in DOMAIN heap \ CellsOf(t) |-> heap[x]]
    /\ owned' = owned - Cardinality(CellsOf(t))
    /\ chains' = [chains EXCEPT ![t] = [c \in 0..(ChainCt - 1) |-> NULL]]
    /\ counted' = [counted EXCEPT ![t] = 0]
    /\ iter' = IF t = "old" THEN NoIter ELSE iter
    /\ lasting' = IF t = "old" THEN {} ELSE lasting
    /\ visits' = IF t = "old" THEN [k \in AssocKeys |-> 0] ELSE visits

\* The first cell of the chains from c on.
FirstFrom(c) == LET used == {i \in c..(ChainCt - 1) : chains["old"][i] # NULL}
                IN  IF used = {} THEN [chain |-> ChainCt, cell |-> NULL]
                    ELSE [chain |-> Least(used), cell |-> chains["old"][Least(used)]]

\* r_assoc_init_iter
InitIter ==
    /\ "old" \in live
    /\ iter' = [prev_chain |-> -1, prev |-> NULL,
                next_chain |-> FirstFrom(0).chain, next |-> FirstFrom(0).cell]
    /\ visits' = [k \in AssocKeys |-> 0]
    /\ lasting' = KeysOf("old")
    /\ UNCHANGED <<heap, live, chains, counted, owned>>

\* Mutant: only the chain right behind is looked at.
After_Near(a) ==
    LET c == iter.next_chain + 1
    IN  IF heap[a].next # NULL THEN [chain |-> iter.next_chain, cell |-> heap[a].next]
        ELSE IF c < ChainCt /\ chains["old"][c] # NULL THEN [chain |-> c, cell |-> chains["old"][c]]
        ELSE [chain |-> iter.next_chain, cell |-> NULL]

\* Where r_assoc_iter goes from a: more on this chain, or the next occupied one.
After(a) ==
    IF heap[a].next # NULL THEN [chain |-> iter.next_chain, cell |-> heap[a].next]
    ELSE IF FirstFrom(iter.next_chain + 1).cell # NULL THEN FirstFrom(iter.next_chain + 1)
    ELSE [chain |-> iter.next_chain, cell |-> NULL]

\* r_assoc_iter
Iter ==
    /\ iter.next \in DOMAIN heap
    /\ iter' = [prev_chain |-> iter.next_chain, prev |-> iter.next,
                next_chain |-> After(iter.next).chain, next |-> After(iter.next).cell]
    /\ visits' = [visits EXCEPT ![heap[iter.next].key] = @ + 1]
    /\ lasting' = lasting \ {heap[iter.next].key}
    /\ UNCHANGED <<heap, live, chains, counted, owned>>

\* r_assoc_iter_delete: the element that r_assoc_iter returned last, on the chain that
\* the iterator remembers.
IterDelete ==
    /\ iter.prev \in DOMAIN heap
    /\ UnlinkCell("old", iter.prev_chain, iter.prev)
    /\ iter' = Forget(iter.prev)
    /\ UNCHANGED <<live, visits, lasting>>

AssocNext ==
    \/ Create \/ Copy \/ InitIter \/ Iter \/ IterDelete
    \/ \E t \in Tables : Destroy(t)
    \/ \E k \in AssocKeys : InsertNew("old", k) \/ Replace("old", k)
    \/ \E t \in Tables, k \in AssocKeys : Delete(t, k)

AssocSpec == AssocInit /\ [][AssocNext]_assocVars

-----------------------------------------------------------------------------
\* The chains are sound after any mixture of insertions, deletions, deletions through the
\* iterator, copies and destructions: prev undoes next, every key is once in its table and
\* on the chain of its hash, where r_assoc_fetch_bucket looks; no cell is left behind,
\* destroy() has been called exactly once for every datum that left, and num_elements,
\* which replacements drive up, never falls behind the elements.
ChainsSound ==
    /\ \A t \in Tables, c \in 0..(ChainCt - 1) : \A a \in ChainOf(t, c) :
          /\ HashOf[heap[a].key] = c
          /\ Bucket(t, heap[a].key) = a
          /\ heap[a].prev = NULL <=> a = chains[t][c]
          /\ heap[a].next # NULL => heap[heap[a].next].prev = a
    /\ LET old == CellsOf("old")  knew == CellsOf("knew")
       IN  DOMAIN heap = old \cup knew /\ old \cap knew = {}
    /\ owned = Cardinality(DOMAIN heap)
    /\ \A t \in live : counted[t] >= Cardinality(CellsOf(t))

\* An iteration that comes to its end has returned every element that was there all the
\* time, and no key twice, whatever was inserted, replaced or deleted on the way.
IterationComplete ==
    /\ \A k \in AssocKeys : visits[k] <= 1
    /\ iter.next = NULL => lasting = {}

=============================================================================
