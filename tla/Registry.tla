----------------------------- MODULE Registry -----------------------------
(***************************************************************************)
(* The local registry: the tree of named values of                          *)
(* src/src/registry/registry_local.c and the event callbacks of             *)
(* src/src/registry/registrycb.c, as registryd uses them.                   *)
(*                                                                          *)
(* A name such as "a.b" is the sequence <<"a", "b">>; the top-level         *)
(* registry "" is <<>>.  The code is single-threaded, and a write raises    *)
(* its events before it returns: the stack below holds what is left of the  *)
(* calls in progress, so that a callback may call back into the registry in *)
(* the middle of a write.  Calls that are refused (an invalid name, another *)
(* type than the node's) and the get functions change nothing and are not   *)
(* actions.                                                                 *)
(***************************************************************************)
EXTENDS Naturals, Sequences, FiniteSets, CallbackQueue

CONSTANTS
    Names,      \* the names that clients use, closed under taking the parent
    Payloads,   \* what they write: records [kind, val]
    Watches,    \* the registrations they make: records [name, action, cb]
    NULL,       \* the null pointer
    Hashes,     \* the hash functions to look at: entry -> its chain
    MaxDepth    \* callbacks nested deeper than this do not write

ROOT    == <<>>
Actions == {"add", "change", "delete", "final"}
Kinds   == {"registry", "scalar", "array"}

\* registryd's own callback (nr_reg_send_event), which only sends.
SEND_EVENT == "nr_reg_send_event"

\* The names above n that set_parent_registries creates: the root is not one.
Above(n)   == {SubSeq(n, 1, i) : i \in 1..Len(n) - 1}
Parent(n)  == SubSeq(n, 1, Len(n) - 1)
\* nr_reg_local_iter: the names that the prefix p selects.
Under(p)   == {n \in Names : Len(n) >= Len(p) /\ SubSeq(n, 1, Len(p)) = p}

\* compute_cb_id: a callback is known by its function and its action.
Entries == {[cb |-> w.cb, action |-> w.action] : w \in Watches}
               \cup [cb : {SEND_EVENT}, action : Actions]

ASSUME NamesAssumption   == /\ ROOT \in Names
                            /\ \A n \in Names : /\ n \in Seq(Members(n))
                                               /\ \A i \in 0..Len(n) : SubSeq(n, 1, i) \in Names
ASSUME PayloadAssumption == Payloads \subseteq [kind : Kinds, val : Nat]
ASSUME WatchAssumption   == \A w \in Watches : /\ w.name \in Names
                                               /\ w.action \in Actions
                                               /\ w.cb # SEND_EVENT
ASSUME NullAssumption    == NULL \notin Entries
ASSUME HashAssumption    == Hashes \subseteq [Entries -> Nat]
ASSUME DepthAssumption   == MaxDepth \in Nat

VARIABLES
    nodes,    \* nr_registry: name -> [kind, val]; kind "freed" marks a dangling pointer
    tables,   \* nr_registry_callbacks: name -> its entries, in the order of iteration
    hash,     \* entry -> its chain (a function of the address of the callback)
    stack,    \* the calls in progress, innermost first
    view      \* client: the names that exist, by the events of the root's watcher

vars == <<nodes, tables, hash, stack, view>>

Present == DOMAIN nodes

(***************************************************************************)
(* The frames of the stack.  `due' and `done' record, for the properties,   *)
(* the entries that were there when the level was entered and have neither  *)
(* been visited nor unregistered, and the ones visited.                     *)
(***************************************************************************)
Raise(n, a) == [op |-> "raise", name |-> n, action |-> a]
Level(n, a, l) ==
    [op |-> "level", name |-> n, action |-> a, level |-> l,
     next |-> First(tables[l], NULL), due |-> Members(tables[l]), done |-> {}]
Call(e)   == [op |-> "call", cb |-> e.cb]
Reinsert  == [op |-> "reinsert"]

Top(op)  == stack # <<>> /\ Head(stack).op = op
Depth    == Cardinality({i \in 1..Len(stack) : stack[i].op = "call"})
\* User code runs: outside every call, or in a callback.
UserRuns == stack = <<>> \/ Top("call")
MayWrite == UserRuns /\ Depth <= MaxDepth

-----------------------------------------------------------------------------
(***************************************************************************)
(* nr_reg_register_callback: a new entry goes to the head of its chain.     *)
(***************************************************************************)
\* Mutant: it goes to the tail.
Insertion_Tail(t, e) == Cardinality({i \in 1..Len(t) : hash[t[i]] <= hash[e]}) + 1

\* Its place among the entries t, which are listed chain by chain.
Insertion(t, e) == Cardinality({i \in 1..Len(t) : hash[t[i]] < hash[e]}) + 1

Inserted(t, e) ==
    LET k == Insertion(t, e)
    IN  [i \in 1..Len(t) + 1 |-> IF i < k THEN t[i] ELSE IF i = k THEN e ELSE t[i - 1]]

\* (A second registration of the same entry only replaces its argument.)
Register(n, e) ==
    /\ UserRuns
    /\ e \notin Members(tables[n])
    /\ tables' = [tables EXCEPT ![n] = Inserted(@, e)]
    /\ UNCHANGED <<nodes, hash, stack, view>>

\* The iterators that are about to visit e at n.
Awaited(n, e) ==
    \E i \in 1..Len(stack) :
        stack[i].op = "level" /\ stack[i].level = n /\ stack[i].next = e

\* nr_reg_unregister_callback.  The iterators keep a pointer to the entry they
\* visit next: clients must not unregister that one.
Unregister(n, e) ==
    /\ UserRuns
    /\ e \in Members(tables[n])
    /\ ~Awaited(n, e)
    /\ tables' = [tables EXCEPT ![n] = Unlink(@, e)]
    /\ stack' = [i \in 1..Len(stack) |->
                    IF stack[i].op = "level" /\ stack[i].level = n
                    THEN [stack[i] EXCEPT !.due = @ \ {e}] ELSE stack[i]]
    /\ UNCHANGED <<nodes, hash, view>>

-----------------------------------------------------------------------------
(***************************************************************************)
(* nr_reg_set, nr_reg_set_array and nr_reg_insert_node.  The node is put in *)
(* the table first, then its missing parents, one by one, up to a name that *)
(* exists; the events follow, outermost first.                              *)
(***************************************************************************)
\* nr_reg_fetch_node: may the node read as one of kind k, or of another kind?
\* Freed memory reads as anything.
Matches(n, k) == nodes[n].kind \in {k, "freed"}
Differs(n, k) == nodes[n].kind # k

\* The length of the closest name above n that exists, 0 if there is none.
Kept(n) ==
    LET have == {Len(p) : p \in Above(n) \cap Present}
    IN  IF have = {} THEN 0 ELSE CHOOSE l \in have : \A m \in have : m <= l

ParentAccepts(n) == Kept(n) > 0 => Matches(SubSeq(n, 1, Kept(n)), "registry")
ParentRefuses(n) == Kept(n) > 0 /\ Differs(SubSeq(n, 1, Kept(n)), "registry")

Created(n) == {n} \cup {p \in Above(n) : Len(p) > Kept(n)}

\* Mutant: the events are raised innermost first.
AddEvents_Inner(n) ==
    LET k == Cardinality(Created(n))
    IN  [i \in 1..k |-> Raise(SubSeq(n, 1, Len(n) - i + 1), "add")]

AddEvents(n) ==
    LET k == Cardinality(Created(n))
    IN  [i \in 1..k |-> Raise(SubSeq(n, 1, Len(n) - k + i), "add")]

\* Mutant: the missing parents are entered in the table without a node.
With_NoNode(n, node, above) ==
    [m \in Present \cup Created(n) |->
        IF m = n THEN node ELSE IF m \in Created(n) THEN NULL ELSE nodes[m]]

\* The table with n |-> node and its missing parents |-> above.
With(n, node, above) ==
    [m \in Present \cup Created(n) |->
        IF m = n THEN node ELSE IF m \in Created(n) THEN above ELSE nodes[m]]

Add(n, p) ==
    /\ MayWrite
    /\ n \notin Present
    /\ ParentAccepts(n)
    /\ nodes' = With(n, p, [kind |-> "registry", val |-> 0])
    /\ stack' = AddEvents(n) \o stack
    /\ UNCHANGED <<tables, hash, view>>

\* A parent turns out to be a leaf: the call fails without an event, nr_reg_set
\* frees its node and those of the parents it created, nr_reg_set_array keeps
\* its own; the table keeps its pointers to all of them.
AddFails(n, p) ==
    LET freed == [kind |-> "freed", val |-> 0]
    IN  /\ MayWrite
        /\ n \notin Present
        /\ ParentRefuses(n)
        /\ nodes' = With(n, IF p.kind = "array" THEN p ELSE freed, freed)
        /\ UNCHANGED <<tables, hash, stack, view>>

\* nr_reg_change_node.
Change(n, p) ==
    /\ MayWrite
    /\ n \in Present
    /\ p.kind # "registry"
    /\ Matches(n, p.kind)
    /\ nodes[n] # p
    /\ nodes' = IF nodes[n].kind = "freed" THEN nodes ELSE [nodes EXCEPT ![n] = p]
    /\ stack' = <<Raise(n, "change")>> \o stack
    /\ UNCHANGED <<tables, hash, view>>

\* Mutant: deletes the node, not what is below it.
Deleted_Node(n) == {n}

Deleted(n) == Under(n)

\* nr_reg_local_del: one event for the whole subtree, raised even if the name
\* does not exist; the root is inserted again after the event.
Delete(n) ==
    /\ MayWrite
    /\ nodes' = [m \in Present \ Deleted(n) |-> nodes[m]]
    /\ stack' = <<Raise(n, "delete")>> \o (IF n = ROOT THEN <<Reinsert>> ELSE <<>>) \o stack
    /\ UNCHANGED <<tables, hash, view>>

\* Mutant: the root is not inserted again.
ReinsertRoot_Not ==
    /\ Top("reinsert")
    /\ stack' = Tail(stack)
    /\ UNCHANGED <<nodes, tables, hash, view>>

\* nr_reg_local_set_registry(NR_TOP_LEVEL_REGISTRY) at the end of that call: it
\* does nothing (or fails) if a callback has set the root meanwhile.
ReinsertRoot ==
    /\ Top("reinsert")
    /\ IF ROOT \in Present
       THEN /\ stack' = Tail(stack)
            /\ UNCHANGED nodes
       ELSE /\ stack' = AddEvents(ROOT) \o Tail(stack)
            /\ nodes' = With(ROOT, [kind |-> "registry", val |-> 0], NULL)
    /\ UNCHANGED <<tables, hash, view>>

\* nr_reg_local_fin.
Fin(n) ==
    /\ MayWrite
    /\ stack' = <<Raise(n, "final")>> \o stack
    /\ UNCHANGED <<nodes, tables, hash, view>>

-----------------------------------------------------------------------------
(***************************************************************************)
(* nr_reg_raise_event and nr_reg_raise_event_recurse: the callbacks of the  *)
(* name, then those of each name above it, up to the root.                  *)
(***************************************************************************)
BeginEvent ==
    /\ Top("raise")
    /\ LET f == Head(stack)
           none == \A n \in Names : tables[n] = <<>>
       IN  stack' = (IF none THEN <<>> ELSE <<Level(f.name, f.action, f.name)>>) \o Tail(stack)
    /\ UNCHANGED <<nodes, tables, hash, view>>

\* What the root's watcher knows after an event.
Seen(n, a) ==
    CASE a = "add"    -> view \cup {n}
      [] a = "delete" -> view \ Under(n)
      [] OTHER        -> view

\* r_assoc_iter moves on before the callback is called.
Visit ==
    /\ Top("level")
    /\ LET f == Head(stack)
           e == f.next
           g == [f EXCEPT !.next = NextIn(tables[f.level], e, NULL),
                          !.due  = @ \ {e}, !.done = @ \cup {e}]
       IN  /\ e # NULL
           /\ IF e.action = f.action /\ e.cb # SEND_EVENT
              THEN stack' = <<Call(e), g>> \o Tail(stack)
              ELSE stack' = <<g>> \o Tail(stack)
           /\ view' = IF e.action = f.action /\ e.cb = SEND_EVENT
                      THEN Seen(f.name, f.action) ELSE view
    /\ UNCHANGED <<nodes, tables, hash>>

\* Mutant: the walk ends one level below the root.
Climb_Short ==
    /\ Top("level")
    /\ LET f == Head(stack)
       IN  /\ f.next = NULL
           /\ stack' = (IF Len(f.level) <= 1 THEN <<>>
                        ELSE <<Level(f.name, f.action, Parent(f.level))>>) \o Tail(stack)
    /\ UNCHANGED <<nodes, tables, hash, view>>

\* Mutant: the walk does not stop at the root.
Climb_Forever ==
    /\ Top("level")
    /\ LET f == Head(stack)
       IN  /\ f.next = NULL
           /\ stack' = <<Level(f.name, f.action, Parent(f.level))>> \o Tail(stack)
    /\ UNCHANGED <<nodes, tables, hash, view>>

Climb ==
    /\ Top("level")
    /\ LET f == Head(stack)
       IN  /\ f.next = NULL
           /\ stack' = (IF f.level = ROOT THEN <<>>
                        ELSE <<Level(f.name, f.action, Parent(f.level))>>) \o Tail(stack)
    /\ UNCHANGED <<nodes, tables, hash, view>>

\* A callback returns.
Return ==
    /\ Top("call")
    /\ stack' = Tail(stack)
    /\ UNCHANGED <<nodes, tables, hash, view>>

-----------------------------------------------------------------------------
\* registryd starts: nr_reg_local_init, then the registrations of
\* nr_registry_server, each at the head of its chain.
Init ==
    /\ nodes = [n \in {ROOT} |-> [kind |-> "registry", val |-> 0]]
    /\ hash \in Hashes
    /\ LET Ent(a) == [cb |-> SEND_EVENT, action |-> a]
       IN  tables = [n \in Names |->
                        IF n # ROOT THEN <<>>
                        ELSE Inserted(Inserted(Inserted(<<Ent("add")>>, Ent("change")),
                                               Ent("delete")), Ent("final"))]
    /\ stack = <<>>
    /\ view = {ROOT}

ClientStep ==
    \/ \E n \in Names, p \in Payloads : Add(n, p) \/ AddFails(n, p) \/ Change(n, p)
    \/ \E n \in Names : Delete(n) \/ Fin(n)
    \/ \E w \in Watches : LET e == [cb |-> w.cb, action |-> w.action]
                          IN  Register(w.name, e) \/ Unregister(w.name, e)

\* The steps of a call in progress, callbacks' returns included.
CallStep == ReinsertRoot \/ BeginEvent \/ Visit \/ Climb \/ Return

Next == ClientStep \/ CallStep

Spec == Init /\ [][Next]_vars

\* A call never blocks, and a callback returns.
FairSpec == Spec /\ WF_vars(CallStep)

-----------------------------------------------------------------------------
(***************************************************************************)
(* nr_reg_local_get_child_count and nr_reg_local_get_children.              *)
(***************************************************************************)
\* What nr_reg_local_count_children counts: for the root, every other name.
CountChildren(p) ==
    Cardinality({n \in Present \cap Under(p) :
                    IF p = ROOT THEN n # ROOT ELSE Len(n) = Len(p) + 1})

\* Mutant: what nr_reg_local_find_children copies includes the deeper names.
Found_Deep(p) == {n \in Present \cap Under(p) : Len(n) > Len(p)}

Found(p) == {n \in Present \cap Under(p) : Len(n) = Len(p) + 1}

\* NULL for R_BAD_ARGS: the array has no room left after the last name copied.
GetChildren(p, size) ==
    IF Found(p) # {} /\ Cardinality(Found(p)) >= size THEN NULL ELSE Found(p)

\* The names of NR_reg_get_child_registry(p, i, ...), for every i it accepts.
ChildRegistries(p) == GetChildren(p, CountChildren(p) + 1)

-----------------------------------------------------------------------------
Frames ==
    [op : {"raise"}, name : Names, action : Actions]
        \cup [op : {"level"}, name : Names, action : Actions, level : Names,
              next : Entries \cup {NULL}, due : SUBSET Entries, done : SUBSET Entries]
        \cup [op : {"call"}, cb : {w.cb : w \in Watches}]
        \cup [op : {"reinsert"}]

TypeOK ==
    /\ Present \subseteq Names
    /\ \A n \in Present : nodes[n] \in [kind : Kinds \cup {"freed"}, val : Nat]
    /\ tables \in [Names -> Seq(Entries)]
    /\ hash \in [Entries -> Nat]
    /\ \A i \in 1..Len(stack) : stack[i] \in Frames
    /\ view \subseteq Names

(***************************************************************************)
(* Safety.                                                                  *)
(***************************************************************************)
Leaf(n) == n \in Present /\ nodes[n].kind # "registry"

\* Whenever user code can look, every name above one that exists exists too:
\* callbacks run only once all missing parents are in the table, and a delete
\* takes the whole subtree, also in the middle of another call's events.  "make
\* sure NR_TOP_LEVEL_REGISTRY always exists": the root is missing only while the
\* events of its own deletion are raised, nested deletions included.
AncestorsPresent ==
    /\ \A n \in Present : Above(n) \subseteq Present
    /\ ROOT \in Present \/ \E i \in 1..Len(stack) : stack[i].op = "reinsert"

\* Iteration over a table of callbacks that callbacks themselves register in and
\* unregister from: an entry is never visited twice in an event, nor is
\* one skipped that was there all along, and the pointer to the next one
\* is in the table.
EachToldOnce ==
    \A i \in 1..Len(stack) :
        stack[i].op = "level" =>
            LET f == stack[i]
            IN  /\ f.next \notin f.done
                /\ f.next # NULL => f.next \in Members(tables[f.level])
                /\ f.next = NULL => f.due = {}

\* A client that follows the events (as registryd's clients do) knows what
\* exists: between two calls, the names it has seen added and not deleted exist,
\* and the only names it has not been told of are below a leaf, where a failed
\* call left them.
WatcherAgrees ==
    stack = <<>> =>
        /\ view \subseteq Present
        /\ \A n \in Present \ view : \E p \in Above(n) : Leaf(p)

\* The names that NR_reg_get_child_registry lists are the children, whatever
\* has been added and deleted: the count it starts from is large enough.
ListsChildren ==
    \A p \in Present : ChildRegistries(p) = {n \in Present \ {ROOT} : Parent(n) = p}

(***************************************************************************)
(* Action properties.                                                       *)
(***************************************************************************)
\* The client is told of a registry before it is told of what is in it,
\* although the node is put in the table before its parents are (unless the
\* parent is what a failed call left below a leaf).
ParentsFirst ==
    [][\A n \in view' \ view : \A p \in Above(n) :
          p \in view \/ \E q \in Above(p) : Leaf(q)]_vars

(***************************************************************************)
(* What the comments say, and the code does not do.                         *)
(***************************************************************************)
\* registry_local.c:153: the registry maps names to registry nodes, "which are
\* either of type nr_scalar_registry_node or nr_array_registry_node".
MapsToNodes == \A n \in Present : nodes[n].kind # "freed"

(***************************************************************************)
(* Liveness.                                                                *)
(***************************************************************************)
\* Every call returns, whatever its callbacks register and unregister.
CallReturns == (stack # <<>>) ~> (stack = <<>>)
=============================================================================
