------------------------------ MODULE Containers ------------------------------
(***************************************************************************)
(* Two sequential containers of the utility library.  r_list.c: linked      *)
(* lists with a first and a last pointer, copies and an iterator (prev is   *)
(* set but never read, and left out).  p_buf.c: chains of buffers that come *)
(* from a common free list; a write fills the last buffer and then takes as *)
(* many as it needs, and may fail for want of memory after a part.          *)
(*                                                                          *)
(* Reading from a chain is the program's: it advances r_offset and gives a  *)
(* buffer back when it is empty.  It also initialises the head of a chain   *)
(* again after nr_p_buf_free_chain, which leaves it alone.  A list function *)
(* whose malloc fails leaves the list as it was and is not a step.          *)
(***************************************************************************)
EXTENDS Integers, Sequences, FiniteSets

CONSTANTS
    ListData,    \* what programs put in lists
    Copyable,    \* those that come with a copy function
    ListCellCt,  \* bound: list elements that malloc has
    Heads,       \* the chains
    BufCt,       \* bound: buffers that malloc has
    BufSize,     \* ctx->buf_size
    MaxPending   \* bound: bytes written to a chain and not read

NIL     == 0
NOBYTE  == 0  \* what a byte is before it is written and after it is read: 1..3 are written in turn
NODATA  == "nodata"

ASSUME ContainersAssumption ==
    /\ Copyable \subseteq ListData /\ NODATA \notin ListData
    /\ {"held", "free"} \cap Heads = {}
    /\ {ListCellCt, BufCt, BufSize, MaxPending} \subseteq Nat \ {0}

Lists   == {"in", "out"}  \* a list, and the copy of one

VARIABLES
    listCell,   \* the allocated elements: number -> [data, next]
    lists,      \* the lists that exist: name -> [first, last]
    put,        \* name -> what was put in it, in order
    misfit,     \* a list was appended to after an insertion had made it nonempty
    cursor,     \* the iterator over "in": [ptr, due], due what it has yet to return
    listOwned,  \* data handed over to lists, or copied by them, and not destroyed
    buf,        \* number -> [data, r_offset, length]
    freeList,   \* ctx->free_list
    chain,      \* head -> its buffers
    held,       \* the buffers that the program has in its hands
    pending     \* head -> the bytes written and not read

listVars  == <<listCell, lists, put, misfit, cursor, listOwned>>
chainVars == <<buf, freeList, chain, held, pending>>

Smallest(S) == CHOOSE x \in S : \A y \in S : x <= y

-----------------------------------------------------------------------------
(* Lists. *)
NewCell == Smallest((1..ListCellCt) \ DOMAIN listCell)
HasCell(n) == Cardinality(DOMAIN listCell) + n <= ListCellCt
NewCells(n) == CHOOSE f \in [1..n -> (1..ListCellCt) \ DOMAIN listCell] :
                   \A i, j \in 1..n : f[i] = f[j] => i = j

\* The elements from a on, following next.
From(a) ==
    LET walk[n \in 0..ListCellCt] ==
            IF n = 0 THEN a ELSE IF walk[n - 1] = NIL THEN NIL ELSE listCell[walk[n - 1]].next
        ends == {n \in 0..ListCellCt : walk[n] = NIL}
    IN  [n \in 1..Smallest(ends) |-> walk[n - 1]]
DataOf(cells) == [n \in DOMAIN cells |-> listCell[cells[n]].data]

ListInit ==
    /\ listCell = <<>> /\ lists = <<>> /\ listOwned = 0
    /\ put = [l \in Lists |-> <<>>] /\ misfit = FALSE
    /\ cursor = [ptr |-> NIL, due |-> <<>>]

\* r_list_create.
ListCreate ==
    /\ "in" \notin DOMAIN lists
    /\ lists' = [k \in DOMAIN lists \cup {"in"} |-> IF k = "in" THEN [first |-> NIL, last |-> NIL]
                                                   ELSE lists[k]]
    /\ put' = [put EXCEPT !["in"] = <<>>]
    /\ UNCHANGED <<listCell, misfit, cursor, listOwned>>

\* r_list_insert: at the front; last is left alone.
ListInsert(l, d) ==
    /\ l \in DOMAIN lists /\ HasCell(1)
    /\ listCell' = [a \in DOMAIN listCell \cup {NewCell} |->
                      IF a = NewCell THEN [data |-> d, next |-> lists[l].first] ELSE listCell[a]]
    /\ lists' = [lists EXCEPT ![l] = [first |-> NewCell, last |-> lists[l].last]]
    /\ put' = [put EXCEPT ![l] = <<d>> \o @]
    /\ listOwned' = listOwned + 1
    /\ UNCHANGED <<misfit, cursor>>

\* r_list_append: behind last; a list without a last element gets a new first one.
ListAppend(l, d) ==
    /\ l \in DOMAIN lists /\ HasCell(1)
    /\ listCell' = [a \in DOMAIN listCell \cup {NewCell} |->
                      IF a = NewCell THEN [data |-> d, next |-> NIL]
                      ELSE IF a = lists[l].last THEN [listCell[a] EXCEPT !.next = NewCell]
                      ELSE listCell[a]]
    /\ lists' = [lists EXCEPT ![l] = [first |-> IF lists[l].last = NIL THEN NewCell ELSE lists[l].first,
                                      last |-> NewCell]]
    /\ put' = [put EXCEPT ![l] = Append(@, d)]
    /\ misfit' = (lists[l].last = NIL /\ lists[l].first # NIL)
    /\ listOwned' = listOwned + 1
    /\ cursor' = IF l = "in" /\ cursor.ptr # NIL THEN [ptr |-> cursor.ptr, due |-> Append(cursor.due, d)]
                  ELSE cursor

\* r_list_copy: new elements in the same order; a datum without a copy function is dropped.
ListCopy ==
    /\ "in" \in DOMAIN lists /\ "out" \notin DOMAIN lists
    /\ LET old    == From(lists["in"].first)
           cells  == NewCells(Len(old))
           At_n(n) == IF n \in 1..Len(old) THEN cells[n] ELSE NIL
           Kept(d) == IF d \in Copyable THEN d ELSE NODATA
           data   == [n \in 1..Len(old) |-> Kept(listCell[old[n]].data)]
       IN  /\ HasCell(Len(old))
           /\ listCell' = [a \in DOMAIN listCell \cup {cells[n] : n \in 1..Len(old)} |->
                             IF a \in DOMAIN listCell THEN listCell[a]
                             ELSE LET n == CHOOSE i \in 1..Len(old) : cells[i] = a
                                  IN  [data |-> data[n], next |-> At_n(n + 1)]]
           /\ lists' = [k \in Lists |-> IF k = "out" THEN [first |-> At_n(1), last |-> At_n(Len(old))]
                                        ELSE lists[k]]
           /\ put' = [put EXCEPT !["out"] = [n \in DOMAIN put["in"] |-> Kept(put["in"][n])]]
           /\ listOwned' = listOwned + Cardinality({n \in 1..Len(old) : data[n] # NODATA})
    /\ UNCHANGED <<misfit, cursor>>

\* r_list_destroy: every datum that is there, every element, the list.
ListDestroy(l) ==
    /\ l \in DOMAIN lists
    /\ LET cells == From(lists[l].first)
           freed == {cells[n] : n \in DOMAIN cells}
       IN  /\ listCell' = [a \in DOMAIN listCell \ freed |-> listCell[a]]
           /\ listOwned' = listOwned - Cardinality({a \in freed : listCell[a].data # NODATA})
    /\ lists' = [k \in DOMAIN lists \ {l} |-> lists[k]]
    /\ cursor' = IF l = "in" THEN [ptr |-> NIL, due |-> <<>>] ELSE cursor
    /\ put' = [put EXCEPT ![l] = <<>>]
    /\ UNCHANGED misfit

\* r_list_init_iter, then r_list_iter until it returns R_EOD.
ListInitIter ==
    /\ "in" \in DOMAIN lists
    /\ cursor' = [ptr |-> lists["in"].first, due |-> put["in"]]
    /\ UNCHANGED <<listCell, lists, put, misfit, listOwned>>
ListIter ==
    /\ cursor.ptr # NIL
    /\ cursor' = [ptr |-> listCell[cursor.ptr].next,
                  due |-> IF cursor.due = <<>> THEN <<>> ELSE Tail(cursor.due)]
    /\ UNCHANGED <<listCell, lists, put, misfit, listOwned>>

\* Bound: a behaviour is followed up to the first append that loses elements.
ListNext ==
    /\ ~misfit
    /\ \/ ListCreate
       \/ \E l \in Lists : \/ ListDestroy(l)
                           \/ \E d \in ListData : ListInsert(l, d) \/ ListAppend(l, d)
       \/ ListCopy
       \/ ListInitIter
       \/ ListIter

-----------------------------------------------------------------------------
(* Chains of buffers. *)
Used    == {held[n] : n \in DOMAIN held} \cup {freeList[n] : n \in DOMAIN freeList} \cup
           UNION {{chain[h][n] : n \in DOMAIN chain[h]} : h \in Heads}
Stock   == [data |-> [i \in 1..BufSize |-> NOBYTE], r_offset |-> 0, length |-> 0]

ChainInit ==
    /\ buf = [b \in 1..BufCt |-> Stock] /\ freeList = <<>> /\ held = <<>>
    /\ chain = [h \in Heads |-> <<>>]
    /\ pending = [h \in Heads |-> <<>>]

\* Mutant: a buffer from the free list is taken as it is.
Emptied_Kept(b) == buf[b]
\* nr_p_buf_alloc: from the head of the free list, else new.  What is in it stays.
Emptied(b) == [data |-> buf[b].data, r_offset |-> 0, length |-> 0]
Unused == (1..BufCt) \ Used
Obtainable ==
    freeList \o (CHOOSE s \in [1..Cardinality(Unused) -> Unused] :
                    \A i, j \in 1..Cardinality(Unused) : s[i] = s[j] => i = j)
\* What is behind place m of s, up to place n.
Slice(s, m, n) == [i \in 1..(n - m) |-> s[m + i]]
StillFree(k) == Slice(freeList, k, Len(freeList))

\* nr_p_buf_alloc and nr_p_buf_free, called by the program.
BufAlloc ==
    /\ held = <<>> /\ Obtainable # <<>>
    /\ buf' = [buf EXCEPT ![Head(Obtainable)] = Emptied(Head(Obtainable))]
    /\ held' = <<Head(Obtainable)>> /\ freeList' = StillFree(1)
    /\ UNCHANGED <<chain, pending>>
BufFree ==
    /\ held # <<>>
    /\ freeList' = Append(freeList, held[1]) /\ held' = <<>>
    /\ UNCHANGED <<buf, chain, pending>>

Lesser(a, b) == IF a < b THEN a ELSE b
End(b)       == b.length + b.r_offset
Filled(b, bytes) ==
    [data     |-> [i \in 1..BufSize |-> IF i - End(b) \in DOMAIN bytes THEN bytes[i - End(b)]
                                        ELSE b.data[i]],
     r_offset |-> b.r_offset,
     length   |-> b.length + Len(bytes)]

\* nr_p_buf_write_to_chain: the room in the last buffer, then new ones; got of those that
\* are needed can be allocated, and what does not fit is not written.
BufWrite(h, len, got) ==
    LET before == IF pending[h] = <<>> THEN 0 ELSE pending[h][Len(pending[h])]
        bytes == [i \in 1..len |-> 1 + ((before + i - 1) % 3)]
        last  == IF chain[h] = <<>> THEN 0 ELSE chain[h][Len(chain[h])]
        here  == IF last = 0 THEN 0 ELSE Lesser(len, BufSize - End(buf[last]))
        need  == (len - here + BufSize - 1) \div BufSize
        done  == Lesser(len, here + got * BufSize)
        Part(j) == Slice(bytes, here + (j - 1) * BufSize, Lesser(len, here + j * BufSize))
        new   == Slice(Obtainable, 0, got)
    IN  /\ got <= need /\ got <= Len(Obtainable)
        /\ Len(pending[h]) + done <= MaxPending
        /\ buf' = [b \in DOMAIN buf |->
                     IF b = last THEN Filled(buf[b], Slice(bytes, 0, here))
                     ELSE IF \E j \in DOMAIN new : new[j] = b
                     THEN Filled(Emptied(b), Part(CHOOSE j \in DOMAIN new : new[j] = b))
                     ELSE buf[b]]
        /\ chain' = [chain EXCEPT ![h] = @ \o new]
        /\ freeList' = StillFree(got)
        /\ pending' = [pending EXCEPT ![h] = @ \o Slice(bytes, 0, done)]
        /\ UNCHANGED held

\* The program reads a byte, and gives an empty buffer back with nr_p_buf_free.
BufRead(h) ==
    /\ pending[h] # <<>>
    /\ LET b  == Head(chain[h])
           at == buf[b].r_offset + 1
       IN  /\ buf' = [buf EXCEPT ![b] = [data |-> [buf[b].data EXCEPT ![at] = NOBYTE],
                                         r_offset |-> at, length |-> buf[b].length - 1]]
           /\ IF buf[b].length = 1
              THEN chain' = [chain EXCEPT ![h] = Tail(@)] /\ freeList' = Append(freeList, b)
              ELSE UNCHANGED <<chain, freeList>>
    /\ pending' = [pending EXCEPT ![h] = Tail(@)]
    /\ UNCHANGED held

\* nr_p_buf_free_chain; the program initialises the head again, and what the buffers hold
\* is not looked at any more (their r_offset and length stay).
BufFreeChain(h) ==
    /\ chain[h] # <<>>
    /\ freeList' = freeList \o chain[h]
    /\ buf' = [b \in DOMAIN buf |-> IF \E n \in DOMAIN chain[h] : chain[h][n] = b
                                     THEN [buf[b] EXCEPT !.data = Stock.data] ELSE buf[b]]
    /\ chain' = [chain EXCEPT ![h] = <<>>] /\ pending' = [pending EXCEPT ![h] = <<>>]
    /\ UNCHANGED held

\* nr_p_buf_destroy_chain
DestroyChain(bs) == [b \in DOMAIN buf |-> IF \E n \in DOMAIN bs : bs[n] = b THEN Stock ELSE buf[b]]

\* nr_p_buf_ctx_destroy destroys the free list; nr_p_buf_ctx_create begins with none.
BufContext ==
    /\ freeList # <<>>
    /\ buf' = DestroyChain(freeList)
    /\ freeList' = <<>>
    /\ UNCHANGED <<chain, held, pending>>

ChainNext ==
    \/ BufAlloc
    \/ BufFree
    \/ \E h \in Heads : \/ \E len \in 1..MaxPending, got \in 0..BufCt : BufWrite(h, len, got)
                        \/ BufRead(h)
                        \/ BufFreeChain(h)
    \/ BufContext

-----------------------------------------------------------------------------
DataIn(b)    == [i \in 1..b.length |-> IF i + b.r_offset \in DOMAIN b.data
                                        THEN b.data[i + b.r_offset] ELSE NOBYTE]
Contents(h)  == LET upto[n \in 0..Len(chain[h])] ==
                        IF n = 0 THEN <<>> ELSE upto[n - 1] \o DataIn(buf[chain[h][n]])
                IN  upto[Len(chain[h])]

\* A list holds exactly what was put in it, in order, and a copy what has a copy function;
\* an iteration goes on to the end of the list it was begun in, whatever is added meanwhile;
\* no datum is destroyed twice or forgotten.  Not so for a list that was appended to after
\* an insertion: r_list_insert does not set last in an empty list.
ListFaithful ==
    ~misfit =>
        /\ \A l \in DOMAIN lists : DataOf(From(lists[l].first)) = put[l]
        /\ DataOf(From(cursor.ptr)) = cursor.due
        /\ listOwned = Cardinality({a \in DOMAIN listCell : listCell[a].data # NODATA})

Places == {<<"held", n>> : n \in DOMAIN held} \cup {<<"free", n>> : n \in DOMAIN freeList} \cup
          UNION {{<<h, n>> : n \in DOMAIN chain[h]} : h \in Heads}
LiesAt(p) == IF p[1] = "held" THEN held[p[2]]
             ELSE IF p[1] = "free" THEN freeList[p[2]] ELSE chain[p[1]][p[2]]

\* Whatever the order of writes, reads and returned chains, and where a write stopped, the
\* bytes in a chain are those that were written and not read, in order, and no buffer is in
\* two places.
ChainFaithful ==
    /\ \A h \in Heads : Contents(h) = pending[h]
    /\ \A p, q \in Places : LiesAt(p) = LiesAt(q) => p = q

\* The two containers side by side, which share nothing.
ContainersNext ==
    \/ ListNext /\ UNCHANGED chainVars
    \/ ChainNext /\ UNCHANGED listVars
ContainersSpec == ListInit /\ ChainInit /\ [][ContainersNext]_<<listVars, chainVars>>

\* Both containers keep what they were given (r_list.c, p_buf.c).
ContentsKept == ListFaithful /\ ChainFaithful

=============================================================================
