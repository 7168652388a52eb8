------------------------- MODULE RegistryRPCProofs -------------------------
(***************************************************************************)
(* Proofs about the registry daemon and its clients, for any number of      *)
(* clients, names and values, any bounds, and any crashes and timeouts.     *)
(***************************************************************************)
EXTENDS RegistryRPC, CallbackQueueTheorems, FiniteSetTheorems

\* A procedure's arguments; a call that an application makes.
OpOK(op) ==
    /\ op.proc \in {"get", "set", "alloc", "length", "type", "del", "fin", "children", "count",
                    "register"}
    /\ op.proc \notin {"children", "count", "register"} => op.name \in Names
    /\ op.proc = "set" => op.val \in Values
CallOK(op) == OpOK(op) /\ op.proc # "register"

Places == {"new", "idle", "try", "wait", "failed", "cbinit", "regwait", "exited"}
ClientEntries == [client : Clients, live : BOOLEAN]

TypeInv ==
    /\ store \in [Names -> Values \cup {NONE}] /\ maxlen \in Nat
    /\ list \in Seq(ClientEntries)
    /\ pc \in [Clients -> Places]
    /\ call = [c \in Clients |-> call[c]] /\ ctx = [c \in Clients |-> ctx[c]]
    /\ open \in [Clients -> BOOLEAN] /\ eof \in [Clients -> BOOLEAN]

\* The RPC that is served; its answer is never that a buffer is too small.
JobInv ==
    job # Idle =>
        /\ job = [req |-> job.req, line |-> job.line, reply |-> job.reply, todo |-> job.todo]
        /\ job.reply.ret # "R_BAD_ARGS"

\* The RPCs under way.  A client waits for the answer of at most one of them: the one
\* that it makes, or its registration.
Asked == requests \cup (IF job = Idle THEN {} ELSE {job.req})
Awaits(r) ==
    /\ pc[r.client] = IF r.op = REGISTER THEN "regwait" ELSE "wait"
    /\ r.op # REGISTER => r.op = call[r.client]
AskedInv ==
    /\ IsFiniteSet(requests)
    /\ \A r \in Asked : /\ r.client \in Clients /\ OpOK(r.op) /\ r.tag \in Nat
                        /\ r = Request(r.client, r.op, r.tag)
                        /\ r.tag = 0 => Awaits(r)
    /\ job # Idle /\ job.req.tag = 0 => job.req \notin requests

\* A client that tries, or that will try again, has a call; one that waits to be
\* registered has closed its old connection.
ClientInv ==
    \A c \in Clients :
        /\ ctx[c] = "retry" => pc[c] \in {"cbinit", "regwait"}
        /\ pc[c] \in {"try", "wait", "failed"} \/ ctx[c] = "retry" => CallOK(call[c])
        /\ pc[c] = "regwait" => ~open[c]

\* A live entry is one of a client whose event connection is up, and its only one.
LiveAt(l, c) == {i \in 1..Len(l) : l[i] = Entry(c, TRUE)}
ListInv ==
    \A c \in Clients :
        /\ open[c] /\ ~eof[c] => LiveAt(list, c) # {}
        /\ LiveAt(list, c) # {} => open[c] /\ ~eof[c]
        /\ \A i, j \in LiveAt(list, c) : i = j

RpcInv == TypeInv /\ JobInv /\ AskedInv /\ ClientInv /\ ListInv

-----------------------------------------------------------------------------
(***************************************************************************)
(* The procedures.                                                          *)
(***************************************************************************)
LEMMA FetchedLemma ==
    ASSUME store \in [Names -> Values \cup {NONE}], NEW n \in Names, NEW t
    PROVE  /\ Fetched(n, t) \in {"R_NOT_FOUND", "R_FAILED", "0"}
           /\ Fetched(n, t) = "0" => store[n] \in Values /\ store[n].type = t
BY DEF Fetched

\* The fields of an outcome.
LEMMA OutcomeLemma ==
    ASSUME NEW table, NEW event, NEW ret, NEW val
    PROVE  /\ Outcome(table, event, ret, val).store = table
           /\ Outcome(table, event, ret, val).event = event
           /\ Outcome(table, event, ret, val).reply.ret = ret
           /\ Outcome(table, event, ret, val).reply.val = val
           /\ Answer(ret, val).store = store
           /\ Answer(ret, val).reply.ret = ret
BY DEF Outcome, Answer

\* The buffer that a get leaves is large enough for the value it got.
LEMMA GrownLemma ==
    ASSUME store \in [Names -> Values \cup {NONE}], maxlen \in Nat, NEW op, OpOK(op)
    PROVE  /\ Grown(op) \in Nat
           /\ op.proc = "get" /\ op.type \in ArrayTypes /\ Fetched(op.name, op.type) = "0"
                 => GetArray(store[op.name], Grown(op)) = "0"
<1> DEFINE v == store[op.name]
<1>1. CASE ~(op.proc = "get" /\ op.type \in ArrayTypes /\ Fetched(op.name, op.type) = "0")
  BY <1>1 DEF Grown
<1>2. CASE op.proc = "get" /\ op.type \in ArrayTypes /\ Fetched(op.name, op.type) = "0"
  <2>1. v \in Values /\ v.type = op.type
    BY <1>2, FetchedLemma DEF OpOK
  <2>2. v.data \in Nat /\ v.type \in ArrayTypes
    BY <1>2, <2>1, ValuesAssumption
  <2>3. ReportedLength(op.name, v) = v.data
    <3>1. DOMAIN ScalarSize = {"char", "UCHAR", "INT2", "UINT2", "INT4", "UINT4", "INT8", "UINT8",
                               "double"}
      BY DEF ScalarSize
    <3>2. v.type \notin DOMAIN ScalarSize /\ v.type # "registry"
      BY <2>2, <3>1 DEF ArrayTypes
    <3> QED
      BY <2>2, <3>2 DEF ReportedLength
  <2>4. StoredLength(v) \in {v.data, v.data + 1}
    BY DEF StoredLength
  <2>5. Grown(op) = IF GetArray(v, maxlen) = "R_BAD_ARGS" THEN Adjusted(op.name, v) ELSE maxlen
    BY <1>2 DEF Grown
  <2>6. Adjusted(op.name, v) = IF v.data >= maxlen THEN v.data + 2 ELSE maxlen
    BY <2>3 DEF Adjusted
  <2>7. \A room : GetArray(v, room) = IF room < StoredLength(v) THEN "R_BAD_ARGS" ELSE "0"
    BY DEF GetArray
  <2> HIDE DEF v
  <2>8. /\ Grown(op) \in Nat
        /\ ~(Grown(op) < StoredLength(v))
    <3> DEFINE sl == StoredLength(v)
               d  == v.data
    <3>1. d \in Nat /\ (sl = d \/ sl = d + 1)
      BY <2>2, <2>4
    <3>2. Grown(op) = IF maxlen < sl THEN (IF d >= maxlen THEN d + 2 ELSE maxlen) ELSE maxlen
      BY <2>5, <2>6, <2>7
    <3> HIDE DEF sl, d
    <3>3. Grown(op) \in Nat /\ ~(Grown(op) < sl)
      BY <3>1, <3>2
    <3> QED
      BY <3>3 DEF sl
  <2> QED
    BY <2>7, <2>8 DEF v
<1> QED
  BY <1>1, <1>2

\* Every procedure leaves a table of typed values, and none answers that the daemon's
\* buffer is too small.
LEMMA DispatchLemma ==
    ASSUME store \in [Names -> Values \cup {NONE}], maxlen \in Nat, NEW op, OpOK(op)
    PROVE  /\ Dispatch(op).store \in [Names -> Values \cup {NONE}]
           /\ Dispatch(op).reply.ret # "R_BAD_ARGS"
<1> DEFINE Good(o) == o.store \in [Names -> Values \cup {NONE}] /\ o.reply.ret # "R_BAD_ARGS"
<1>1. ASSUME NEW ret, NEW val, ret # "R_BAD_ARGS" PROVE Good(Answer(ret, val))
  BY <1>1, OutcomeLemma
<1>2. ASSUME NEW n \in Names, NEW v \in Values \cup {NONE}, NEW event
      PROVE  Good(Outcome([store EXCEPT ![n] = v], event, "0", NONE))
  <2> DEFINE t == [store EXCEPT ![n] = v]
  <2>1. t \in [Names -> Values \cup {NONE}]
    OBVIOUS
  <2> HIDE DEF t
  <2>2. Good(Outcome(t, event, "0", NONE))
    BY <2>1, OutcomeLemma
  <2> QED
    BY <2>2 DEF t
<1>3. ASSUME NEW n \in Names, NEW t PROVE Good(LocalGet(n, t))
  <2>1. Fetched(n, t) # "R_BAD_ARGS"
    BY FetchedLemma
  <2> QED
    BY <1>1, <2>1 DEF LocalGet
<1>4. ASSUME NEW n \in Names, NEW val PROVE Good(OfNode(n, val))
  BY <1>1 DEF OfNode
<1> HIDE DEF Good
<1>5. CASE op.proc = "get"
  <2>1. op.name \in Names
    BY <1>5 DEF OpOK
  <2>2. CASE op.type \in ArrayTypes
    <3>1. DoGetArray(op) = LocalGet(op.name, op.type)
      BY <1>5, <2>2, GrownLemma DEF DoGetArray
    <3>2. Dispatch(op) = DoGetArray(op)
      BY <1>5, <2>2 DEF Dispatch, GetProc
    <3> QED
      BY <1>3, <2>1, <3>1, <3>2 DEF Good
  <2>3. CASE op.type \notin ArrayTypes
    <3>1. Dispatch(op) = LocalGet(op.name, op.type)
      BY <1>5, <2>3 DEF Dispatch, GetProc, DoGetScalar
    <3> QED
      BY <1>3, <2>1, <3>1 DEF Good
  <2> QED
    BY <2>2, <2>3
<1>6. CASE op.proc \in {"length", "alloc"}
  <2>1. Dispatch(op) = DoLength(op) /\ op.name \in Names
    BY <1>6 DEF Dispatch, GetProc, OpOK
  <2> QED
    BY <1>4, <2>1 DEF DoLength, Good
<1>7. CASE op.proc = "type"
  <2>1. Dispatch(op) = DoType(op) /\ op.name \in Names
    BY <1>7 DEF Dispatch, GetProc, OpOK
  <2> QED
    BY <1>4, <2>1 DEF DoType, Good
<1>8. CASE op.proc = "set"
  <2>1. Dispatch(op) = LocalSet(op.name, op.val) /\ op.name \in Names /\ op.val \in Values
    BY <1>8 DEF Dispatch, SetProc, DoSet, OpOK
  <2> DEFINE n == op.name
             v == op.val
             r == Fetched(n, v.type)
  <2>2. r \in {"R_NOT_FOUND", "R_FAILED", "0"}
    BY <2>1, FetchedLemma
  <2>3. \/ \E event : LocalSet(n, v) = Outcome([store EXCEPT ![n] = v], event, "0", NONE)
        \/ LocalSet(n, v) = Answer("R_FAILED", NONE)
    <3>1. CASE r = "R_NOT_FOUND"
      BY <3>1 DEF LocalSet
    <3>2. CASE r = "R_FAILED"
      BY <3>2 DEF LocalSet
    <3>3. CASE r = "0"
      BY <3>3 DEF LocalSet
    <3> QED
      BY <2>2, <3>1, <3>2, <3>3
  <2> QED
    <3>1. n \in Names /\ v \in Values \cup {NONE}
      BY <2>1
    <3> HIDE DEF n, v
    <3>2. Good(LocalSet(n, v))
      BY <1>1, <1>2, <2>3, <3>1
    <3> QED
      BY <2>1, <3>2 DEF Good, n, v
<1>9. CASE op.proc = "del"
  <2>1. /\ Dispatch(op) = Outcome([store EXCEPT ![op.name] = NONE], Text("delete", op.name), "0", NONE)
        /\ op.name \in Names
    BY <1>9 DEF Dispatch, TreeProc, DoDel, OpOK
  <2>2. \A n \in Names : Good(Outcome([store EXCEPT ![n] = NONE], Text("delete", n), "0", NONE))
    BY <1>2
  <2>3. Good(Dispatch(op))
    BY <2>1, <2>2
  <2> QED
    BY <2>3 DEF Good
<1>10. CASE op.proc = "fin"
  <2>1. Dispatch(op) = Outcome(store, Text("final", op.name), "0", NONE)
    BY <1>10 DEF Dispatch, TreeProc, DoFin
  <2> QED
    BY <2>1, OutcomeLemma
<1>11. CASE op.proc \in {"children", "count", "register"}
  <2>1. \E val : Dispatch(op) = Answer("0", val)
    <3>1. CASE op.proc = "children"
      BY <3>1 DEF Dispatch, TreeProc, DoChildren
    <3>2. CASE op.proc = "count"
      BY <3>2 DEF Dispatch, TreeProc, DoCount
    <3>3. CASE op.proc = "register"
      BY <3>3 DEF Dispatch, TreeProc
    <3> QED
      BY <1>11, <3>1, <3>2, <3>3
  <2> QED
    BY <1>1, <2>1 DEF Good
<1> QED
  BY <1>5, <1>6, <1>7, <1>8, <1>9, <1>10, <1>11 DEF OpOK

-----------------------------------------------------------------------------
(***************************************************************************)
(* The steps.                                                               *)
(***************************************************************************)
\* No request is added: those whose client still waits are as they were.
LEMMA AskKept ==
    ASSUME AskedInv, requests' \subseteq requests,
           job' # Idle => job # Idle /\ job'.req = job.req,
           \A r \in Asked : r.tag = 0 /\ r \in Asked' =>
               pc'[r.client] = pc[r.client] /\ call'[r.client] = call[r.client]
    PROVE  AskedInv'
<1>1. Asked' \subseteq Asked
  BY DEF Asked
<1>2. IsFiniteSet(requests')
  BY FS_Subset DEF AskedInv
<1>3. ASSUME NEW r \in Asked', r.tag = 0 PROVE Awaits(r)'
  <2>1. r \in Asked
    BY <1>1
  <2>2. Awaits(r)
    BY <1>3, <2>1 DEF AskedInv
  <2>3. pc'[r.client] = pc[r.client] /\ call'[r.client] = call[r.client]
    BY <1>3, <2>1
  <2> QED
    BY <2>2, <2>3 DEF Awaits
<1>4. \A r \in Asked' : /\ r.client \in Clients /\ OpOK(r.op) /\ r.tag \in Nat
                        /\ r = Request(r.client, r.op, r.tag)
  BY <1>1 DEF AskedInv
<1>5. job' # Idle /\ job'.req.tag = 0 => job'.req \notin requests'
  BY DEF AskedInv
<1> QED
  BY <1>2, <1>3, <1>4, <1>5 DEF AskedInv

\* A client that does not wait has no RPC under way that it would take the answer of.
LEMMA NotAwaited ==
    ASSUME AskedInv, NEW c, pc[c] \notin {"wait", "regwait"}, NEW r \in Asked, r.tag = 0
    PROVE  r.client # c
BY DEF AskedInv, Awaits

\* A client waits for one answer at a time.
LEMMA OneAwaited ==
    ASSUME AskedInv, NEW r \in Asked, NEW q \in Asked, r.client = q.client, r.tag = 0, q.tag = 0
    PROVE  r = q
<1>1. Awaits(r) /\ Awaits(q) /\ r = Request(r.client, r.op, 0) /\ q = Request(q.client, q.op, 0)
  BY DEF AskedInv
<1>2. r.op = q.op
  BY <1>1 DEF Awaits
<1> QED
  BY <1>1, <1>2

\* A step that concerns one client.
LEMMA ClientKept ==
    ASSUME ClientInv, NEW c \in Clients,
           \A d \in Clients : d # c => /\ pc'[d] = pc[d] /\ ctx'[d] = ctx[d]
                                       /\ call'[d] = call[d] /\ open'[d] = open[d],
           ctx'[c] = "retry" => pc'[c] \in {"cbinit", "regwait"},
           pc'[c] \in {"try", "wait", "failed"} \/ ctx'[c] = "retry" => CallOK(call'[c]),
           pc'[c] = "regwait" => ~open'[c]
    PROVE  ClientInv'
<1> SUFFICES ASSUME NEW d \in Clients
             PROVE  /\ ctx'[d] = "retry" => pc'[d] \in {"cbinit", "regwait"}
                    /\ pc'[d] \in {"try", "wait", "failed"} \/ ctx'[d] = "retry" => CallOK(call'[d])
                    /\ pc'[d] = "regwait" => ~open'[d]
  BY DEF ClientInv
<1>1. CASE d = c
  BY <1>1
<1>2. CASE d # c
  BY <1>2 DEF ClientInv
<1> QED
  BY <1>1, <1>2

\* One that leaves its event connection and the daemon's list alone.
LEMMA OneClient ==
    ASSUME RpcInv, NEW c \in Clients, UNCHANGED <<store, maxlen, list, open, eof>>,
           \A d \in Clients : d # c => pc'[d] = pc[d] /\ ctx'[d] = ctx[d] /\ call'[d] = call[d],
           pc' \in [Clients -> Places],
           call' = [d \in Clients |-> call'[d]], ctx' = [d \in Clients |-> ctx'[d]],
           ctx'[c] = "retry" => pc'[c] \in {"cbinit", "regwait"},
           pc'[c] \in {"try", "wait", "failed"} \/ ctx'[c] = "retry" => CallOK(call'[c]),
           pc'[c] = "regwait" => ~open[c],
           JobInv', AskedInv'
    PROVE  RpcInv'
<1> USE DEF RpcInv
<1>1. TypeInv'
  BY DEF TypeInv
<1>3. ClientInv'
  BY ClientKept
<1>4. ListInv'
  BY Zenon DEF ListInv
<1> QED
  BY <1>1, <1>3, <1>4

\* A client asks: it did not wait for anything before.
LEMMA AskAdded ==
    ASSUME AskedInv, NEW c \in Clients, NEW op, OpOK(op), pc[c] \notin {"wait", "regwait"},
           requests' = requests \cup {Request(c, op, 0)},
           job' # Idle => job # Idle /\ job'.req = job.req,
           \A d \in Clients : d # c => pc'[d] = pc[d] /\ call'[d] = call[d],
           pc'[c] = IF op = REGISTER THEN "regwait" ELSE "wait",
           op # REGISTER => op = call'[c]
    PROVE  AskedInv'
<1> DEFINE q == Request(c, op, 0)
<1>1. q.client = c /\ q.op = op /\ q.tag = 0
  BY DEF Request
<1>2. q = Request(q.client, q.op, q.tag)
  BY <1>1
<1>3. requests' = requests \cup {q}
  OBVIOUS
<1> HIDE DEF q
<1>4. Asked' \subseteq Asked \cup {q}
  BY <1>3 DEF Asked
<1>5. Awaits(q)'
  BY <1>1 DEF Awaits
<1>6. ASSUME NEW r \in Asked, r.tag = 0 PROVE Awaits(r)' /\ r.client # c
  <2>1. r.client # c /\ r.client \in Clients /\ Awaits(r)
    BY <1>6, NotAwaited DEF AskedInv
  <2> QED
    BY <2>1 DEF Awaits
<1>7. IsFiniteSet(requests')
  BY <1>3, FS_AddElement DEF AskedInv
<1>8. \A r \in Asked' : /\ r.client \in Clients /\ OpOK(r.op) /\ r.tag \in Nat
                        /\ r = Request(r.client, r.op, r.tag)
                        /\ r.tag = 0 => Awaits(r)'
  <2> TAKE r \in Asked'
  <2>1. CASE r = q
    BY <1>1, <1>2, <1>5, <2>1
  <2>2. CASE r # q
    <3>1. r \in Asked
      BY <1>4, <2>2
    <3> QED
      BY <1>6, <3>1 DEF AskedInv
  <2> QED
    BY <2>1, <2>2
<1>9. ASSUME job' # Idle, job'.req.tag = 0 PROVE job'.req \notin requests'
  <2>1. job # Idle /\ job'.req = job.req /\ job.req \in Asked
    BY <1>9 DEF Asked
  <2>2. job.req \notin requests /\ job.req.client # c
    BY <1>6, <1>9, <2>1 DEF AskedInv
  <2> QED
    BY <1>1, <1>3, <2>1, <2>2
<1> QED
  BY <1>7, <1>8, <1>9 DEF AskedInv

\* The loop over the clients, and a timeout, leave the answer.
LEMMA JobKept ==
    ASSUME JobInv, job # Idle, NEW t, job' = [job EXCEPT !.todo = t]
    PROVE  JobInv' /\ job'.req = job.req
<1>1. PICK q, l, a, d : job = [req |-> q, line |-> l, reply |-> a, todo |-> d]
                        /\ a.ret # "R_BAD_ARGS"
  BY DEF JobInv
<1>2. job' = [req |-> q, line |-> l, reply |-> a, todo |-> t]
  BY <1>1
<1> QED
  BY <1>1, <1>2 DEF JobInv

\* The daemon takes a request and changes its table.
LEMMA ServeStep ==
    ASSUME RpcInv, NEW r \in requests, Serve(r)
    PROVE  RpcInv'
<1> USE DEF RpcInv
<1> DEFINE o == Dispatch(r.op)
<1>1. PICK line, todo : job' = [req |-> r, line |-> line, reply |-> o.reply, todo |-> todo]
  BY DEF Serve
<1>2. /\ job = Idle /\ requests' = requests \ {r}
      /\ store' = o.store /\ maxlen' = Grown(r.op)
      /\ UNCHANGED <<list, clnt, pc, call, tries, ctx, open, eof>>
  BY DEF Serve, rpcVars, eventVars
<1>3. r \in Asked /\ OpOK(r.op)
  BY DEF Asked, AskedInv
<1>4. /\ o.store \in [Names -> Values \cup {NONE}] /\ o.reply.ret # "R_BAD_ARGS"
      /\ Grown(r.op) \in Nat
  BY <1>3, DispatchLemma, GrownLemma DEF TypeInv
<1> HIDE DEF o
<1>5. TypeInv'
  BY <1>2, <1>4 DEF TypeInv
<1>6. JobInv' /\ job'.req = r
  BY <1>1, <1>4 DEF JobInv
<1>7. Asked' \subseteq Asked
  BY <1>2, <1>6 DEF Asked
<1>8. \A q : Awaits(q)' <=> Awaits(q)
  BY <1>2 DEF Awaits
<1>9. AskedInv'
  <2>1. IsFiniteSet(requests')
    BY <1>2, FS_Subset DEF AskedInv
  <2>2. job'.req \notin requests'
    BY <1>2, <1>6
  <2> QED
    BY <1>7, <1>8, <2>1, <2>2 DEF AskedInv
<1>10. ClientInv'
  BY <1>2 DEF ClientInv
<1>11. ListInv'
  BY <1>2, Zenon DEF ListInv
<1> QED
  BY <1>5, <1>6, <1>9, <1>10, <1>11

\* The entries but e are as they were.
LEMMA RemoveLemma ==
    ASSUME NEW S, NEW q \in Seq(S), NEW e
    PROVE  /\ RemoveFirst(q, e) \in Seq(S)
           /\ \/ RemoveFirst(q, e) = q
              \/ \E k \in 1..Len(q) :
                    /\ q[k] = e /\ Len(RemoveFirst(q, e)) = Len(q) - 1
                    /\ \A i \in 1..(Len(q) - 1) :
                          RemoveFirst(q, e)[i] = IF i < k THEN q[i] ELSE q[i + 1]
<1> DEFINE I == {i \in 1..Len(q) : q[i] = e}
           m == Len(q)
<1>0. m \in Nat
  OBVIOUS
<1>1. CASE I = {}
  BY <1>1 DEF RemoveFirst
<1>2. CASE I # {}
  <2> DEFINE k == Min(I)
  <2>1. I \in SUBSET Nat
    OBVIOUS
  <2>2. k \in I
    <3> HIDE DEF I
    <3>1. \E x \in I : \A y \in I : x <= y
      BY <1>2, <2>1, LeastLemma
    <3> QED
      BY <3>1 DEF Min
  <2>3. SelectInSeq(q, LAMBDA v : v = e) = k
    BY <1>2 DEF SelectInSeq
  <2>4. RemoveFirst(q, e) = SubSeq(q, 1, k - 1) \o SubSeq(q, k + 1, m)
    BY <1>2, <2>3 DEF RemoveFirst, RemoveAt
  <2>5. k \in 1..m /\ q[k] = e
    BY <2>2
  <2> HIDE DEF k, m, I
  <2> DEFINE a == SubSeq(q, 1, k - 1)
             b == SubSeq(q, k + 1, m)
  <2>6. a \in Seq(S) /\ Len(a) = k - 1 /\ \A i \in 1..(k - 1) : a[i] = q[i]
    BY <1>0, <2>5 DEF m
  <2>7. b \in Seq(S) /\ Len(b) = m - k /\ \A i \in 1..(m - k) : b[i] = q[k + i]
    BY <1>0, <2>5 DEF m
  <2> HIDE DEF a, b
  <2>8. a \o b \in Seq(S) /\ Len(a \o b) = m - 1
    <3>0. a \in Seq(S) /\ b \in Seq(S)
      BY <2>6, <2>7
    <3>1. a \o b \in Seq(S)
      BY <3>0
    <3>2. Len(a \o b) = Len(a) + Len(b)
      BY <3>0
    <3>3. (k - 1) + (m - k) = m - 1
      BY <1>0, <2>5
    <3> QED
      BY <2>6, <2>7, <3>1, <3>2, <3>3
  <2>9. ASSUME NEW i \in 1..(m - 1) PROVE (a \o b)[i] = IF i < k THEN q[i] ELSE q[i + 1]
    <3>1. CASE i < k
      <4>1. i \in 1..(k - 1) /\ i \in 1..Len(a)
        BY <1>0, <2>5, <2>6, <3>1
      <4>2. (a \o b)[i] = a[i]
        BY <2>6, <2>7, <4>1
      <4> QED
        BY <2>6, <3>1, <4>1, <4>2
    <3>2. CASE ~(i < k)
      <4>1. i - (k - 1) \in 1..(m - k) /\ i = Len(a) + (i - (k - 1)) /\ k + (i - (k - 1)) = i + 1
        BY <1>0, <2>5, <2>6, <3>2
      <4>2. (a \o b)[Len(a) + (i - (k - 1))] = b[i - (k - 1)]
        BY <2>6, <2>7, <4>1
      <4> QED
        BY <2>7, <3>2, <4>1, <4>2
    <3> QED
      BY <3>1, <3>2
  <2>10. RemoveFirst(q, e) = a \o b
    BY <2>4 DEF a, b
  <2> QED
    BY <2>5, <2>8, <2>9, <2>10 DEF m
<1> QED
  BY <1>1, <1>2

\* An entry that is not live goes: the live ones stay.
LEMMA DeadRemoved ==
    ASSUME TypeInv, ListInv, NEW e, \A c \in Clients : e # Entry(c, TRUE),
           list' = RemoveFirst(list, e), UNCHANGED <<open, eof>>
    PROVE  list' \in Seq(ClientEntries) /\ ListInv'
<1>0. list \in Seq(ClientEntries) /\ Len(list) \in Nat
  BY DEF TypeInv
<1>1. list' \in Seq(ClientEntries)
  BY <1>0, RemoveLemma
<1>2. CASE list' = list
  BY <1>1, <1>2, Zenon DEF ListInv
<1>3. CASE list' # list
  <2>1. PICK k \in 1..Len(list) :
           /\ list[k] = e /\ Len(list') = Len(list) - 1
           /\ \A i \in 1..(Len(list) - 1) : list'[i] = IF i < k THEN list[i] ELSE list[i + 1]
    BY <1>0, <1>3, RemoveLemma
  <2> SUFFICES ASSUME NEW c \in Clients
               PROVE  /\ LiveAt(list, c) # {} => LiveAt(list', c) # {}
                      /\ LiveAt(list', c) # {} => LiveAt(list, c) # {}
                      /\ \A i, j \in LiveAt(list', c) : i = j
    BY <1>1, Zenon DEF ListInv
  <2> DEFINE old(i) == IF i < k THEN i ELSE i + 1
  <2>2. ASSUME NEW i \in LiveAt(list', c) PROVE i \in Nat /\ old(i) \in LiveAt(list, c)
    <3>1. i \in 1..(Len(list) - 1) /\ list'[i] = Entry(c, TRUE)
      BY <2>1 DEF LiveAt
    <3>2. old(i) \in 1..Len(list) /\ i \in Nat
      BY <1>0, <3>1
    <3>3. list[old(i)] = Entry(c, TRUE)
      BY <2>1, <3>1
    <3> QED
      BY <3>2, <3>3 DEF LiveAt
  <2>3. ASSUME NEW i \in LiveAt(list, c) PROVE LiveAt(list', c) # {}
    <3>1. i \in 1..Len(list) /\ list[i] = Entry(c, TRUE) /\ i # k
      BY <2>1 DEF LiveAt
    <3>2. PICK j \in 1..(Len(list) - 1) : old(j) = i
      <4>1. CASE i < k
        <5>1. i \in 1..(Len(list) - 1) /\ old(i) = i
          BY <1>0, <3>1, <4>1
        <5> QED
          BY <5>1
      <4>2. CASE ~(i < k)
        <5>1. i - 1 \in 1..(Len(list) - 1) /\ ~(i - 1 < k) /\ (i - 1) + 1 = i
          BY <1>0, <3>1, <4>2
        <5> QED
          BY <5>1
      <4> QED
        BY <4>1, <4>2
    <3>3. list'[j] = Entry(c, TRUE)
      BY <2>1, <3>1, <3>2
    <3>4. j \in 1..Len(list')
      BY <2>1
    <3> QED
      BY <3>3, <3>4 DEF LiveAt
  <2>4. ASSUME NEW i \in LiveAt(list', c), NEW j \in LiveAt(list', c) PROVE i = j
    <3>1. i \in Nat /\ j \in Nat /\ old(i) \in LiveAt(list, c) /\ old(j) \in LiveAt(list, c)
      BY <2>2
    <3>2. old(i) = old(j)
      BY <3>1 DEF ListInv
    <3> QED
      BY <2>1, <3>1, <3>2
  <2> QED
    BY <2>2, <2>3, <2>4
<1> QED
  BY <1>1, <1>2, <1>3

\* Where the live entries of a client are after an entry is appended.
LEMMA AppendLive ==
    ASSUME NEW l \in Seq(ClientEntries), NEW e \in ClientEntries, NEW c
    PROVE  /\ Append(l, e) \in Seq(ClientEntries)
           /\ LiveAt(Append(l, e), c) =
                 IF e = Entry(c, TRUE) THEN LiveAt(l, c) \cup {Len(l) + 1} ELSE LiveAt(l, c)
<1> DEFINE a == Append(l, e)
           m == Len(l)
<1>1. a \in Seq(ClientEntries) /\ Len(a) = m + 1 /\ a[m + 1] = e /\ m \in Nat
  OBVIOUS
<1>2. \A i \in 1..m : a[i] = l[i]
  OBVIOUS
<1> HIDE DEF a
<1>3. 1..Len(a) = 1..m \cup {m + 1} /\ m + 1 \notin 1..m
  BY <1>1
<1>4. ASSUME NEW i
      PROVE  i \in LiveAt(a, c) <=> i \in LiveAt(l, c) \/ (i = m + 1 /\ e = Entry(c, TRUE))
  BY <1>1, <1>2, <1>3 DEF LiveAt
<1>5. LiveAt(a, c) = IF e = Entry(c, TRUE) THEN LiveAt(l, c) \cup {m + 1} ELSE LiveAt(l, c)
  BY <1>4
<1> QED
  BY <1>1, <1>5 DEF a

\* Closing a connection leaves its client no live entry.
LEMMA ClosedLive ==
    ASSUME NEW l \in Seq(ClientEntries), NEW c \in Clients
    PROVE  /\ Closed(l, c) \in Seq(ClientEntries)
           /\ LiveAt(Closed(l, c), c) = {}
           /\ \A d \in Clients : d # c => LiveAt(Closed(l, c), d) = LiveAt(l, d)
<1> DEFINE q == Closed(l, c)
<1>1. \A x : Entry(x, TRUE).client = x
  BY DEF Entry
<1>11. Entry(c, FALSE).client = c
  BY DEF Entry
<1>2. Entry(c, FALSE) \in ClientEntries /\ Entry(c, TRUE) # Entry(c, FALSE)
  BY DEF Entry, ClientEntries
<1>3. DOMAIN l = 1..Len(l) /\ Len(l) \in Nat
  OBVIOUS
<1>4. q = [i \in 1..Len(l) |-> IF l[i].client = c THEN Entry(c, FALSE) ELSE l[i]]
  BY <1>3 DEF Closed
<1>5. \A i \in 1..Len(l) : l[i] \in ClientEntries
  OBVIOUS
<1> HIDE DEF q
<1>6. q \in [1..Len(l) -> ClientEntries]
  BY <1>2, <1>4, <1>5
<1>7. q \in Seq(ClientEntries) /\ Len(q) = Len(l)
  BY <1>3, <1>6
<1>8. \A i \in 1..Len(q) : q[i] = IF l[i].client = c THEN Entry(c, FALSE) ELSE l[i]
  BY <1>4, <1>7
<1>9. LiveAt(q, c) = {}
  <2>1. ASSUME NEW i \in 1..Len(q), q[i] = Entry(c, TRUE) PROVE FALSE
    <3>1. CASE l[i].client = c
      BY <1>2, <1>8, <2>1, <3>1
    <3>2. CASE l[i].client # c
      BY <1>1, <1>8, <2>1, <3>2
    <3> QED
      BY <3>1, <3>2
  <2> QED
    BY <2>1 DEF LiveAt
<1>10. ASSUME NEW d \in Clients, d # c PROVE LiveAt(q, d) = LiveAt(l, d)
  <2>1. \A i \in 1..Len(l) : q[i] = Entry(d, TRUE) <=> l[i] = Entry(d, TRUE)
    BY <1>1, <1>11, <1>7, <1>8, <1>10
  <2> QED
    BY <1>7, <2>1 DEF LiveAt
<1> QED
  BY <1>7, <1>9, <1>10 DEF q

\* The daemon goes to the next client of its list.
LEMMA WriteStep ==
    ASSUME RpcInv, WriteLive \/ WriteDead
    PROVE  RpcInv'
<1> USE DEF RpcInv
<1>1. /\ job # Idle /\ job' = [job EXCEPT !.todo = Tail(job.todo)]
      /\ UNCHANGED <<store, maxlen, requests, pc, call, ctx, open, eof>>
  BY DEF WriteLive, WriteDead, Writing, rpcVars, eventVars
<1>2. JobInv' /\ job'.req = job.req
  BY <1>1, JobKept
<1>3. AskedInv'
  BY <1>1, <1>2, AskKept
<1>4. list' \in Seq(ClientEntries) /\ ListInv'
  <2>1. CASE WriteLive
    <3>1. list' = list /\ open' = open /\ eof' = eof
      BY <2>1 DEF WriteLive
    <3>2. list' \in Seq(ClientEntries)
      BY <3>1 DEF TypeInv
    <3> QED
      BY <3>1, <3>2, Zenon DEF ListInv
  <2>2. CASE WriteDead
    <3>1. ~Head(job.todo).live /\ list' = RemoveFirst(list, Head(job.todo))
      BY <2>2 DEF WriteDead
    <3>2. \A c \in Clients : Head(job.todo) # Entry(c, TRUE)
      BY <3>1 DEF Entry
    <3> QED
      BY <1>1, <3>1, <3>2, DeadRemoved
  <2> QED
    BY <2>1, <2>2
<1>5. TypeInv'
  BY <1>1, <1>4 DEF TypeInv
<1>6. ClientInv'
  BY <1>1 DEF ClientInv
<1> QED
  BY <1>2, <1>3, <1>4, <1>5, <1>6

\* The answer is for the client's call: no other RPC of the client waits for one.
LEMMA Answered ==
    ASSUME AskedInv, job # Idle, job.req.tag = 0, NEW r \in requests, r.tag = 0
    PROVE  r.client # job.req.client
<1>1. r \in Asked /\ job.req \in Asked /\ job.req \notin requests
  BY DEF Asked, AskedInv
<1> QED
  BY <1>1, OneAwaited

\* The reply reaches the client, unless it has given up.
LEMMA ReplyStep ==
    ASSUME RpcInv, Reply
    PROVE  RpcInv'
<1> USE DEF RpcInv
<1> DEFINE c == job.req.client
           op == job.req.op
           again == op.proc = "alloc" /\ job.reply.ret = "0"
<1>1. /\ job # Idle /\ op # REGISTER /\ job' = Idle
      /\ UNCHANGED <<store, maxlen, list, requests, ctx, open, eof>>
  BY DEF Reply, eventVars
<1>2. job.req \in Asked /\ c \in Clients /\ OpOK(op)
  BY <1>1 DEF Asked, AskedInv
<1>3. JobInv'
  BY <1>1 DEF JobInv
<1>4. Asked' = requests /\ requests \subseteq Asked
  BY <1>1 DEF Asked
<1>5. CASE job.req.tag # 0
  <2>1. UNCHANGED <<pc, call>>
    BY <1>5 DEF Reply
  <2>2. AskedInv'
    BY <1>1, <2>1, AskKept
  <2>3. ClientInv'
    BY <1>1, <2>1 DEF ClientInv
  <2>4. TypeInv'
    BY <1>1, <2>1 DEF TypeInv
  <2>5. ListInv'
    BY <1>1, Zenon DEF ListInv
  <2> QED
    BY <1>3, <2>2, <2>3, <2>4, <2>5
<1>6. CASE job.req.tag = 0
  <2>1. /\ pc' = [pc EXCEPT ![c] = IF again THEN "try" ELSE "idle"]
        /\ call' = [call EXCEPT ![c] = IF again THEN GetCall(op.name, op.type, job.reply.val)
                                       ELSE NONE]
    BY <1>6 DEF Reply
  <2>2. pc[c] = "wait"
    BY <1>1, <1>2, <1>6 DEF AskedInv, Awaits
  <2>3. ctx[c] # "retry"
    BY <1>2, <2>2 DEF ClientInv
  <2>4. again => CallOK(GetCall(op.name, op.type, job.reply.val))
    BY <1>2 DEF CallOK, OpOK, GetCall
  <2> HIDE DEF c, op, again
  <2>5. /\ pc' \in [Clients -> Places] /\ pc'[c] \in {"try", "idle"}
        /\ pc'[c] = "try" => again
        /\ \A d \in Clients : d # c => pc'[d] = pc[d]
    BY <1>2, <2>1 DEF TypeInv, Places
  <2>6. /\ call' = [d \in Clients |-> call'[d]]
        /\ again => call'[c] = GetCall(op.name, op.type, job.reply.val)
        /\ \A d \in Clients : d # c => call'[d] = call[d]
    BY <1>2, <2>1 DEF TypeInv
  <2>7. AskedInv'
    <3>1. ASSUME NEW r \in Asked, r.tag = 0, r \in Asked' PROVE r.client # c /\ r.client \in Clients
      BY <1>1, <1>4, <1>6, <3>1, Answered DEF c, AskedInv
    <3>2. requests' \subseteq requests /\ job' = Idle
      BY <1>1
    <3> QED
      BY <2>5, <2>6, <3>1, <3>2, AskKept
  <2>8. ctx' = [d \in Clients |-> ctx'[d]] /\ ctx'[c] # "retry" /\ \A d \in Clients : ctx'[d] = ctx[d]
    BY <1>1, <2>3 DEF TypeInv
  <2> QED
    BY <1>1, <1>2, <1>3, <2>4, <2>5, <2>6, <2>7, <2>8, OneClient DEF c
<1> QED
  BY <1>5, <1>6

\* A new connection has one entry: the client had none when it asked for it.
LEMMA RegisteredStep ==
    ASSUME RpcInv, Registered
    PROVE  RpcInv'
<1> USE DEF RpcInv
<1> DEFINE c == job.req.client
<1>1. /\ job # Idle /\ job.req.op = REGISTER /\ job' = Idle
      /\ UNCHANGED <<store, maxlen, requests, call>>
  BY DEF Registered
<1>2. job.req \in Asked /\ c \in Clients
  BY <1>1 DEF Asked, AskedInv
<1>3. JobInv'
  BY <1>1 DEF JobInv
<1>4. Asked' = requests /\ requests \subseteq Asked
  BY <1>1 DEF Asked
<1>5. list \in Seq(ClientEntries)
  BY DEF TypeInv
<1>6. CASE job.req.tag # 0
  <2>1. list' \in {list, Append(list, Entry(c, FALSE))} /\ UNCHANGED <<pc, ctx, open, eof>>
    BY <1>6 DEF Registered, eventVars
  <2>2. Entry(c, FALSE) \in ClientEntries /\ \A d : Entry(c, FALSE) # Entry(d, TRUE)
    BY <1>2 DEF Entry, ClientEntries
  <2>3. list' \in Seq(ClientEntries) /\ \A d : LiveAt(list', d) = LiveAt(list, d)
    <3> DEFINE e == Entry(c, FALSE)
    <3>1. e \in ClientEntries /\ (\A d : e # Entry(d, TRUE)) /\ list' \in {list, Append(list, e)}
      BY <2>1, <2>2
    <3> HIDE DEF e
    <3>2. Append(list, e) \in Seq(ClientEntries)
      BY <1>5, <3>1, AppendLive
    <3>3. \A d : LiveAt(Append(list, e), d) = LiveAt(list, d)
      <4> TAKE d
      <4>1. e # Entry(d, TRUE) /\ e \in ClientEntries
        BY <3>1
      <4>2. LiveAt(Append(list, e), d) =
               IF e = Entry(d, TRUE) THEN LiveAt(list, d) \cup {Len(list) + 1} ELSE LiveAt(list, d)
        BY <1>5, <4>1, AppendLive
      <4> QED
        BY <4>1, <4>2
    <3>4. CASE list' = list
      BY <1>5, <3>4
    <3>5. CASE list' = Append(list, e)
      BY <3>2, <3>3, <3>5
    <3> QED
      BY <3>1, <3>4, <3>5
  <2>4. AskedInv'
    BY <1>1, <2>1, AskKept
  <2>5. ClientInv'
    BY <1>1, <2>1 DEF ClientInv
  <2>6. TypeInv'
    BY <1>1, <2>1, <2>3 DEF TypeInv
  <2>7. ListInv'
    BY <2>1, <2>3, Zenon DEF ListInv
  <2> QED
    BY <1>3, <2>4, <2>5, <2>6, <2>7
<1>7. CASE job.req.tag = 0
  <2>1. /\ list' = Append(list, Entry(c, TRUE))
        /\ pc' = [pc EXCEPT ![c] = AfterCb(c)]
        /\ ctx' = [ctx EXCEPT ![c] = NONE]
        /\ open' = [open EXCEPT ![c] = TRUE]
        /\ eof' = [eof EXCEPT ![c] = FALSE]
    BY <1>7 DEF Registered, Connected
  <2>2. pc[c] = "regwait" /\ ~open[c]
    BY <1>1, <1>2, <1>7 DEF AskedInv, Awaits, ClientInv
  <2>3. LiveAt(list, c) = {}
    BY <1>2, <2>2 DEF ListInv
  <2>4. AfterCb(c) \in {"try", "idle"} /\ (AfterCb(c) = "try" => CallOK(call[c]))
    BY <1>2 DEF AfterCb, ClientInv
  <2>5. NONE # "retry"
    BY NoneAssumption
  <2>6. Entry(c, TRUE) \in ClientEntries /\ \A d : d # c => Entry(c, TRUE) # Entry(d, TRUE)
    BY <1>2 DEF Entry, ClientEntries
  <2>7. \A r \in requests : r.tag = 0 => r.client # c
    BY <1>1, <1>7, Answered
  <2> HIDE DEF c
  <2>8. /\ pc' \in [Clients -> Places] /\ pc'[c] = AfterCb(c)
        /\ \A d \in Clients : d # c => pc'[d] = pc[d]
    BY <1>2, <2>1, <2>4 DEF TypeInv, Places
  <2>9. /\ ctx' = [d \in Clients |-> ctx'[d]] /\ ctx'[c] = NONE
        /\ \A d \in Clients : d # c => ctx'[d] = ctx[d]
    BY <1>2, <2>1 DEF TypeInv
  <2>10. /\ open' \in [Clients -> BOOLEAN] /\ eof' \in [Clients -> BOOLEAN]
         /\ open'[c] = TRUE /\ eof'[c] = FALSE
         /\ \A d \in Clients : d # c => open'[d] = open[d] /\ eof'[d] = eof[d]
    BY <1>2, <2>1 DEF TypeInv
  <2>11. /\ list' \in Seq(ClientEntries) /\ LiveAt(list', c) = {Len(list) + 1}
         /\ \A d : d # c => LiveAt(list', d) = LiveAt(list, d)
    <3> DEFINE e == Entry(c, TRUE)
    <3>1. e \in ClientEntries
      BY <2>6
    <3> HIDE DEF e
    <3>2. ASSUME NEW d
          PROVE  /\ Append(list, e) \in Seq(ClientEntries)
                 /\ LiveAt(Append(list, e), d) =
                       IF e = Entry(d, TRUE) THEN LiveAt(list, d) \cup {Len(list) + 1}
                       ELSE LiveAt(list, d)
      BY <1>5, <3>1, AppendLive
    <3>3. list' = Append(list, e)
      BY <2>1 DEF e
    <3>4. \A d : d # c => e # Entry(d, TRUE)
      BY <2>6 DEF e
    <3>5. e = Entry(c, TRUE)
      BY DEF e
    <3> QED
      BY <2>3, <3>2, <3>3, <3>4, <3>5
  <2>12. AskedInv'
    <3>1. ASSUME NEW r \in Asked, r.tag = 0, r \in Asked' PROVE r.client # c /\ r.client \in Clients
      BY <1>4, <2>7, <3>1 DEF AskedInv
    <3>2. requests' \subseteq requests /\ job' = Idle /\ call' = call
      BY <1>1
    <3> QED
      BY <2>8, <3>1, <3>2, AskKept
  <2>13. ClientInv'
    <3>1. pc'[c] # "regwait"
      BY <2>4, <2>8
    <3>2. call' = call
      BY <1>1
    <3>3. \A d \in Clients : d # c => /\ pc'[d] = pc[d] /\ ctx'[d] = ctx[d]
                                      /\ call'[d] = call[d] /\ open'[d] = open[d]
      BY <2>8, <2>9, <2>10, <3>2
    <3>4. pc'[c] \in {"try", "wait", "failed"} \/ ctx'[c] = "retry" => CallOK(call'[c])
      BY <2>4, <2>5, <2>8, <2>9, <3>2
    <3>5. ctx'[c] # "retry"
      BY <2>5, <2>9
    <3> QED
      BY <1>2, <3>1, <3>3, <3>4, <3>5, ClientKept
  <2>14. TypeInv'
    BY <1>1, <2>8, <2>9, <2>10, <2>11 DEF TypeInv
  <2>15. ListInv'
    <3>1. ASSUME NEW d \in Clients
          PROVE  /\ open'[d] /\ ~eof'[d] => LiveAt(list', d) # {}
                 /\ LiveAt(list', d) # {} => open'[d] /\ ~eof'[d]
                 /\ \A i, j \in LiveAt(list', d) : i = j
      <4>1. CASE d = c
        BY <2>10, <2>11, <4>1
      <4>2. CASE d # c
        BY <2>10, <2>11, <4>2, Zenon DEF ListInv
      <4> QED
        BY <4>1, <4>2
    <3> QED
      BY <3>1, Zenon DEF ListInv
  <2> QED
    BY <1>3, <2>12, <2>13, <2>14, <2>15
<1> QED
  BY <1>6, <1>7

\* What follows nr_reg_client_cb_init: an RPC is tried only if one was being retried.
LEMMA AfterCbLemma ==
    ASSUME ClientInv, NEW c \in Clients
    PROVE  /\ AfterCbFails(c) \in {"try", "idle", "exited"}
           /\ AfterCbFails(c) = "try" => CallOK(call[c])
BY DEF AfterCbFails, AfterCb, ClientInv

\* The daemon ends, and all that it had is lost.
LEMMA CrashStep ==
    ASSUME RpcInv, Crash
    PROVE  RpcInv'
<1> USE DEF RpcInv
<1>1. /\ store' = [n \in Names |-> NONE] /\ maxlen' = MAXLEN
      /\ list' = <<>> /\ requests' = {} /\ job' = Idle
      /\ eof' = [c \in Clients |-> open[c]]
      /\ ctx' = [c \in Clients |-> IF pc[c] = "regwait" THEN NONE ELSE ctx[c]]
      /\ UNCHANGED <<call, open>>
  BY DEF Crash
<1>2. pc' = [c \in Clients |-> CASE pc[c] = "wait"    -> "failed"
                                 [] pc[c] = "regwait" -> AfterCbFails(c)
                                 [] OTHER             -> pc[c]]
  BY DEF Crash
<1>3. ASSUME NEW c \in Clients
      PROVE  /\ pc[c] = "wait" => pc'[c] = "failed"
             /\ pc[c] = "regwait" => pc'[c] = AfterCbFails(c)
             /\ pc[c] \notin {"wait", "regwait"} => pc'[c] = pc[c]
             /\ pc[c] \in Places
  BY <1>2 DEF TypeInv
<1>4. NONE # "retry"
  BY NoneAssumption
<1>5. pc' \in [Clients -> Places]
  <2>1. \A c \in Clients : pc'[c] \in Places
    BY <1>3, AfterCbLemma DEF Places
  <2>2. pc' = [c \in Clients |-> pc'[c]]
    BY <1>2
  <2> QED
    BY <2>1, <2>2
<1>6. TypeInv'
  <2>1. store' \in [Names -> Values \cup {NONE}] /\ maxlen' \in Nat
    BY <1>1, BoundAssumption
  <2>2. list' \in Seq(ClientEntries)
    BY <1>1
  <2>3. call' = [c \in Clients |-> call'[c]] /\ ctx' = [c \in Clients |-> ctx'[c]]
    BY <1>1 DEF TypeInv
  <2>4. open' \in [Clients -> BOOLEAN] /\ eof' \in [Clients -> BOOLEAN]
    BY <1>1 DEF TypeInv
  <2> QED
    BY <1>5, <2>1, <2>2, <2>3, <2>4 DEF TypeInv
<1>7. JobInv' /\ AskedInv'
  BY <1>1, FS_EmptySet DEF JobInv, AskedInv, Asked
<1>8. ClientInv'
  <2>1. ASSUME NEW c \in Clients
        PROVE  /\ ctx'[c] = "retry" => pc'[c] \in {"cbinit", "regwait"}
               /\ pc'[c] \in {"try", "wait", "failed"} \/ ctx'[c] = "retry" => CallOK(call'[c])
               /\ pc'[c] # "regwait"
    <3>1. ctx'[c] = (IF pc[c] = "regwait" THEN NONE ELSE ctx[c]) /\ call'[c] = call[c]
      BY <1>1
    <3>2. CASE pc[c] = "wait"
      BY <1>3, <3>1, <3>2 DEF ClientInv
    <3>3. CASE pc[c] = "regwait"
      BY <1>3, <1>4, <3>1, <3>3, AfterCbLemma
    <3>4. CASE pc[c] \notin {"wait", "regwait"}
      BY <1>3, <3>1, <3>4 DEF ClientInv
    <3> QED
      BY <3>2, <3>3, <3>4
  <2> QED
    BY <2>1 DEF ClientInv
<1>9. ListInv'
  <2>1. \A c \in Clients : LiveAt(list', c) = {}
    BY <1>1 DEF LiveAt
  <2>2. \A c \in Clients : ~(open'[c] /\ ~eof'[c])
    BY <1>1 DEF TypeInv
  <2> QED
    BY <2>1, <2>2, Zenon DEF ListInv
<1> QED
  BY <1>6, <1>7, <1>8, <1>9

\* A step that changes nothing of all this.
LEMMA SameInv ==
    ASSUME RpcInv, UNCHANGED <<store, maxlen, list, requests, job, pc, call, ctx, open, eof>>
    PROVE  RpcInv'
<1> USE DEF RpcInv
<1>1. TypeInv' /\ JobInv' /\ ClientInv'
  BY DEF TypeInv, JobInv, ClientInv
<1>2. AskedInv'
  BY AskKept
<1>3. ListInv'
  BY Zenon DEF ListInv
<1> QED
  BY <1>1, <1>2, <1>3

\* A client goes from one place, where it does not wait, to another.
LEMMA MoveStep ==
    ASSUME RpcInv, NEW c \in Clients, NEW p \in Places, NEW x, NEW op,
           UNCHANGED <<store, maxlen, list, requests, job, open, eof>>,
           pc[c] \notin {"wait", "regwait"}, p # "regwait",
           pc' = [pc EXCEPT ![c] = p], ctx' = [ctx EXCEPT ![c] = x],
           call' = [call EXCEPT ![c] = op],
           x = "retry" => p = "cbinit",
           p \in {"try", "wait", "failed"} \/ x = "retry" => CallOK(op)
    PROVE  RpcInv'
<1> USE DEF RpcInv
<1>1. /\ pc' \in [Clients -> Places] /\ pc'[c] = p
      /\ \A d \in Clients : d # c => pc'[d] = pc[d]
  BY DEF TypeInv
<1>2. /\ ctx' = [d \in Clients |-> ctx'[d]] /\ ctx'[c] = x
      /\ \A d \in Clients : d # c => ctx'[d] = ctx[d]
  BY DEF TypeInv
<1>3. /\ call' = [d \in Clients |-> call'[d]] /\ call'[c] = op
      /\ \A d \in Clients : d # c => call'[d] = call[d]
  BY DEF TypeInv
<1>4. JobInv'
  BY DEF JobInv
<1>5. AskedInv'
  <2>1. ASSUME NEW r \in Asked, r.tag = 0 PROVE r.client # c /\ r.client \in Clients
    BY <2>1, NotAwaited DEF AskedInv
  <2> QED
    BY <1>1, <1>3, <2>1, AskKept
<1> QED
  BY <1>1, <1>2, <1>3, <1>4, <1>5, OneClient

\* A call has failed: the client tries again or gives up.
LEMMA FailedStep ==
    ASSUME RpcInv, NEW c \in Clients, Failed(c)
    PROVE  RpcInv'
<1> USE DEF RpcInv
<1>1. /\ pc[c] = "failed"
      /\ UNCHANGED <<store, maxlen, list, requests, job, open, eof>>
  BY DEF Failed, daemonVars, eventVars
<1>2. CallOK(call[c]) /\ ctx[c] # "retry" /\ NONE # "retry"
  BY <1>1, NoneAssumption DEF ClientInv
<1>3. ctx = [ctx EXCEPT ![c] = ctx[c]] /\ call = [call EXCEPT ![c] = call[c]]
  BY DEF TypeInv
<1>4. CASE tries[c] + 1 > MAX_TRIES
  <2>1. pc' = [pc EXCEPT ![c] = "idle"] /\ call' = [call EXCEPT ![c] = NONE] /\ ctx' = ctx
    BY <1>4 DEF Failed
  <2>2. ctx' = [ctx EXCEPT ![c] = ctx[c]]
    BY <1>3, <2>1
  <2>3. "idle" \in Places
    BY DEF Places
  <2> QED
    BY <1>1, <1>2, <2>1, <2>2, <2>3, MoveStep
<1>5. CASE ~(tries[c] + 1 > MAX_TRIES)
  <2> DEFINE p == IF up THEN "cbinit" ELSE "try"
             x == IF up THEN "retry" ELSE NONE
  <2>1. pc' = [pc EXCEPT ![c] = p] /\ ctx' = [ctx EXCEPT ![c] = x] /\ call' = call
    BY <1>5 DEF Failed
  <2>2. call' = [call EXCEPT ![c] = call[c]]
    BY <1>3, <2>1
  <2>3. p \in Places /\ p # "regwait" /\ (x = "retry" => p = "cbinit")
    BY <1>2 DEF Places
  <2> HIDE DEF p, x
  <2> QED
    BY <1>1, <1>2, <2>1, <2>2, <2>3, MoveStep
<1> QED
  BY <1>4, <1>5

\* A client sends its request, or finds that it cannot.
LEMMA TryStep ==
    ASSUME RpcInv, NEW c \in Clients, Try(c)
    PROVE  RpcInv'
<1> USE DEF RpcInv
<1>1. /\ pc[c] = "try"
      /\ UNCHANGED <<store, maxlen, list, job, ctx, open, eof>>
  BY DEF Try, eventVars
<1>2. CallOK(call[c]) /\ ctx[c] # "retry"
  BY <1>1 DEF ClientInv
<1>3. ctx' = [ctx EXCEPT ![c] = ctx[c]] /\ call = [call EXCEPT ![c] = call[c]]
  BY <1>1 DEF TypeInv
<1>4. CASE ~CanConnect(c)
  <2>1. /\ pc' = [pc EXCEPT ![c] = "idle"] /\ call' = [call EXCEPT ![c] = NONE]
        /\ requests' = requests
    BY <1>4 DEF Try
  <2>2. "idle" \in Places
    BY DEF Places
  <2>3. UNCHANGED <<store, maxlen, list, requests, job, open, eof>>
    BY <1>1, <2>1
  <2> QED
    BY <1>1, <1>2, <1>3, <2>1, <2>2, <2>3, MoveStep
<1>5. CASE CanConnect(c) /\ Handle(c) # "ok"
  <2>1. pc' = [pc EXCEPT ![c] = "failed"] /\ call' = call /\ requests' = requests
    BY <1>5 DEF Try, Send
  <2>2. "failed" \in Places /\ call' = [call EXCEPT ![c] = call[c]]
    BY <1>3, <2>1 DEF Places
  <2>3. UNCHANGED <<store, maxlen, list, requests, job, open, eof>>
    BY <1>1, <2>1
  <2>4. pc' = [pc EXCEPT ![c] = "failed"] /\ ctx' = [ctx EXCEPT ![c] = ctx[c]]
    BY <1>3, <2>1
  <2>5. pc[c] \notin {"wait", "regwait"}
    BY <1>1
  <2> QED
    BY <1>2, <2>2, <2>3, <2>4, <2>5, MoveStep
<1>6. CASE CanConnect(c) /\ Handle(c) = "ok"
  <2>1. /\ pc' = [pc EXCEPT ![c] = "wait"] /\ call' = call
        /\ requests' = requests \cup {Request(c, call[c], 0)}
    BY <1>6 DEF Try, Send
  <2>2. /\ pc' \in [Clients -> Places] /\ pc'[c] = "wait"
        /\ \A d \in Clients : d # c => pc'[d] = pc[d]
    BY <2>1 DEF TypeInv, Places
  <2>3. call[c] # REGISTER /\ OpOK(call[c])
    BY <1>2 DEF CallOK, REGISTER, TreeCall
  <2>4. AskedInv'
    BY <1>1, <2>1, <2>2, <2>3, AskAdded
  <2>5. JobInv'
    BY <1>1 DEF JobInv
  <2>6. call' = [d \in Clients |-> call'[d]] /\ ctx' = [d \in Clients |-> ctx'[d]]
    BY <1>1, <2>1 DEF TypeInv
  <2> QED
    BY <1>1, <1>2, <2>1, <2>2, <2>4, <2>5, <2>6, OneClient
<1> QED
  BY <1>4, <1>5, <1>6

\* The start of a client, a call, and the end of the event connection.
LEMMA IdleStep ==
    ASSUME RpcInv, NEW c \in Clients,
           Start(c) \/ Lost(c) \/ \E op \in Calls(c) : Begin(c, op)
    PROVE  RpcInv'
<1> USE DEF RpcInv
<1>1. /\ pc[c] \in {"new", "idle"}
      /\ UNCHANGED <<store, maxlen, list, requests, job, open, eof>>
  BY DEF Start, Lost, Begin, daemonVars, eventVars
<1>2. ctx[c] # "retry" /\ NONE # "retry"
  BY <1>1, NoneAssumption DEF ClientInv
<1>3. ctx = [ctx EXCEPT ![c] = ctx[c]] /\ call = [call EXCEPT ![c] = call[c]]
  BY DEF TypeInv
<1>4. CASE Start(c)
  <2> DEFINE p == IF up THEN "cbinit" ELSE "idle"
             x == IF up THEN "init" ELSE NONE
  <2>1. pc' = [pc EXCEPT ![c] = p] /\ ctx' = [ctx EXCEPT ![c] = x] /\ call' = call
    BY <1>4 DEF Start
  <2>2. call' = [call EXCEPT ![c] = call[c]]
    BY <1>3, <2>1
  <2>3. p \in Places /\ p \notin {"regwait", "try", "wait", "failed"} /\ x # "retry"
    BY <1>2 DEF Places
  <2> HIDE DEF p, x
  <2> QED
    BY <1>1, <2>1, <2>2, <2>3, MoveStep
<1>5. CASE Lost(c)
  <2>1. pc' = [pc EXCEPT ![c] = "cbinit"] /\ ctx' = [ctx EXCEPT ![c] = "lost"] /\ call' = call
    BY <1>5 DEF Lost
  <2>2. call' = [call EXCEPT ![c] = call[c]] /\ "cbinit" \in Places
    BY <1>3, <2>1 DEF Places
  <2> QED
    BY <1>1, <2>1, <2>2, MoveStep
<1>6. CASE \E op \in Calls(c) : Begin(c, op)
  <2>1. PICK op \in Calls(c) : Begin(c, op)
    BY <1>6
  <2>2. pc' = [pc EXCEPT ![c] = "try"] /\ call' = [call EXCEPT ![c] = op] /\ ctx' = ctx
    BY <2>1 DEF Begin
  <2>3. ctx' = [ctx EXCEPT ![c] = ctx[c]] /\ "try" \in Places
    BY <1>3, <2>2 DEF Places
  <2>4. CallOK(op)
    <3>1. CASE op \in {GetCall(n, v.type, NONE) : n \in Names, v \in Values}
      BY <3>1 DEF GetCall, CallOK, OpOK
    <3>2. CASE op \in {SetCall(n, v) : n \in Names, v \in Values}
      BY <3>2 DEF SetCall, CallOK, OpOK
    <3>3. CASE op \in {AllocCall(n, t) : n \in Names, t \in ArrayTypes \cap {v.type : v \in Values}}
      BY <3>3 DEF AllocCall, CallOK, OpOK
    <3>4. CASE op \in {NodeCall(p, n) : p \in {"length", "type", "del", "fin"}, n \in Names}
      BY <3>4 DEF NodeCall, CallOK, OpOK
    <3>5. CASE op \in {TreeCall(p) : p \in {"children", "count"}}
      BY <3>5 DEF TreeCall, CallOK, OpOK
    <3> QED
      BY <2>1, <3>1, <3>2, <3>3, <3>4, <3>5 DEF Calls
  <2> QED
    BY <1>1, <1>2, <2>2, <2>3, <2>4, MoveStep
<1> QED
  BY <1>4, <1>5, <1>6

\* The old connection's entry is dead before the daemon is asked for a new one.
LEMMA CbInitStep ==
    ASSUME RpcInv, NEW c \in Clients, CbInit(c)
    PROVE  RpcInv'
<1> USE DEF RpcInv
<1>1. /\ pc[c] = "cbinit" /\ UNCHANGED <<store, maxlen, call>>
      /\ open' = [open EXCEPT ![c] = FALSE]
      /\ eof'  = [eof EXCEPT ![c] = FALSE]
      /\ list' = Closed(list, c)
      /\ job'  = IF job = Idle THEN Idle ELSE [job EXCEPT !.todo = Closed(job.todo, c)]
      /\ ctx' = [ctx EXCEPT ![c] = IF pc'[c] = "regwait" THEN ctx[c] ELSE NONE]
  BY DEF CbInit
<1>2. \/ /\ pc' = [pc EXCEPT ![c] = "regwait"]
         /\ requests' = requests \cup {Request(c, REGISTER, 0)}
      \/ /\ pc' = [pc EXCEPT ![c] = AfterCbFails(c)]
         /\ requests' = requests
  BY DEF CbInit, Send
<1>3. AfterCbFails(c) \in {"try", "idle", "exited"} /\ (AfterCbFails(c) = "try" => CallOK(call[c]))
  BY AfterCbLemma
<1>4. NONE # "retry"
  BY NoneAssumption
<1>5. /\ pc' \in [Clients -> Places] /\ pc'[c] \in {"regwait", AfterCbFails(c)}
      /\ \A d \in Clients : d # c => pc'[d] = pc[d]
  BY <1>2, <1>3 DEF TypeInv, Places
<1>6. /\ ctx' = [d \in Clients |-> ctx'[d]]
      /\ ctx'[c] = IF pc'[c] = "regwait" THEN ctx[c] ELSE NONE
      /\ \A d \in Clients : d # c => ctx'[d] = ctx[d]
  BY <1>1 DEF TypeInv
<1>7. /\ open' \in [Clients -> BOOLEAN] /\ eof' \in [Clients -> BOOLEAN]
      /\ open'[c] = FALSE
      /\ \A d \in Clients : d # c => open'[d] = open[d] /\ eof'[d] = eof[d]
  BY <1>1 DEF TypeInv
<1>8. /\ list' \in Seq(ClientEntries) /\ LiveAt(list', c) = {}
      /\ \A d \in Clients : d # c => LiveAt(list', d) = LiveAt(list, d)
  <2>1. list \in Seq(ClientEntries)
    BY DEF TypeInv
  <2> QED
    BY <1>1, <2>1, ClosedLive
<1>9. JobInv' /\ (job' # Idle => job # Idle /\ job'.req = job.req)
  <2>1. CASE job = Idle
    BY <1>1, <2>1 DEF JobInv
  <2>2. CASE job # Idle
    BY <1>1, <2>2, JobKept
  <2> QED
    BY <2>1, <2>2
<1>10. AskedInv'
  <2>1. CASE pc' = [pc EXCEPT ![c] = "regwait"] /\ requests' = requests \cup {Request(c, REGISTER, 0)}
    <3>1. OpOK(REGISTER)
      BY DEF OpOK, REGISTER, TreeCall
    <3>2. pc'[c] = "regwait" /\ call' = call
      BY <1>1, <2>1 DEF TypeInv
    <3> QED
      BY <1>1, <1>5, <1>9, <2>1, <3>1, <3>2, AskAdded
  <2>2. CASE requests' = requests
    <3>1. ASSUME NEW r \in Asked, r.tag = 0 PROVE r.client # c /\ r.client \in Clients
      BY <1>1, <3>1, NotAwaited DEF AskedInv
    <3>2. call' = call
      BY <1>1
    <3> QED
      BY <1>5, <1>9, <2>2, <3>1, <3>2, AskKept
  <2> QED
    BY <1>2, <2>1, <2>2
<1>11. ClientInv'
  <2>1. call' = call
    BY <1>1
  <2>2. ctx'[c] = "retry" => pc'[c] = "regwait" /\ ctx[c] = "retry"
    BY <1>4, <1>6
  <2>3. ctx[c] = "retry" => CallOK(call[c])
    BY DEF ClientInv
  <2>4. pc'[c] \in {"try", "wait", "failed"} => CallOK(call[c])
    BY <1>3, <1>5
  <2>5. \A d \in Clients : d # c => /\ pc'[d] = pc[d] /\ ctx'[d] = ctx[d]
                                    /\ call'[d] = call[d] /\ open'[d] = open[d]
    BY <1>5, <1>6, <1>7, <2>1
  <2> QED
    BY <1>7, <2>1, <2>2, <2>3, <2>4, <2>5, ClientKept
<1>12. TypeInv'
  BY <1>1, <1>5, <1>6, <1>7, <1>8 DEF TypeInv
<1>13. ListInv'
  <2>1. ASSUME NEW d \in Clients
        PROVE  /\ open'[d] /\ ~eof'[d] => LiveAt(list', d) # {}
               /\ LiveAt(list', d) # {} => open'[d] /\ ~eof'[d]
               /\ \A i, j \in LiveAt(list', d) : i = j
    <3>1. CASE d = c
      BY <1>7, <1>8, <3>1
    <3>2. CASE d # c
      BY <1>7, <1>8, <3>2, Zenon DEF ListInv
    <3> QED
      BY <3>1, <3>2
  <2> QED
    BY <2>1, Zenon DEF ListInv
<1> QED
  BY <1>9, <1>10, <1>11, <1>12, <1>13

\* The image of a finite set is finite and no larger.
LEMMA ImageLemma ==
    ASSUME NEW S, IsFiniteSet(S), NEW f, f = [x \in S |-> f[x]]
    PROVE  LET T == {f[x] : x \in S}
           IN  IsFiniteSet(T) /\ Cardinality(T) <= Cardinality(S)
<1> DEFINE T == {f[x] : x \in S}
<1>1. f \in Surjection(S, T)
  BY DEF Surjection
<1> QED
  BY <1>1, FS_Surjection

\* Among n + 1 tags there is one that n requests do not use.
LEMMA FreeTag ==
    ASSUME NEW S, IsFiniteSet(S)
    PROVE  \E t \in 1..(Cardinality(S) + 1) : \A r \in S : r.tag # t
<1> DEFINE n == Cardinality(S)
           T == {r.tag : r \in S}
<1>1. n \in Nat
  BY FS_CardinalityType
<1>2. IsFiniteSet(T) /\ Cardinality(T) <= n
  <2> DEFINE f == [r \in S |-> r.tag]
  <2>1. T = {f[r] : r \in S} /\ f = [r \in S |-> f[r]]
    OBVIOUS
  <2> HIDE DEF f
  <2> QED
    BY <2>1, ImageLemma
<1>3. IsFiniteSet(1..(n + 1)) /\ Cardinality(1..(n + 1)) = n + 1
  <2>1. Cardinality(1..(n + 1)) = IF 1 > n + 1 THEN 0 ELSE (n + 1) - 1 + 1
    BY <1>1, FS_Interval
  <2> QED
    BY <1>1, <2>1, FS_Interval
<1>4. ~(1..(n + 1) \subseteq T)
  <2> HIDE DEF n, T
  <2>1. Cardinality(T) \in Nat
    BY <1>2, FS_CardinalityType
  <2>2. 1..(n + 1) \subseteq T => n + 1 <= Cardinality(T)
    <3> HAVE 1..(n + 1) \subseteq T
    <3>1. 1..(n + 1) \in SUBSET T
      OBVIOUS
    <3>2. Cardinality(1..(n + 1)) <= Cardinality(T)
      BY <1>2, <3>1, FS_Subset
    <3> QED
      BY <1>3, <3>2
  <2> QED
    BY <1>1, <1>2, <2>1, <2>2
<1> QED
  BY <1>4

\* The given-up request is no longer awaited, and the client goes on.
LEMMA TimeoutStep ==
    ASSUME RpcInv, NEW c \in Clients, Timeout(c)
    PROVE  RpcInv'
<1> USE DEF RpcInv
<1> DEFINE T == CHOOSE t \in 1..(Cardinality(Orphans) + 1) : \A r \in Orphans : r.tag # t
<1>1. PICK tag : tag = T
  OBVIOUS
<1>2. tag \in Nat /\ tag # 0
  <2>1. IsFiniteSet(Orphans) 
    <3>1. IsFiniteSet(Asked)
      <4>1. CASE job = Idle
        <5>1. Asked = requests
          BY <4>1 DEF Asked
        <5> QED
          BY <5>1 DEF AskedInv
      <4>2. CASE job # Idle
        <5>1. Asked = requests \cup {job.req}
          BY <4>2 DEF Asked
        <5> QED
          BY <5>1, FS_AddElement DEF AskedInv
      <4> QED
        BY <4>1, <4>2
    <3>2. Orphans \subseteq Asked
      BY DEF Orphans, Asked
    <3> QED
      BY <3>1, <3>2, FS_Subset
  <2>2. \E t \in 1..(Cardinality(Orphans) + 1) : \A r \in Orphans : r.tag # t
    BY <2>1, FreeTag
  <2>3. T \in 1..(Cardinality(Orphans) + 1) /\ Cardinality(Orphans) \in Nat
    BY <2>1, <2>2, FS_CardinalityType
  <2> HIDE DEF T
  <2>4. T \in Nat /\ T # 0
    BY <2>3
  <2> QED
    BY <1>1, <2>4
<1>3. /\ pc[c] \in {"wait", "regwait"}
      /\ requests' = (requests \ Awaited(c))
                 \cup {[r EXCEPT !.tag = tag] : r \in requests \cap Awaited(c)}
      /\ job' = IF job # Idle /\ job.req \in Awaited(c)
                THEN [job EXCEPT !.req.tag = tag] ELSE job
      /\ pc' = [pc EXCEPT ![c] = IF pc[c] = "wait" THEN "failed" ELSE AfterCbFails(c)]
      /\ ctx' = [ctx EXCEPT ![c] = NONE]
      /\ UNCHANGED <<store, maxlen, list, call, open, eof>>
  BY <1>1 DEF Timeout, eventVars
<1>4. ASSUME NEW r \in Asked
      PROVE  [r EXCEPT !.tag = tag] = Request(r.client, r.op, tag)
  <2>1. r = Request(r.client, r.op, r.tag)
    BY DEF AskedInv
  <2>2. PICK x, op, g : r = [client |-> x, op |-> op, tag |-> g] /\ x = r.client /\ op = r.op
    BY <2>1 DEF Request
  <2> QED
    BY <2>2 DEF Request
<1>5. \A r \in Asked : r \in Awaited(c) <=> r.client = c /\ r.tag = 0
  BY DEF Asked, Awaited
<1>6. \A x, op : /\ Request(x, op, tag).client = x /\ Request(x, op, tag).op = op
                 /\ Request(x, op, tag).tag = tag
  BY DEF Request
<1>7. job # Idle => job.req \in Asked
  BY DEF Asked
<1>8. /\ JobInv'
      /\ job' # Idle => job # Idle /\ job'.req = IF job.req \in Awaited(c)
                                                 THEN Request(job.req.client, job.req.op, tag)
                                                 ELSE job.req
  <2>1. CASE job # Idle /\ job.req \in Awaited(c)
    <3>1. PICK q, l, a, d : job = [req |-> q, line |-> l, reply |-> a, todo |-> d]
                            /\ a.ret # "R_BAD_ARGS"
      BY <2>1 DEF JobInv
    <3>2. job' = [req |-> [q EXCEPT !.tag = tag], line |-> l, reply |-> a, todo |-> d]
      BY <1>3, <2>1, <3>1
    <3>3. q = job.req /\ [q EXCEPT !.tag = tag] = Request(job.req.client, job.req.op, tag)
      BY <1>4, <1>7, <2>1, <3>1
    <3> QED
      BY <2>1, <3>1, <3>2, <3>3 DEF JobInv
  <2>2. CASE ~(job # Idle /\ job.req \in Awaited(c))
    BY <1>3, <2>2 DEF JobInv
  <2> QED
    BY <2>1, <2>2
<1>9. ASSUME NEW r \in Asked'
      PROVE  \/ r \in Asked /\ r \notin Awaited(c)
             \/ \E q \in Asked : r = Request(q.client, q.op, tag)
  <2>1. CASE r \in requests'
    BY <1>3, <1>4, <2>1 DEF Asked
  <2>2. CASE r \notin requests'
    <3>1. job' # Idle /\ r = job'.req
      BY <2>2 DEF Asked
    <3> QED
      BY <1>7, <1>8, <3>1
  <2> QED
    BY <2>1, <2>2
<1>10. AfterCbFails(c) \in {"try", "idle", "exited"} /\ (AfterCbFails(c) = "try" => CallOK(call[c]))
  BY AfterCbLemma
<1>11. /\ pc' \in [Clients -> Places]
       /\ pc'[c] = IF pc[c] = "wait" THEN "failed" ELSE AfterCbFails(c)
       /\ \A d \in Clients : d # c => pc'[d] = pc[d]
  BY <1>3, <1>10 DEF TypeInv, Places
<1>12. AskedInv'
  <2>1. IsFiniteSet(requests')
    <3>1. IsFiniteSet(requests \ Awaited(c)) /\ IsFiniteSet(requests \cap Awaited(c))
      BY FS_Subset DEF AskedInv
    <3>2. IsFiniteSet({[r EXCEPT !.tag = tag] : r \in requests \cap Awaited(c)})
      <4> DEFINE R == requests \cap Awaited(c)
                 f == [r \in R |-> [r EXCEPT !.tag = tag]]
      <4>1. {[r EXCEPT !.tag = tag] : r \in R} = {f[r] : r \in R} /\ f = [r \in R |-> f[r]]
        OBVIOUS
      <4> HIDE DEF f
      <4> QED
        BY <3>1, <4>1, ImageLemma
    <3> QED
      BY <1>3, <3>1, <3>2, FS_Union
  <2>2. ASSUME NEW r \in Asked'
        PROVE  /\ r.client \in Clients /\ OpOK(r.op) /\ r.tag \in Nat
               /\ r = Request(r.client, r.op, r.tag)
               /\ r.tag = 0 => Awaits(r)'
    <3>1. CASE r \in Asked /\ r \notin Awaited(c)
      <4>1. r.tag = 0 => r.client # c /\ r.client \in Clients /\ Awaits(r)
        BY <1>5, <3>1 DEF AskedInv
      <4>2. r.tag = 0 => Awaits(r)'
        BY <1>3, <1>11, <4>1 DEF Awaits
      <4> QED
        BY <3>1, <4>2 DEF AskedInv
    <3>2. CASE \E q \in Asked : r = Request(q.client, q.op, tag)
      BY <1>2, <1>6, <3>2 DEF AskedInv
    <3> QED
      BY <1>9, <3>1, <3>2
  <2>3. ASSUME job' # Idle, job'.req.tag = 0 PROVE job'.req \notin requests'
    <3>1. job # Idle /\ job'.req = job.req /\ job.req.tag = 0 /\ job.req \notin requests
      BY <1>2, <1>6, <1>8, <2>3 DEF AskedInv
    <3>2. \A r \in requests' : r \in requests \/ r.tag = tag
      BY <1>3, <1>4, <1>6 DEF Asked
    <3> QED
      BY <1>2, <3>1, <3>2
  <2> QED
    BY <2>1, <2>2, <2>3 DEF AskedInv
<1>13. ctx' = [d \in Clients |-> ctx'[d]] /\ ctx'[c] = NONE /\ \A d \in Clients : d # c => ctx'[d] = ctx[d]
  BY <1>3 DEF TypeInv
<1>14. call' = [d \in Clients |-> call'[d]] /\ call' = call
  BY <1>3 DEF TypeInv
<1>15. NONE # "retry"
  BY NoneAssumption
<1>16. pc'[c] # "regwait" /\ (pc'[c] \in {"try", "wait", "failed"} => CallOK(call[c]))
  BY <1>3, <1>10, <1>11 DEF ClientInv
<1> QED
  BY <1>3, <1>8, <1>11, <1>12, <1>13, <1>14, <1>15, <1>16, OneClient

-----------------------------------------------------------------------------
(***************************************************************************)
(* The theorems.                                                            *)
(***************************************************************************)
LEMMA InitRpc ==
    Init => RpcInv
<1> HAVE Init
<1>1. TypeInv
  BY BoundAssumption DEF Init, TypeInv, Places
<1>2. JobInv /\ AskedInv
  BY FS_EmptySet DEF Init, JobInv, AskedInv, Asked
<1>3. ClientInv
  BY NoneAssumption DEF Init, ClientInv
<1>4. ListInv
  <2>1. \A c \in Clients : LiveAt(list, c) = {} /\ ~open[c]
    BY DEF Init, LiveAt
  <2> QED
    BY <2>1, Zenon DEF ListInv
<1> QED
  BY <1>1, <1>2, <1>3, <1>4 DEF RpcInv

\* Every step preserves the invariant.
LEMMA NextRpc ==
    ASSUME RpcInv, [Next]_vars
    PROVE  RpcInv'
<1>1. CASE UNCHANGED vars
  BY <1>1, SameInv DEF vars, daemonVars, rpcVars, eventVars
<1>2. CASE Daemon
  BY <1>2, ServeStep, WriteStep, ReplyStep, RegisteredStep DEF Daemon
<1>3. CASE Crash
  BY <1>3, CrashStep
<1>4. CASE Restart
  BY <1>4, SameInv DEF Restart, rpcVars, eventVars
<1>5. ASSUME NEW c \in Clients, Read(c) PROVE RpcInv'
  BY <1>5, SameInv DEF Read, daemonVars, rpcVars
<1>6. ASSUME NEW c \in Clients, Client(c) PROVE RpcInv'
  BY <1>6, TryStep, FailedStep, CbInitStep, TimeoutStep DEF Client
<1>7. ASSUME NEW c \in Clients, Start(c) \/ Lost(c) \/ \E op \in Calls(c) : Begin(c, op)
      PROVE  RpcInv'
  BY <1>7, IdleStep
<1> QED
  BY <1>1, <1>2, <1>3, <1>4, <1>5, <1>6, <1>7 DEF Next, Events

\* The inductive invariant of the daemon with its clients.
THEOREM RpcInvariance ==
    Spec => []RpcInv
<1>1. Init => RpcInv
  BY InitRpc
<1>2. RpcInv /\ [Next]_vars => RpcInv'
  BY NextRpc
<1> QED
  BY <1>1, <1>2, PTL DEF Spec

\* nr_reg_get_string_1_svc and nr_reg_get_bytes_1_svc never answer that the daemon's
\* buffer is too small: maybe_adjust_ptr makes room for any string or bytes.
THEOREM BufferFits ==
    Spec => []GetFits
<1>1. RpcInv => GetFits
  BY DEF RpcInv, JobInv, GetFits
<1> QED
  BY <1>1, RpcInvariance, PTL

\* The daemon's list has exactly one live entry for each client whose event connection
\* is up, and none for another, whatever was lost, given up or repeated.
THEOREM ClientsRelayed ==
    Spec => []Relayed
<1>1. RpcInv => Relayed
  <2> SUFFICES ASSUME RpcInv, NEW c \in Clients
               PROVE  Cardinality(LiveAt(list, c)) = IF open[c] /\ ~eof[c] THEN 1 ELSE 0
    BY DEF Relayed, LiveAt
  <2>1. CASE open[c] /\ ~eof[c]
    <3>1. LiveAt(list, c) # {} /\ \A i, j \in LiveAt(list, c) : i = j
      BY <2>1, Zenon DEF RpcInv, ListInv
    <3>2. PICK i : LiveAt(list, c) = {i}
      BY <3>1
    <3> QED
      BY <2>1, <3>2, FS_Singleton
  <2>2. CASE ~(open[c] /\ ~eof[c])
    <3>1. LiveAt(list, c) = {}
      BY <2>2, Zenon DEF RpcInv, ListInv
    <3> QED
      BY <2>2, <3>1, FS_EmptySet
  <2> QED
    BY <2>1, <2>2
<1> QED
  BY <1>1, RpcInvariance, PTL

-----------------------------------------------------------------------------
(***************************************************************************)
(* What a client knows.                                                     *)
(***************************************************************************)
Lines == [action : {"add", "change", "delete", "final", "eol"}, name : Names \cup {NONE}]

\* What the daemon's loop still has to write to c.
ToWrite(c) == IF job # Idle /\ LiveAt(job.todo, c) # {} THEN job.line ELSE <<>>

\* What c knows, and will know when it has read all that is on its way.
WillKnow(c) == Applied(Applied(Applied(view[c], buf[c]), pipe[c]), ToWrite(c))

\* The loop goes to each client once, and what it leaves to be known is what exists.
TrackInv ==
    /\ view \in [Clients -> SUBSET Names]
    /\ pipe \in [Clients -> Seq(Lines)] /\ buf \in [Clients -> Seq(Lines)]
    /\ job # Idle => /\ job.line \in Seq(Lines) /\ job.todo \in Seq(ClientEntries)
                     /\ \A c \in Clients : \A i, j \in LiveAt(job.todo, c) : i = j
    /\ \A c \in Clients : LiveAt(list, c) # {} => WillKnow(c) = Present

\* Without lines nothing is learned.
LEMMA AppliedEmpty ==
    ASSUME NEW x \in SUBSET Names
    PROVE  Applied(x, <<>>) = x
BY DEF Applied

\* Lines are processed one after the other: it does not matter how they are cut.
LEMMA AppliedConcat ==
    ASSUME NEW x, NEW s \in Seq(Lines), NEW t \in Seq(Lines)
    PROVE  Applied(x, s \o t) = Applied(Applied(x, s), t)
<1> DEFINE u == s \o t
           a == Len(s)
           b == Len(t)
<1>1. u \in Seq(Lines) /\ Len(u) = a + b /\ a \in Nat /\ b \in Nat
  OBVIOUS
<1>2. \A i \in 1..a : u[i] = s[i]
  OBVIOUS
<1>3. \A i \in 1..b : u[a + i] = t[i]
  OBVIOUS
<1> HIDE DEF u, a, b
<1>4. \A i \in 1..Len(u) : i \in 1..a \/ (i - a \in 1..b /\ i = a + (i - a))
  BY <1>1
<1>5. (\A i \in 1..a : i \in 1..Len(u)) /\ (\A i \in 1..b : a + i \in 1..Len(u))
  BY <1>1
<1> SUFFICES ASSUME NEW n \in Names
             PROVE  n \in Applied(x, u) <=> n \in Applied(Applied(x, s), t)
  BY DEF Applied, u
<1> DEFINE add == Text("add", n)
           del == Text("delete", n)
           Lives(q, m) == \E i \in 1..m : q[i] = add /\ \A j \in i..m : q[j] # del
           Safe(q, m)  == \A i \in 1..m : q[i] # del
<1>6. \A y : /\ n \in Applied(y, s) <=> Lives(s, a) \/ (n \in y /\ Safe(s, a))
             /\ n \in Applied(y, t) <=> Lives(t, b) \/ (n \in y /\ Safe(t, b))
             /\ n \in Applied(y, u) <=> Lives(u, a + b) \/ (n \in y /\ Safe(u, a + b))
  BY <1>1 DEF Applied, a, b
<1> HIDE DEF add, del
<1>7. Safe(u, a + b) <=> Safe(s, a) /\ Safe(t, b)
  <2>1. ASSUME Safe(u, a + b) PROVE Safe(s, a) /\ Safe(t, b)
    BY <1>1, <1>2, <1>3, <1>5, <2>1
  <2>2. ASSUME Safe(s, a), Safe(t, b), NEW i \in 1..(a + b) PROVE u[i] # del
    <3>1. CASE i \in 1..a
      BY <1>2, <2>2, <3>1
    <3>2. CASE i \notin 1..a
      <4>1. i - a \in 1..b /\ i = a + (i - a)
        BY <1>1, <3>2
      <4>2. u[a + (i - a)] = t[i - a]
        BY <1>3, <4>1
      <4> QED
        BY <2>2, <4>1, <4>2
    <3> QED
      BY <3>1, <3>2
  <2> QED
    BY <2>1, <2>2
<1>8. ASSUME Lives(u, a + b) PROVE Lives(t, b) \/ (Lives(s, a) /\ Safe(t, b))
  <2>1. PICK i \in 1..(a + b) : u[i] = add /\ \A j \in i..(a + b) : u[j] # del
    BY <1>8
  <2>2. CASE i \in 1..a
    <3>1. \A j \in i..a : j \in 1..a /\ j \in i..(a + b)
      BY <1>1, <2>2
    <3>2. \A j \in 1..b : a + j \in i..(a + b)
      BY <1>1, <2>2
    <3>3. s[i] = add /\ (\A j \in i..a : s[j] # del) /\ Safe(t, b)
      BY <1>2, <1>3, <2>1, <2>2, <3>1, <3>2
    <3> QED
      BY <2>2, <3>3
  <2>3. CASE i \notin 1..a
    <3>1. PICK k \in 1..b : i = a + k
      BY <1>1, <2>3
    <3>2. \A j \in k..b : j \in 1..b /\ a + j \in i..(a + b)
      BY <1>1, <3>1
    <3>3. t[k] = add /\ \A j \in k..b : t[j] # del
      BY <1>3, <2>1, <3>1, <3>2
    <3> QED
      BY <3>3
  <2> QED
    BY <2>2, <2>3
<1>9. ASSUME Lives(t, b) PROVE Lives(u, a + b)
  <2>1. PICK k \in 1..b : t[k] = add /\ \A j \in k..b : t[j] # del
    BY <1>9
  <2>2. a + k \in 1..(a + b) /\ u[a + k] = add
    BY <1>1, <1>3, <2>1
  <2>3. ASSUME NEW j \in (a + k)..(a + b) PROVE u[j] # del
    <3>1. j - a \in k..b /\ j - a \in 1..b /\ j = a + (j - a)
      BY <1>1
    <3> QED
      BY <1>3, <2>1, <3>1
  <2> QED
    BY <2>2, <2>3
<1>10. ASSUME Lives(s, a), Safe(t, b) PROVE Lives(u, a + b)
  <2>1. PICK i \in 1..a : s[i] = add /\ \A j \in i..a : s[j] # del
    BY <1>10
  <2>2. i \in 1..(a + b) /\ u[i] = add
    BY <1>1, <1>2, <2>1
  <2>3. ASSUME NEW j \in i..(a + b) PROVE u[j] # del
    <3>1. CASE j <= a
      <4>1. j \in i..a /\ j \in 1..a
        BY <1>1, <3>1
      <4> QED
        BY <1>2, <2>1, <4>1
    <3>2. CASE ~(j <= a)
      <4>1. j - a \in 1..b /\ j = a + (j - a)
        BY <1>1, <3>2
      <4> QED
        BY <1>3, <1>10, <4>1
    <3> QED
      BY <3>1, <3>2
  <2> QED
    BY <2>2, <2>3
<1> HIDE DEF Lives, Safe
<1> QED
  BY <1>6, <1>7, <1>8, <1>9, <1>10

\* A sequence is what it was cut into.
LEMMA CutLemma ==
    ASSUME NEW S, NEW s \in Seq(S), NEW k \in 0..Len(s)
    PROVE  /\ SubSeq(s, 1, k) \in Seq(S) /\ SubSeq(s, k + 1, Len(s)) \in Seq(S)
           /\ SubSeq(s, 1, k) \o SubSeq(s, k + 1, Len(s)) = s
<1> DEFINE m == Len(s)
           a == SubSeq(s, 1, k)
           b == SubSeq(s, k + 1, m)
<1>0. m \in Nat /\ k \in Nat /\ k <= m
  OBVIOUS
<1>1. a \in Seq(S) /\ Len(a) = k /\ \A i \in 1..k : a[i] = s[i]
  BY <1>0
<1>2. b \in Seq(S) /\ Len(b) = m - k /\ \A i \in 1..(m - k) : b[i] = s[k + i]
  BY <1>0
<1> HIDE DEF a, b, m
<1>3. a \in Seq(S) /\ b \in Seq(S)
  BY <1>1, <1>2
<1>4. /\ a \o b \in Seq(S) /\ Len(a \o b) = Len(a) + Len(b)
      /\ \A i \in 1..Len(a) : (a \o b)[i] = a[i]
  BY <1>3
<1>5. \A i \in 1..Len(b) : (a \o b)[Len(a) + i] = b[i]
  BY <1>3
<1> DEFINE c == a \o b
<1> HIDE DEF c
<1>6. c \in Seq(S) /\ Len(c) = m
  BY <1>0, <1>1, <1>2, <1>4 DEF c
<1>7. ASSUME NEW i \in 1..m PROVE c[i] = s[i]
  <2>1. CASE i <= k
    <3>1. i \in 1..k
      BY <1>0, <2>1
    <3> QED
      BY <1>1, <1>4, <3>1 DEF c
  <2>2. CASE ~(i <= k)
    <3>1. i - k \in 1..(m - k) /\ i = k + (i - k)
      BY <1>0, <2>2
    <3>2. c[k + (i - k)] = b[i - k]
      BY <1>1, <1>2, <1>5, <3>1 DEF c
    <3> QED
      BY <1>2, <3>1, <3>2
  <2> QED
    BY <1>0, <2>1, <2>2
<1>8. c = s
  BY <1>6, <1>7 DEF m
<1> QED
  BY <1>3, <1>8 DEF a, b, c, m

\* When the loop goes on, it has passed the first entry.
LEMMA TailLive ==
    ASSUME NEW q \in Seq(ClientEntries), q # <<>>, NEW c \in Clients,
           \A i, j \in LiveAt(q, c) : i = j
    PROVE  /\ Tail(q) \in Seq(ClientEntries)
           /\ \A i, j \in LiveAt(Tail(q), c) : i = j
           /\ Head(q) = Entry(c, TRUE) => LiveAt(q, c) # {} /\ LiveAt(Tail(q), c) = {}
           /\ Head(q) # Entry(c, TRUE) => (LiveAt(Tail(q), c) # {} <=> LiveAt(q, c) # {})
<1> DEFINE t == Tail(q)
           m == Len(q)
<1>1. m \in Nat /\ m > 0 /\ Head(q) = q[1]
  OBVIOUS
<1>2. t \in Seq(ClientEntries) /\ Len(t) = m - 1 /\ \A i \in 1..(m - 1) : t[i] = q[i + 1]
  BY <1>1
<1> HIDE DEF t, m
<1>3. \A i \in LiveAt(q, c) : i \in 1..m /\ q[i] = Entry(c, TRUE)
  BY DEF LiveAt, m
<1>4. ASSUME NEW i \in LiveAt(t, c) PROVE i \in Nat /\ i + 1 # 1 /\ i + 1 \in LiveAt(q, c)
  <2>1. i \in 1..(m - 1) /\ t[i] = Entry(c, TRUE)
    BY <1>2 DEF LiveAt
  <2>2. i \in Nat /\ i + 1 \in 1..m /\ i + 1 # 1
    BY <1>1, <2>1
  <2>3. q[i + 1] = Entry(c, TRUE)
    BY <1>2, <2>1
  <2> QED
    BY <2>2, <2>3 DEF LiveAt, m
<1>5. ASSUME NEW i \in LiveAt(q, c), i # 1 PROVE i - 1 \in LiveAt(t, c)
  <2>0. i \in 1..m
    BY <1>3
  <2>1. i - 1 \in 1..(m - 1) /\ (i - 1) + 1 = i
    BY <1>1, <1>5, <2>0
  <2>2. t[i - 1] = Entry(c, TRUE)
    BY <1>2, <1>3, <2>1
  <2>3. i - 1 \in 1..Len(t)
    BY <1>2, <2>1
  <2> QED
    BY <2>2, <2>3 DEF LiveAt
<1>6. Head(q) = Entry(c, TRUE) <=> 1 \in LiveAt(q, c)
  <2>1. 1 \in 1..m
    BY <1>1
  <2> QED
    BY <1>1, <2>1 DEF LiveAt, m
<1>7. \A i, j \in LiveAt(t, c) : i = j
  <2> TAKE i, j \in LiveAt(t, c)
  <2>1. i \in Nat /\ j \in Nat /\ i + 1 = j + 1
    BY <1>4
  <2> QED
    BY <2>1
<1>8. ASSUME Head(q) = Entry(c, TRUE) PROVE LiveAt(q, c) # {} /\ LiveAt(t, c) = {}
  BY <1>4, <1>6, <1>8
<1>9. ASSUME Head(q) # Entry(c, TRUE) PROVE LiveAt(t, c) # {} <=> LiveAt(q, c) # {}
  <2>1. 1 \notin LiveAt(q, c)
    BY <1>6, <1>9
  <2> QED
    BY <1>4, <1>5, <2>1
<1> QED
  BY <1>2, <1>7, <1>8, <1>9 DEF t

\* The complete lines are a part of what was read.
LEMMA CompleteLemma ==
    ASSUME NEW S, NEW s \in Seq(S)
    PROVE  Complete(s) \in 0..Len(s)
<1> DEFINE ends == {0} \cup {i \in DOMAIN s : s[i] = EOL}
<1>1. Len(s) \in Nat /\ DOMAIN s = 1..Len(s)
  OBVIOUS
<1>2. ends \in SUBSET (0..Len(s)) /\ ends # {}
  BY <1>1
<1>3. Complete(s) = CHOOSE i \in ends : \A j \in ends : j <= i
  BY DEF Complete
<1> HIDE DEF ends
<1>4. \E i \in ends : \A j \in ends : j <= i
  BY <1>1, <1>2, GreatestLemma
<1> QED
  BY <1>2, <1>3, <1>4

\* What one event says, with the end of its line.
LEMMA LineLemma ==
    ASSUME NEW x \in SUBSET Names, NEW a \in {"add", "change", "delete", "final"}, NEW n \in Names
    PROVE  /\ <<EOL>> \in Seq(Lines) /\ <<Text(a, n), EOL>> \in Seq(Lines)
           /\ Applied(x, <<EOL>>) = x
           /\ Applied(x, <<Text(a, n), EOL>>) =
                 IF a = "add" THEN x \cup {n} ELSE IF a = "delete" THEN x \ {n} ELSE x
<1>1. EOL \in Lines /\ Text(a, n) \in Lines
  BY DEF EOL, Text, Lines
<1>2. \A m : EOL # Text("add", m) /\ EOL # Text("delete", m)
  BY DEF EOL, Text
<1>3. \A b, m : Text(a, n) = Text(b, m) <=> a = b /\ n = m
  BY DEF Text
<1> DEFINE e == Text(a, n)
           o == EOL
<1>4. \A m \in Names : /\ e = Text("add", m) <=> a = "add" /\ n = m
                       /\ e = Text("delete", m) <=> a = "delete" /\ n = m
                       /\ o # Text("add", m) /\ o # Text("delete", m)
  BY <1>2, <1>3
<1>5. e \in Lines /\ o \in Lines
  BY <1>1
<1> HIDE DEF e, o
<1>6. Applied(x, <<o>>) = x
  <2>1. Len(<<o>>) = 1 /\ <<o>>[1] = o
    OBVIOUS
  <2>2. 1..1 = {1}
    OBVIOUS
  <2> QED
    BY <1>4, <2>1, <2>2 DEF Applied
<1>7. Applied(x, <<e, o>>) = IF a = "add" THEN x \cup {n} ELSE IF a = "delete" THEN x \ {n} ELSE x
  <2> DEFINE l == <<e, o>>
  <2>1. Len(l) = 2 /\ l[1] = e /\ l[2] = o
    OBVIOUS
  <2>2. 1..2 = {1, 2} /\ 2..2 = {2}
    OBVIOUS
  <2> HIDE DEF l
  <2>3. ASSUME NEW m \in Names
        PROVE  m \in Applied(x, l) <=>
                  (a = "add" /\ n = m) \/ (m \in x /\ ~(a = "delete" /\ n = m))
    BY <1>4, <2>1, <2>2 DEF Applied
  <2>4. Applied(x, l) \subseteq Names
    BY DEF Applied
  <2> QED
    BY <2>3, <2>4 DEF l
<1>8. <<o>> \in Seq(Lines) /\ <<e, o>> \in Seq(Lines)
  BY <1>5
<1> QED
  BY <1>6, <1>7, <1>8 DEF e, o

Kept(table) == {n \in Names : table[n] # NONE}

\* A procedure's event says what it has done to the names.
LEMMA EventLemma ==
    ASSUME store \in [Names -> Values \cup {NONE}], maxlen \in Nat, NEW op, OpOK(op)
    PROVE  LET o == Dispatch(op)
           IN  /\ o.event = NONE => Kept(o.store) = Present
               /\ o.event # NONE => /\ <<o.event, EOL>> \in Seq(Lines)
                                    /\ Applied(Present, <<o.event, EOL>>) = Kept(o.store)
               /\ op = REGISTER => o.event = NONE
<1> DEFINE Good(o) ==
        \/ o.event = NONE /\ Kept(o.store) = Present
        \/ \E a \in {"add", "change", "delete", "final"}, n \in Names :
              /\ o.event = Text(a, n) /\ op # REGISTER
              /\ Kept(o.store) = IF a = "add" THEN Present \cup {n}
                                 ELSE IF a = "delete" THEN Present \ {n} ELSE Present
<1>1. ASSUME NEW ret, NEW val PROVE Good(Answer(ret, val))
  BY OutcomeLemma DEF Kept, Present, Answer
<1>2. Present \in SUBSET Names
  BY DEF Present
<1>3. Good(Dispatch(op))
  <2> HIDE DEF Good
  <2>1. CASE op.proc \in {"get", "length", "alloc", "type"}
    <3>1. \E ret, val : GetProc(op) = Answer(ret, val)
      <4>1. CASE op.proc = "get" /\ op.type \in ArrayTypes
        BY <4>1 DEF GetProc, DoGetArray, LocalGet
      <4>2. CASE op.proc = "get" /\ op.type \notin ArrayTypes
        BY <4>2 DEF GetProc, DoGetScalar, LocalGet
      <4>3. CASE op.proc \in {"length", "alloc"}
        BY <4>3 DEF GetProc, DoLength, OfNode
      <4>4. CASE op.proc = "type"
        BY <4>4 DEF GetProc, DoType, OfNode
      <4> QED
        BY <2>1, <4>1, <4>2, <4>3, <4>4
    <3>2. Dispatch(op) = GetProc(op)
      BY <2>1 DEF Dispatch
    <3> QED
      BY <1>1, <3>1, <3>2
  <2>2. CASE op.proc = "set"
    <3>1. /\ Dispatch(op) = LocalSet(op.name, op.val)
          /\ op.name \in Names /\ op.val \in Values /\ op # REGISTER
      BY <2>2 DEF Dispatch, SetProc, DoSet, OpOK, REGISTER, TreeCall
    <3>2. PICK n \in Names, v \in Values : n = op.name /\ v = op.val
      BY <3>1
    <3> DEFINE r == Fetched(n, v.type)
               t == [store EXCEPT ![n] = v]
    <3>3. r \in {"R_NOT_FOUND", "R_FAILED", "0"}
      BY FetchedLemma
    <3>4. Kept(t) = Present \cup {n}
      BY NoneAssumption DEF Kept, Present
    <3> HIDE DEF t
    <3>5. CASE r = "R_NOT_FOUND"
      <4>1. LocalSet(n, v) = Outcome(t, Text("add", n), "0", NONE)
        BY <3>5 DEF LocalSet, t
      <4>2. LocalSet(n, v).event = Text("add", n) /\ LocalSet(n, v).store = t
        BY <4>1, OutcomeLemma
      <4> QED
        BY <3>1, <3>2, <3>4, <4>2 DEF Good
    <3>6. CASE r = "R_FAILED"
      <4>1. LocalSet(n, v) = Answer(r, NONE)
        BY <3>6 DEF LocalSet
      <4> QED
        BY <1>1, <3>1, <3>2, <4>1
    <3>7. CASE r = "0"
      <4>0. store[n] # NONE
        BY <3>7 DEF Fetched
      <4>1. n \in Present
        BY <4>0 DEF Present
      <4>2. Kept(t) = Present
        BY <3>4, <4>1
      <4>3. LocalSet(n, v) = Outcome(t, IF store[n] = v THEN NONE ELSE Text("change", n), "0", NONE)
        BY <3>7 DEF LocalSet, t
      <4>4. LocalSet(n, v).event \in {NONE, Text("change", n)} /\ LocalSet(n, v).store = t
        BY <4>3, OutcomeLemma
      <4> QED
        BY <3>1, <3>2, <4>2, <4>4 DEF Good
    <3> QED
      BY <3>3, <3>5, <3>6, <3>7
  <2>3. CASE op.proc = "del"
    <3>1. /\ Dispatch(op) = DoDel(op) /\ op.name \in Names /\ op # REGISTER
      BY <2>3 DEF Dispatch, TreeProc, OpOK, REGISTER, TreeCall
    <3>2. PICK n \in Names : n = op.name
      BY <3>1
    <3> DEFINE t == [store EXCEPT ![n] = NONE]
    <3>3. Kept(t) = Present \ {n}
      BY DEF Kept, Present
    <3>4. DoDel(op).event = Text("delete", n) /\ DoDel(op).store = t
      BY <3>2, OutcomeLemma DEF DoDel
    <3> HIDE DEF t
    <3> QED
      BY <3>1, <3>3, <3>4 DEF Good
  <2>4. CASE op.proc = "fin"
    <3>1. /\ Dispatch(op) = DoFin(op) /\ op.name \in Names /\ op # REGISTER
      BY <2>4 DEF Dispatch, TreeProc, OpOK, REGISTER, TreeCall
    <3>2. DoFin(op).event = Text("final", op.name) /\ DoFin(op).store = store
      BY OutcomeLemma DEF DoFin
    <3>3. Kept(store) = Present
      BY DEF Kept, Present
    <3> QED
      BY <3>1, <3>2, <3>3 DEF Good
  <2>5. CASE op.proc \in {"children", "count", "register"}
    <3>1. \E val : Dispatch(op) = Answer("0", val)
      <4>1. CASE op.proc = "children"
        BY <4>1 DEF Dispatch, TreeProc, DoChildren
      <4>2. CASE op.proc = "count"
        BY <4>2 DEF Dispatch, TreeProc, DoCount
      <4>3. CASE op.proc = "register"
        BY <4>3 DEF Dispatch, TreeProc
      <4> QED
        BY <2>5, <4>1, <4>2, <4>3
    <3> QED
      BY <1>1, <3>1
  <2> QED
    BY <2>1, <2>2, <2>3, <2>4, <2>5 DEF OpOK
<1>4. ASSUME NEW a \in {"add", "change", "delete", "final"}, NEW n \in Names
      PROVE  Text(a, n) # NONE
  <2>1. Text(a, n) \in [action : {"add", "change", "delete", "final"}, name : Names]
    BY DEF Text
  <2> QED
    BY <2>1, NoneAssumption
<1> DEFINE o == Dispatch(op)
<1> HIDE DEF o
<1>5. Good(o)
  BY <1>3 DEF o
<1>6. CASE o.event = NONE /\ Kept(o.store) = Present
  BY <1>6 DEF o
<1>7. CASE ~(o.event = NONE /\ Kept(o.store) = Present)
  <2>1. PICK a \in {"add", "change", "delete", "final"}, n \in Names :
           /\ o.event = Text(a, n) /\ op # REGISTER
           /\ Kept(o.store) = IF a = "add" THEN Present \cup {n}
                              ELSE IF a = "delete" THEN Present \ {n} ELSE Present
    BY <1>5, <1>7
  <2>2. o.event # NONE
    BY <1>4, <2>1
  <2>3. <<o.event, EOL>> \in Seq(Lines) /\ Applied(Present, <<o.event, EOL>>) = Kept(o.store)
    <3>1. <<Text(a, n), EOL>> \in Seq(Lines)
      BY <1>2, LineLemma
    <3>2. Applied(Present, <<Text(a, n), EOL>>) =
             IF a = "add" THEN Present \cup {n} ELSE IF a = "delete" THEN Present \ {n} ELSE Present
      BY <1>2, LineLemma
    <3> QED
      BY <2>1, <3>1, <3>2
  <2> QED
    BY <2>1, <2>2, <2>3 DEF o
<1> QED
  BY <1>6, <1>7

\* A job is not Idle.
LEMMA BusyLemma ==
    ASSUME NEW r, NEW l, NEW a, NEW t
    PROVE  [req |-> r, line |-> l, reply |-> a, todo |-> t] # Idle
<1> DEFINE j == [req |-> r, line |-> l, reply |-> a, todo |-> t]
<1>1. "line" \in DOMAIN j /\ "line" \notin DOMAIN Idle
  BY DEF Idle
<1> QED
  BY <1>1

\* Nobody is on an empty list.
LEMMA LiveEmpty == \A c : LiveAt(<<>>, c) = {}
BY DEF LiveAt

\* A step that changes neither the names nor what is known of them, nor what is still
\* to be written.
LEMMA TrackKept ==
    ASSUME TrackInv, UNCHANGED <<store, view, pipe, buf>>,
           job' # Idle => /\ job # Idle /\ job'.line = job.line
                          /\ job'.todo \in Seq(ClientEntries)
                          /\ \A c \in Clients : \A i, j \in LiveAt(job'.todo, c) : i = j,
           \A c \in Clients : LiveAt(list', c) # {} =>
               LiveAt(list, c) # {} /\ ToWrite(c)' = ToWrite(c)
    PROVE  TrackInv'
<1>1. Present' = Present
  BY DEF Present
<1>2. ASSUME NEW c \in Clients, LiveAt(list', c) # {} PROVE WillKnow(c)' = Present'
  <2>1. WillKnow(c) = Present /\ ToWrite(c)' = ToWrite(c)
    BY <1>2 DEF TrackInv
  <2>2. WillKnow(c)' = WillKnow(c)
    BY <2>1 DEF WillKnow
  <2> QED
    BY <1>1, <2>1, <2>2
<1>3. job' # Idle => job'.line \in Seq(Lines)
  BY DEF TrackInv
<1> QED
  BY <1>2, <1>3 DEF TrackInv

\* In particular one that leaves the loop where it is.
LEMMA LoopKept ==
    ASSUME TrackInv, UNCHANGED <<store, view, pipe, buf>>,
           job' # Idle <=> job # Idle,
           job # Idle => job'.line = job.line /\ job'.todo = job.todo,
           \A c \in Clients : LiveAt(list', c) = LiveAt(list, c)
    PROVE  TrackInv'
<1>1. \A c \in Clients : ToWrite(c)' = ToWrite(c)
  BY DEF ToWrite
<1>2. job' # Idle => /\ job # Idle /\ job'.line = job.line
                     /\ job'.todo \in Seq(ClientEntries)
                     /\ \A c \in Clients : \A i, j \in LiveAt(job'.todo, c) : i = j
  BY DEF TrackInv
<1> QED
  BY <1>1, <1>2, TrackKept

\* The event of an RPC goes to all clients that the daemon knows.
LEMMA ServeTrack ==
    ASSUME RpcInv, TrackInv, NEW r \in requests, Serve(r)
    PROVE  TrackInv'
<1> DEFINE o == Dispatch(r.op)
           text == IF r.op = REGISTER THEN <<EOL>>
                   ELSE IF o.event = NONE THEN <<>> ELSE <<o.event, EOL>>
<1>1. PICK line : line = text
  OBVIOUS
<1>2. /\ job = Idle /\ store' = o.store
      /\ job' = [req |-> r, line |-> line, reply |-> o.reply,
                 todo |-> IF line = <<>> THEN <<>> ELSE list]
      /\ UNCHANGED <<list, view, pipe, buf>>
  BY <1>1 DEF Serve, eventVars
<1>3. OpOK(r.op) /\ store \in [Names -> Values \cup {NONE}] /\ maxlen \in Nat
  BY DEF RpcInv, Asked, AskedInv, TypeInv
<1>4. Present \in SUBSET Names /\ Present' = Kept(o.store)
  BY <1>2 DEF Present, Kept
<1>5. line \in Seq(Lines) /\ Applied(Present, line) = Present'
  <2>1. CASE r.op = REGISTER
    <3>1. line = <<EOL>> /\ Present' = Present
      <4>1. o.event = NONE /\ Kept(o.store) = Present
        BY <1>3, <2>1, EventLemma
      <4>2. line = <<EOL>>
        BY <1>1, <2>1, Zenon
      <4> QED
        BY <1>4, <4>1, <4>2
    <3>2. <<EOL>> \in Seq(Lines)
      BY DEF EOL, Lines
    <3>3. Applied(Present, <<EOL>>) = Present
      <4>1. CASE Names = {}
        BY <1>4, <4>1 DEF Applied
      <4>2. CASE Names # {}
        BY <1>4, <4>2, LineLemma
      <4> QED
        BY <4>1, <4>2
    <3> QED
      BY <3>1, <3>2, <3>3
  <2>2. CASE r.op # REGISTER /\ o.event = NONE
    <3>1. line = <<>> /\ Present' = Present
      <4>1. Kept(o.store) = Present
        BY <1>3, <2>2, EventLemma
      <4> QED
        BY <1>1, <1>4, <2>2, <4>1
    <3> QED
      BY <1>4, <3>1, AppliedEmpty
  <2>3. CASE r.op # REGISTER /\ o.event # NONE
    <3>1. line = <<o.event, EOL>>
      BY <1>1, <2>3
    <3> QED
      <4>1. /\ <<o.event, EOL>> \in Seq(Lines)
            /\ Applied(Present, <<o.event, EOL>>) = Kept(o.store)
        BY <1>3, <2>3, EventLemma
      <4> QED
        BY <1>4, <3>1, <4>1
  <2> QED
    BY <2>1, <2>2, <2>3
<1> HIDE DEF o, text
<1>6. /\ job' # Idle /\ job'.line = line
      /\ job'.todo = IF line = <<>> THEN <<>> ELSE list
  BY <1>2, BusyLemma
<1>7. /\ job'.todo \in Seq(ClientEntries)
      /\ \A c \in Clients : \A i, j \in LiveAt(job'.todo, c) : i = j
  <2>1. list \in Seq(ClientEntries) /\ \A c \in Clients : \A i, j \in LiveAt(list, c) : i = j
    BY DEF RpcInv, TypeInv, ListInv
  <2>2. CASE line = <<>>
    BY <1>6, <2>2, LiveEmpty
  <2>3. CASE line # <<>>
    BY <1>6, <2>1, <2>3
  <2> QED
    BY <2>2, <2>3
<1>8. ASSUME NEW c \in Clients, LiveAt(list', c) # {} PROVE WillKnow(c)' = Present'
  <2> DEFINE x == Applied(Applied(view[c], buf[c]), pipe[c])
  <2>1. x \in SUBSET Names
    BY DEF Applied
  <2>2. Applied(x, <<>>) = Present
    <3>1. ToWrite(c) = <<>>
      BY <1>2 DEF ToWrite
    <3>2. LiveAt(list, c) # {}
      BY <1>2, <1>8
    <3>3. WillKnow(c) = Present
      BY <3>2 DEF TrackInv
    <3> QED
      BY <3>1, <3>3 DEF WillKnow
  <2>3. x = Present
    BY <2>1, <2>2, AppliedEmpty
  <2>4. ToWrite(c)' = line
    <3>1. CASE line = <<>>
      BY <1>6, <3>1, LiveEmpty DEF ToWrite
    <3>2. CASE line # <<>>
      <4>1. job'.todo = list /\ LiveAt(list, c) # {}
        BY <1>2, <1>6, <1>8, <3>2
      <4> QED
        BY <1>6, <4>1 DEF ToWrite
    <3> QED
      BY <3>1, <3>2
  <2>5. WillKnow(c)' = Applied(x, ToWrite(c)')
    BY <1>2 DEF WillKnow
  <2> QED
    BY <1>5, <2>3, <2>4, <2>5
<1>9. /\ view' \in [Clients -> SUBSET Names]
      /\ pipe' \in [Clients -> Seq(Lines)] /\ buf' \in [Clients -> Seq(Lines)]
  BY <1>2 DEF TrackInv
<1> QED
  BY <1>5, <1>6, <1>7, <1>8, <1>9 DEF TrackInv

\* A line that is written is in the socket, and no longer to be written.
LEMMA WriteLiveTrack ==
    ASSUME RpcInv, TrackInv, WriteLive
    PROVE  TrackInv'
<1> DEFINE e == Head(job.todo)
           d == e.client
           q == job.todo
<1>1. /\ job # Idle /\ q # <<>> /\ e.live
      /\ pipe' = [pipe EXCEPT ![d] = pipe[d] \o job.line]
      /\ job' = [job EXCEPT !.todo = Tail(q)]
      /\ UNCHANGED <<store, list, buf, view>>
  BY DEF WriteLive, Writing
<1>2. job.line \in Seq(Lines) /\ q \in Seq(ClientEntries)
      /\ \A c \in Clients : \A i, j \in LiveAt(q, c) : i = j
  BY <1>1 DEF TrackInv
<1>3. job' # Idle /\ job'.line = job.line /\ job'.todo = Tail(q)
  <2>1. PICK r, l, a, t : job = [req |-> r, line |-> l, reply |-> a, todo |-> t]
    BY <1>1 DEF RpcInv, JobInv
  <2>2. job' = [req |-> r, line |-> l, reply |-> a, todo |-> Tail(q)]
    BY <1>1, <2>1
  <2> QED
    BY <2>1, <2>2, BusyLemma
<1>4. e \in ClientEntries
  BY <1>1, <1>2
<1>5. d \in Clients /\ e = Entry(d, TRUE)
  BY <1>1, <1>4 DEF Entry, ClientEntries
<1>6. /\ Tail(q) \in Seq(ClientEntries)
      /\ \A c \in Clients : \A i, j \in LiveAt(Tail(q), c) : i = j
  BY <1>1, <1>2, <1>5, TailLive
<1>7. /\ pipe' \in [Clients -> Seq(Lines)] /\ pipe'[d] = pipe[d] \o job.line
      /\ \A c \in Clients : c # d => pipe'[c] = pipe[c]
  <2>1. pipe \in [Clients -> Seq(Lines)] /\ pipe[d] \in Seq(Lines)
    BY <1>5 DEF TrackInv
  <2>2. pipe[d] \o job.line \in Seq(Lines)
    BY <1>2, <2>1
  <2> QED
    BY <1>1, <1>5, <2>1, <2>2
<1>8. ASSUME NEW c \in Clients, LiveAt(list', c) # {} PROVE WillKnow(c)' = Present'
  <2> DEFINE x == Applied(view[c], buf[c])
  <2>1. WillKnow(c) = Present /\ Present' = Present
    BY <1>1, <1>8 DEF TrackInv, Present
  <2>2. WillKnow(c)' = Applied(Applied(x, pipe'[c]), ToWrite(c)')
    BY <1>1 DEF WillKnow
  <2>3. CASE c = d
    <3>1. LiveAt(q, c) # {} /\ LiveAt(Tail(q), c) = {}
      BY <1>1, <1>2, <1>5, <2>3, TailLive
    <3>2. ToWrite(c) = job.line /\ ToWrite(c)' = <<>>
      BY <1>1, <1>3, <3>1 DEF ToWrite
    <3>3. Applied(x, pipe'[c]) = Applied(Applied(x, pipe[c]), job.line)
      <4>1. pipe[c] \in Seq(Lines)
        BY DEF TrackInv
      <4> QED
        <5>1. Applied(x, pipe[c] \o job.line) = Applied(Applied(x, pipe[c]), job.line)
          BY <1>2, <4>1, AppliedConcat
        <5> QED
          BY <1>7, <2>3, <5>1
    <3>4. Applied(x, pipe'[c]) = Present
      BY <2>1, <3>2, <3>3 DEF WillKnow
    <3>5. Present \in SUBSET Names
      BY DEF Present
    <3> QED
      BY <2>1, <2>2, <3>2, <3>4, <3>5, AppliedEmpty
  <2>4. CASE c # d
    <3>1. e # Entry(c, TRUE)
      BY <1>5, <2>4 DEF Entry
    <3>2. LiveAt(Tail(q), c) # {} <=> LiveAt(q, c) # {}
      BY <1>1, <1>2, <3>1, TailLive
    <3>3. ToWrite(c)' = ToWrite(c)
      BY <1>1, <1>3, <3>2 DEF ToWrite
    <3> QED
      BY <1>7, <2>1, <2>2, <2>4, <3>3 DEF WillKnow
  <2> QED
    BY <2>3, <2>4
<1>9. view' \in [Clients -> SUBSET Names] /\ buf' \in [Clients -> Seq(Lines)]
  BY <1>1 DEF TrackInv
<1> QED
  BY <1>2, <1>3, <1>6, <1>7, <1>8, <1>9 DEF TrackInv

\* A dead entry is dropped; nothing is written.
LEMMA WriteDeadTrack ==
    ASSUME RpcInv, TrackInv, WriteDead
    PROVE  TrackInv'
<1> DEFINE e == Head(job.todo)
           q == job.todo
<1>1. /\ job # Idle /\ q # <<>> /\ ~e.live
      /\ list' = RemoveFirst(list, e)
      /\ job' = [job EXCEPT !.todo = Tail(q)]
      /\ UNCHANGED <<store, pipe, buf, view, open, eof>>
  BY DEF WriteDead, Writing, eventVars
<1>2. q \in Seq(ClientEntries) /\ \A c \in Clients : \A i, j \in LiveAt(q, c) : i = j
  BY <1>1 DEF TrackInv
<1>3. job' # Idle /\ job'.line = job.line /\ job'.todo = Tail(q)
  <2>1. PICK r, l, a, t : job = [req |-> r, line |-> l, reply |-> a, todo |-> t]
    BY <1>1 DEF RpcInv, JobInv
  <2>2. job' = [req |-> r, line |-> l, reply |-> a, todo |-> Tail(q)]
    BY <1>1, <2>1
  <2> QED
    BY <2>1, <2>2, BusyLemma
<1>4. \A c \in Clients : e # Entry(c, TRUE)
  BY <1>1 DEF Entry
<1>5. \A c \in Clients : LiveAt(list', c) # {} => LiveAt(list, c) # {}
  <2>1. ListInv'
    BY <1>1, <1>4, DeadRemoved DEF RpcInv
  <2> QED
    BY <1>1, <2>1, Zenon DEF ListInv, RpcInv
<1>6. Tail(q) \in Seq(ClientEntries)
  BY <1>1, <1>2
<1>7. ASSUME NEW c \in Clients
      PROVE  /\ \A i, j \in LiveAt(Tail(q), c) : i = j
             /\ LiveAt(Tail(q), c) # {} <=> LiveAt(q, c) # {}
  BY <1>1, <1>2, <1>4, TailLive
<1>8. \A c \in Clients : ToWrite(c)' = ToWrite(c)
  BY <1>1, <1>3, <1>7 DEF ToWrite
<1> QED
  BY <1>1, <1>3, <1>5, <1>6, <1>7, <1>8, TrackKept

\* The loop is over when the daemon answers.
LEMMA ReplyTrack ==
    ASSUME RpcInv, TrackInv, Reply
    PROVE  TrackInv'
<1>1. job.todo = <<>> /\ job' = Idle /\ UNCHANGED <<store, list, pipe, buf, view>>
  BY DEF Reply, eventVars
<1>2. \A c \in Clients : ToWrite(c) = <<>> /\ ToWrite(c)' = <<>>
  BY <1>1, LiveEmpty DEF ToWrite
<1> QED
  BY <1>1, <1>2, TrackKept

\* Who is registered knows what exists: it is told of what comes after.
LEMMA RegisteredTrack ==
    ASSUME RpcInv, TrackInv, Registered
    PROVE  TrackInv'
<1> DEFINE c == job.req.client
<1>1. job # Idle /\ job.todo = <<>> /\ job' = Idle /\ store' = store
  BY DEF Registered
<1>2. c \in Clients /\ list \in Seq(ClientEntries)
  BY <1>1 DEF RpcInv, Asked, AskedInv, TypeInv
<1>3. \A d \in Clients : ToWrite(d) = <<>> /\ ToWrite(d)' = <<>>
  BY <1>1, LiveEmpty DEF ToWrite
<1>4. CASE job.req.tag # 0
  <2>1. list' \in {list, Append(list, Entry(c, FALSE))} /\ UNCHANGED <<pipe, buf, view>>
    BY <1>4 DEF Registered, eventVars
  <2>2. Entry(c, FALSE) \in ClientEntries /\ \A d : Entry(c, FALSE) # Entry(d, TRUE)
    BY <1>2 DEF Entry, ClientEntries
  <2>3. ASSUME NEW d \in Clients PROVE LiveAt(list', d) = LiveAt(list, d)
    <3>1. LiveAt(Append(list, Entry(c, FALSE)), d) = LiveAt(list, d)
      <4> DEFINE e == Entry(c, FALSE)
      <4>1. e # Entry(d, TRUE) /\ e \in ClientEntries
        BY <2>2
      <4> HIDE DEF e
      <4>2. LiveAt(Append(list, e), d) =
               IF e = Entry(d, TRUE) THEN LiveAt(list, d) \cup {Len(list) + 1} ELSE LiveAt(list, d)
        BY <1>2, <4>1, AppendLive
      <4>3. LiveAt(Append(list, e), d) = LiveAt(list, d)
        BY <4>1, <4>2
      <4> QED
        BY <4>3 DEF e
    <3> QED
      BY <2>1, <3>1
  <2> QED
    BY <1>1, <1>3, <2>1, <2>3, TrackKept
<1>5. CASE job.req.tag = 0
  <2>1. /\ list' = Append(list, Entry(c, TRUE))
        /\ pipe' = [pipe EXCEPT ![c] = <<>>]
        /\ buf' = [buf EXCEPT ![c] = <<>>]
        /\ view' = [view EXCEPT ![c] = Present]
    BY <1>5 DEF Registered, Connected
  <2>2. Entry(c, TRUE) \in ClientEntries /\ \A d : d # c => Entry(c, TRUE) # Entry(d, TRUE)
    BY <1>2 DEF Entry, ClientEntries
  <2>3. Present \in SUBSET Names /\ Present' = Present
    BY <1>1 DEF Present
  <2> HIDE DEF c
  <2>4. view' \in [Clients -> SUBSET Names] /\ view'[c] = Present
        /\ \A d \in Clients : d # c => view'[d] = view[d]
    BY <1>2, <2>1, <2>3 DEF TrackInv
  <2>5. pipe' \in [Clients -> Seq(Lines)] /\ pipe'[c] = <<>>
        /\ \A d \in Clients : d # c => pipe'[d] = pipe[d]
    BY <1>2, <2>1 DEF TrackInv
  <2>6. buf' \in [Clients -> Seq(Lines)] /\ buf'[c] = <<>>
        /\ \A d \in Clients : d # c => buf'[d] = buf[d]
    BY <1>2, <2>1 DEF TrackInv
  <2>7. ASSUME NEW d \in Clients, LiveAt(list', d) # {} PROVE WillKnow(d)' = Present'
    <3>1. WillKnow(d)' = Applied(Applied(Applied(view'[d], buf'[d]), pipe'[d]), <<>>)
      BY <1>3 DEF WillKnow
    <3>2. CASE d = c
      <4>1. WillKnow(d)' = Applied(Applied(Applied(Present, <<>>), <<>>), <<>>)
        BY <2>4, <2>5, <2>6, <3>1, <3>2
      <4>2. Applied(Present, <<>>) = Present
        BY <2>3, AppliedEmpty
      <4> QED
        BY <2>3, <4>1, <4>2
    <3>3. CASE d # c
      <4>1. LiveAt(list, d) # {}
        <5> DEFINE e == Entry(c, TRUE)
        <5>1. e # Entry(d, TRUE) /\ e \in ClientEntries
          BY <2>2, <3>3
        <5>2. list' = Append(list, e)
          BY <2>1
        <5> HIDE DEF e
        <5>3. LiveAt(Append(list, e), d) =
               IF e = Entry(d, TRUE) THEN LiveAt(list, d) \cup {Len(list) + 1} ELSE LiveAt(list, d)
          BY <1>2, <5>1, AppendLive
        <5> QED
          BY <2>7, <5>1, <5>2, <5>3
      <4>2. WillKnow(d) = Present
        BY <4>1 DEF TrackInv
      <4>3. WillKnow(d) = Applied(Applied(Applied(view[d], buf[d]), pipe[d]), <<>>)
        BY <1>3 DEF WillKnow
      <4> QED
        BY <2>3, <2>4, <2>5, <2>6, <3>1, <3>3, <4>2, <4>3
    <3> QED
      BY <3>2, <3>3
  <2> QED
    BY <1>1, <2>4, <2>5, <2>6, <2>7 DEF TrackInv
<1> QED
  BY <1>4, <1>5

\* After a crash nobody is on the list.
LEMMA CrashTrack ==
    ASSUME TrackInv, Crash
    PROVE  TrackInv'
<1>1. list' = <<>> /\ job' = Idle /\ UNCHANGED <<view, pipe, buf>>
  BY DEF Crash
<1> QED
  BY <1>1, LiveEmpty DEF TrackInv

\* The client that closes its connection is no longer told anything.
LEMMA CbInitTrack ==
    ASSUME RpcInv, TrackInv, NEW c \in Clients, CbInit(c)
    PROVE  TrackInv'
<1> DEFINE q == job.todo
<1>1. /\ store' = store
      /\ pipe' = [pipe EXCEPT ![c] = <<>>]
      /\ buf'  = [buf EXCEPT ![c] = <<>>]
      /\ view' = [view EXCEPT ![c] = {}]
      /\ list' = Closed(list, c)
      /\ job'  = IF job = Idle THEN Idle ELSE [job EXCEPT !.todo = Closed(q, c)]
  BY DEF CbInit
<1>2. list \in Seq(ClientEntries)
  BY DEF RpcInv, TypeInv
<1>3. view' \in [Clients -> SUBSET Names] /\ \A d \in Clients : d # c => view'[d] = view[d]
  BY <1>1 DEF TrackInv
<1>4. pipe' \in [Clients -> Seq(Lines)] /\ \A d \in Clients : d # c => pipe'[d] = pipe[d]
  BY <1>1 DEF TrackInv
<1>5. buf' \in [Clients -> Seq(Lines)] /\ \A d \in Clients : d # c => buf'[d] = buf[d]
  BY <1>1 DEF TrackInv
<1>6. ASSUME job # Idle PROVE job' # Idle /\ job'.line = job.line /\ job'.todo = Closed(q, c)
  <2>1. PICK r, l, a, t : job = [req |-> r, line |-> l, reply |-> a, todo |-> t]
    BY <1>6 DEF RpcInv, JobInv
  <2>2. job' = [req |-> r, line |-> l, reply |-> a, todo |-> Closed(q, c)]
    BY <1>1, <1>6, <2>1
  <2> QED
    BY <2>1, <2>2, BusyLemma
<1>7. ASSUME job # Idle
      PROVE  /\ Closed(q, c) \in Seq(ClientEntries)
             /\ LiveAt(Closed(q, c), c) = {}
             /\ \A d \in Clients : d # c => LiveAt(Closed(q, c), d) = LiveAt(q, d)
  <2>1. q \in Seq(ClientEntries)
    BY <1>7 DEF TrackInv
  <2> QED
    BY <2>1, ClosedLive
<1>8. ASSUME job # Idle, NEW d \in Clients PROVE \A i, j \in LiveAt(Closed(q, c), d) : i = j
  <2>1. CASE d = c
    BY <1>7, <1>8, <2>1
  <2>2. CASE d # c
    BY <1>7, <1>8, <2>2 DEF TrackInv
  <2> QED
    BY <2>1, <2>2
<1>9. /\ LiveAt(list', c) = {}
      /\ \A d \in Clients : d # c => LiveAt(list', d) = LiveAt(list, d)
  BY <1>1, <1>2, ClosedLive
<1>10. ASSUME NEW d \in Clients, d # c PROVE ToWrite(d)' = ToWrite(d)
  <2>1. CASE job = Idle
    BY <1>1, <2>1 DEF ToWrite
  <2>2. CASE job # Idle
    <3>1. LiveAt(job'.todo, d) = LiveAt(q, d)
      BY <1>6, <1>7, <1>10, <2>2
    <3> QED
      BY <1>6, <2>2, <3>1 DEF ToWrite
  <2> QED
    BY <2>1, <2>2
<1>11. ASSUME NEW d \in Clients, LiveAt(list', d) # {} PROVE WillKnow(d)' = Present'
  <2>1. d # c
    BY <1>9, <1>11
  <2>2. LiveAt(list, d) # {}
    BY <1>9, <1>11, <2>1
  <2>3. WillKnow(d) = Present /\ Present' = Present
    BY <1>1, <2>2 DEF TrackInv, Present
  <2>4. WillKnow(d)' = WillKnow(d)
    BY <1>3, <1>4, <1>5, <1>10, <2>1 DEF WillKnow
  <2> QED
    BY <2>3, <2>4
<1>12. job' # Idle => /\ job'.line \in Seq(Lines) /\ job'.todo \in Seq(ClientEntries)
                      /\ \A d \in Clients : \A i, j \in LiveAt(job'.todo, d) : i = j
  <2>1. CASE job = Idle
    BY <1>1, <2>1
  <2>2. CASE job # Idle
    <3>1. job.line \in Seq(Lines)
      BY <2>2 DEF TrackInv
    <3> QED
      BY <1>6, <1>7, <1>8, <2>2, <3>1
  <2> QED
    BY <2>1, <2>2
<1> QED
  BY <1>3, <1>4, <1>5, <1>11, <1>12 DEF TrackInv

\* However the stream is cut: what was read and not processed is still in the buffer.
LEMMA ReadTrack ==
    ASSUME TrackInv, NEW c \in Clients, Read(c)
    PROVE  TrackInv'
<1> DEFINE l == pipe[c]
<1>1. PICK k, s :
         /\ k \in 1..Len(l)
         /\ s = buf[c] \o SubSeq(l, 1, k)
         /\ view' = [view EXCEPT ![c] = Applied(view[c], SubSeq(s, 1, Complete(s)))]
         /\ buf' = [buf EXCEPT ![c] = SubSeq(s, Complete(s) + 1, Len(s))]
         /\ pipe' = [pipe EXCEPT ![c] = SubSeq(l, k + 1, Len(l))]
  BY DEF Read
<1>2. UNCHANGED <<store, list, job>>
  BY DEF Read, daemonVars
<1>3. l \in Seq(Lines) /\ buf[c] \in Seq(Lines)
  BY DEF TrackInv
<1> DEFINE front == SubSeq(l, 1, k)
           back  == SubSeq(l, k + 1, Len(l))
           done  == SubSeq(s, 1, Complete(s))
           left  == SubSeq(s, Complete(s) + 1, Len(s))
<1>4. front \in Seq(Lines) /\ back \in Seq(Lines) /\ front \o back = l
  <2>1. k \in 0..Len(l)
    BY <1>1, <1>3
  <2> QED
    BY <1>3, <2>1, CutLemma
<1>5. s \in Seq(Lines)
  <2> HIDE DEF front
  <2>1. buf[c] \o front \in Seq(Lines)
    BY <1>3, <1>4
  <2> QED
    BY <1>1, <2>1 DEF front
<1>6. done \in Seq(Lines) /\ left \in Seq(Lines) /\ done \o left = s
  <2>1. Complete(s) \in 0..Len(s)
    BY <1>5, CompleteLemma
  <2> QED
    BY <1>5, <2>1, CutLemma
<1>7. s = buf[c] \o front /\ view' = [view EXCEPT ![c] = Applied(view[c], done)]
      /\ buf' = [buf EXCEPT ![c] = left] /\ pipe' = [pipe EXCEPT ![c] = back]
  BY <1>1
<1> HIDE DEF front, back, done, left, l
<1>8. Applied(Applied(Applied(view[c], done), left), back) = Applied(Applied(view[c], buf[c]), l)
  <2>1. Applied(Applied(view[c], done), left) = Applied(view[c], s)
    BY <1>6, AppliedConcat
  <2>2. Applied(view[c], s) = Applied(Applied(view[c], buf[c]), front)
    BY <1>3, <1>4, <1>7, AppliedConcat
  <2>3. Applied(Applied(Applied(view[c], buf[c]), front), back) = Applied(Applied(view[c], buf[c]), l)
    BY <1>4, AppliedConcat
  <2> QED
    BY <2>1, <2>2, <2>3
<1>9. /\ view' \in [Clients -> SUBSET Names] /\ view'[c] = Applied(view[c], done)
      /\ \A d \in Clients : d # c => view'[d] = view[d]
  <2>1. Applied(view[c], done) \in SUBSET Names
    BY DEF Applied
  <2> QED
    BY <1>7, <2>1 DEF TrackInv
<1>10. /\ pipe' \in [Clients -> Seq(Lines)] /\ pipe'[c] = back
       /\ \A d \in Clients : d # c => pipe'[d] = pipe[d]
  BY <1>4, <1>7 DEF TrackInv
<1>11. /\ buf' \in [Clients -> Seq(Lines)] /\ buf'[c] = left
       /\ \A d \in Clients : d # c => buf'[d] = buf[d]
  BY <1>6, <1>7 DEF TrackInv
<1>12. ASSUME NEW d \in Clients, LiveAt(list', d) # {} PROVE WillKnow(d)' = Present'
  <2>1. WillKnow(d) = Present /\ Present' = Present
    BY <1>2, <1>12 DEF TrackInv, Present
  <2>2. ToWrite(d)' = ToWrite(d)
    BY <1>2 DEF ToWrite
  <2>3. CASE d = c
    <3>1. WillKnow(d)' = Applied(Applied(Applied(Applied(view[c], done), left), back), ToWrite(c))
      BY <1>9, <1>10, <1>11, <2>2, <2>3 DEF WillKnow
    <3>2. WillKnow(d) = Applied(Applied(Applied(view[c], buf[c]), l), ToWrite(c))
      BY <2>3 DEF WillKnow, l
    <3> QED
      BY <1>8, <2>1, <3>1, <3>2
  <2>4. CASE d # c
    BY <1>9, <1>10, <1>11, <2>1, <2>2, <2>4 DEF WillKnow
  <2> QED
    BY <2>3, <2>4
<1>13. job' # Idle => /\ job'.line \in Seq(Lines) /\ job'.todo \in Seq(ClientEntries)
                      /\ \A d \in Clients : \A i, j \in LiveAt(job'.todo, d) : i = j
  BY <1>2 DEF TrackInv
<1> QED
  BY <1>9, <1>10, <1>11, <1>12, <1>13 DEF TrackInv

\* A time-out changes a tag only.
LEMMA TimeoutTrack ==
    ASSUME RpcInv, TrackInv, NEW c \in Clients, Timeout(c)
    PROVE  TrackInv'
<1> DEFINE T == CHOOSE t \in 1..(Cardinality(Orphans) + 1) : \A r \in Orphans : r.tag # t
<1>0. PICK tag : tag = T
  OBVIOUS
<1>1. job' = IF job # Idle /\ job.req \in Awaited(c)
             THEN [job EXCEPT !.req.tag = tag] ELSE job
  BY <1>0 DEF Timeout
<1> HIDE DEF T
<1>2. UNCHANGED <<store, list, view, pipe, buf>>
  BY DEF Timeout, eventVars
<1>3. ASSUME job # Idle PROVE job' # Idle /\ job'.line = job.line /\ job'.todo = job.todo
  <2>1. PICK r, l, a, t : job = [req |-> r, line |-> l, reply |-> a, todo |-> t]
    BY <1>3 DEF RpcInv, JobInv
  <2>2. CASE job.req \in Awaited(c)
    <3>1. job' = [req |-> [r EXCEPT !.tag = tag], line |-> l, reply |-> a, todo |-> t]
      BY <1>1, <1>3, <2>1, <2>2
    <3> QED
      BY <2>1, <3>1, BusyLemma
  <2>3. CASE job.req \notin Awaited(c)
    BY <1>1, <1>3, <2>3
  <2> QED
    BY <2>2, <2>3
<1>4. job = Idle => job' = Idle
  BY <1>1
<1> QED
  BY <1>2, <1>3, <1>4, LoopKept

\* Every step keeps what clients will know.
LEMMA NextTrack ==
    ASSUME RpcInv, TrackInv, [Next]_vars
    PROVE  TrackInv'
<1>1. ASSUME UNCHANGED <<store, list, job, view, pipe, buf>> PROVE TrackInv'
  BY <1>1, LoopKept
<1>2. CASE UNCHANGED vars
  BY <1>1, <1>2 DEF vars, daemonVars, eventVars
<1>3. CASE Daemon
  BY <1>3, ServeTrack, WriteLiveTrack, WriteDeadTrack, ReplyTrack, RegisteredTrack DEF Daemon
<1>4. CASE Crash
  BY <1>4, CrashTrack
<1>5. CASE Restart
  BY <1>1, <1>5 DEF Restart, eventVars
<1>6. ASSUME NEW c \in Clients, Client(c) PROVE TrackInv'
  <2>1. CASE Try(c)
    BY <1>1, <2>1 DEF Try, eventVars
  <2>2. CASE Failed(c)
    BY <1>1, <2>2 DEF Failed, daemonVars, eventVars
  <2> QED
    BY <1>6, <2>1, <2>2, CbInitTrack, TimeoutTrack DEF Client
<1>7. ASSUME NEW c \in Clients, Start(c) \/ Lost(c) \/ \E op \in Calls(c) : Begin(c, op)
      PROVE  TrackInv'
  BY <1>1, <1>7 DEF Start, Lost, Begin, daemonVars, eventVars
<1> QED
  BY <1>2, <1>3, <1>4, <1>5, <1>6, <1>7, ReadTrack DEF Next, Events

\* What a registered client has been told, what is in its buffer and its socket, and what
\* the daemon is still writing add up to the registry, for any interleaving of writes and
\* reads, however the stream is cut, and after any crashes, time-outs and late requests.
THEOREM ClientsKnow ==
    Spec => []EventsTrack
<1>1. Init => TrackInv
  BY LiveEmpty DEF Init, TrackInv
<1>2. RpcInv /\ TrackInv /\ [Next]_vars => TrackInv'
  BY NextTrack
<1>3. RpcInv /\ TrackInv => EventsTrack
  <2> SUFFICES ASSUME RpcInv, TrackInv, NEW c \in Clients, Entry(c, TRUE) \in Range(list)
               PROVE  Applied(view[c], Undelivered(c)) = Present
    BY DEF EventsTrack
  <2>1. ASSUME NEW q \in Seq(ClientEntries)
        PROVE  Entry(c, TRUE) \in Range(q) <=> LiveAt(q, c) # {}
    <3>1. DOMAIN q = 1..Len(q)
      OBVIOUS
    <3> QED
      BY <3>1 DEF Range, LiveAt
  <2>2. LiveAt(list, c) # {}
    BY <2>1 DEF RpcInv, TypeInv
  <2>3. WillKnow(c) = Present
    BY <2>2 DEF TrackInv
  <2> DEFINE rest == IF Writing /\ Entry(c, TRUE) \in Range(job.todo) THEN job.line ELSE <<>>
  <2>4. rest = ToWrite(c)
    <3>1. CASE job = Idle
      BY <3>1 DEF Writing, ToWrite
    <3>2. CASE job # Idle
      <4>1. Entry(c, TRUE) \in Range(job.todo) <=> LiveAt(job.todo, c) # {}
        BY <2>1, <3>2 DEF TrackInv
      <4>2. LiveAt(job.todo, c) # {} => job.todo # <<>>
        BY LiveEmpty
      <4> QED
        BY <3>2, <4>1, <4>2 DEF Writing, ToWrite
    <3> QED
      BY <3>1, <3>2
  <2>5. buf[c] \in Seq(Lines) /\ pipe[c] \in Seq(Lines) /\ ToWrite(c) \in Seq(Lines)
    <3>1. CASE job = Idle
      BY <3>1 DEF TrackInv, ToWrite
    <3>2. CASE job # Idle
      BY <3>2 DEF TrackInv, ToWrite
    <3> QED
      BY <3>1, <3>2
  <2>6. Undelivered(c) = (buf[c] \o pipe[c]) \o ToWrite(c)
    BY <2>4 DEF Undelivered
  <2> DEFINE u == buf[c] \o pipe[c]
  <2>7. u \in Seq(Lines)
    BY <2>5
  <2>8. Applied(view[c], u) = Applied(Applied(view[c], buf[c]), pipe[c])
    BY <2>5, AppliedConcat
  <2> HIDE DEF u
  <2>9. Applied(view[c], u \o ToWrite(c)) = Applied(Applied(view[c], u), ToWrite(c))
    BY <2>5, <2>7, AppliedConcat
  <2>10. WillKnow(c) = Applied(Applied(view[c], u), ToWrite(c))
    BY <2>8 DEF WillKnow
  <2> QED
    BY <2>3, <2>6, <2>9, <2>10 DEF u
<1> QED
  BY <1>1, <1>2, <1>3, RpcInvariance, PTL DEF Spec
=============================================================================
