----------------------------- MODULE RegistryRPC -----------------------------
(***************************************************************************)
(* The registry daemon and its clients: registryd.c, regrpc_server.c and    *)
(* the rpcgen code on one side, regrpc_client.c and regrpc_client_cb.c on   *)
(* the other.                                                               *)
(*                                                                          *)
(* A client has two TCP connections: one for its RPCs (__clnt) and one,     *)
(* which the daemon opens, for events (cbfd).  Both end when the daemon     *)
(* does, and the client may notice the two losses in either order.  An RPC  *)
(* without an answer is tried again, at most MAX_TRIES times, over new      *)
(* connections.  The daemon is one thread: while it writes to a client that *)
(* does not read, it serves nobody.                                         *)
(*                                                                          *)
(* The registry itself is modelled in Registry; here it is a table of names *)
(* (all below the root) with typed values.  What a call returns goes to the *)
(* application and is not kept.                                             *)
(***************************************************************************)
EXTENDS Naturals, SequencesExt

CONSTANTS
    Clients,      \* the client processes
    Names,        \* the names they use
    Values,       \* what they write: [type, data]
    Procs,        \* the procedures that each client calls
    NONE,         \* no value, no event, no call
    MAX_TRIES,    \* an RPC is repeated so many times (5 in the code)
    MAXLEN,       \* the daemon's initial buffer for strings and bytes
    MAXCOUNT,     \* and for children
    MaxPipe,      \* lines that fit in the event socket's buffers
    MaxOrphans,   \* bound on the RPCs given up by their client, not yet served
    MaxCrashes    \* bound on the daemon's exits (a SIGHUP is one of them)

ArrayTypes == {"string", "bytes"}
ScalarSize == [char |-> 1, UCHAR |-> 1, INT2 |-> 2, UINT2 |-> 2, INT4 |-> 4, UINT4 |-> 4,
               INT8 |-> 8, UINT8 |-> 8, double |-> 8]
\* The types that a value can have on the wire; `data' is a scalar's number and the
\* length of a string or of bytes.
Types      == (DOMAIN ScalarSize) \cup ArrayTypes \cup {"registry"}

ASSUME ValuesAssumption == Values \subseteq [type : Types, data : Nat]
ASSUME NoneAssumption   == /\ NONE \notin Values /\ NONE \notin {"init", "retry", "lost"}
                           /\ NONE \notin [action : {"add", "change", "delete", "final"}, name : Names]
ASSUME BoundAssumption  == {MAX_TRIES, MAXLEN, MAXCOUNT, MaxPipe, MaxOrphans, MaxCrashes}
                               \subseteq Nat
ASSUME RoomAssumption   == MAXLEN > 0 /\ MAXCOUNT > 0 /\ MaxPipe > 0 /\ MaxOrphans > 0

VARIABLES
    up,        \* registryd runs
    store,     \* its registry
    maxlen,    \* static maxlen of nr_reg_get_string_1_svc and nr_reg_get_bytes_1_svc
    maxcount,  \* static max_count of nr_reg_get_children_1_svc
    list,      \* nr_reg_client_list; an entry is live while the client has its end open
    requests,  \* RPCs that have reached the daemon's sockets; tag 0: still awaited
    job,       \* the RPC being served, or Idle
    crashes,   \* how often the daemon has ended
    clnt,      \* client: __clnt is "none", "ok", or "stale" (its daemon is gone)
    pc,        \* client: where it is
    call,      \* client: the RPC it makes
    tries,     \* client: the local of CLIENT_ENTER
    ctx,       \* client: who called nr_reg_client_cb_init, NONE outside it
    open,      \* client: cbfd is open
    eof,       \* client: the daemon's end of the event connection is closed
    pipe,      \* client: what is under way on the event connection
    buf,       \* client: its line buffer
    view       \* client: the names that exist, by the events since it was registered

daemonVars == <<up, store, maxlen, maxcount, list, requests, job, crashes>>
rpcVars    == <<clnt, pc, call, tries, ctx>>
eventVars  == <<open, eof, pipe, buf, view>>
vars       == <<daemonVars, rpcVars, eventVars>>

Present == {n \in Names : store[n] # NONE}

-----------------------------------------------------------------------------
(***************************************************************************)
(* The procedures.                                                          *)
(***************************************************************************)
\* `want' is the length NR_reg_alloc_string got from its first RPC, NONE in a plain
\* get: a get of that length has room for no more.
GetCall(n, t, want) == [proc |-> "get", name |-> n, type |-> t, want |-> want]
SetCall(n, v)       == [proc |-> "set", name |-> n, val |-> v]
AllocCall(n, t)     == [proc |-> "alloc", name |-> n, type |-> t]
NodeCall(p, n)      == [proc |-> p, name |-> n]
TreeCall(p)         == [proc |-> p]

Calls(c) == {op \in
    {GetCall(n, v.type, NONE) : n \in Names, v \in Values}
        \cup {SetCall(n, v) : n \in Names, v \in Values}
        \cup {AllocCall(n, t) : n \in Names, t \in ArrayTypes \cap {v.type : v \in Values}}
        \cup {NodeCall(p, n) : p \in {"length", "type", "del", "fin"}, n \in Names}
        \cup {TreeCall(p) : p \in {"children", "count"}}
  : op.proc \in Procs[c]}

REGISTER == TreeCall("register")

Request(c, op, tag) == [client |-> c, op |-> op, tag |-> tag]

\* The text of a line and its end; nr_reg_cleanup_dead_clients sends only an end.
Text(a, n) == [action |-> a, name |-> n]
EOL        == [action |-> "eol", name |-> NONE]

\* What lines, processed one after the other, make of what is known of the names: a
\* name exists that was added and not deleted after that, or existed and was not deleted.
Applied(names, lines) ==
    {n \in Names :
        \/ \E i \in 1..Len(lines) :
              /\ lines[i] = Text("add", n)
              /\ \A j \in i..Len(lines) : lines[j] # Text("delete", n)
        \/ n \in names /\ \A i \in 1..Len(lines) : lines[i] # Text("delete", n)}

\* The daemon serves nobody.
Idle == [req |-> NONE]

-----------------------------------------------------------------------------
(***************************************************************************)
(* The daemon.  A procedure gives the new table, the text of the event it   *)
(* raises (NONE if there is none) and the result.                           *)
(***************************************************************************)
Outcome(table, event, ret, val) ==
    [store |-> table, event |-> event, reply |-> [ret |-> ret, val |-> val]]
Answer(ret, val) == Outcome(store, NONE, ret, val)

\* nr_reg_fetch_node on a node that must have type t.
Fetched(n, t) ==
    IF store[n] = NONE THEN "R_NOT_FOUND" ELSE IF store[n].type # t THEN "R_FAILED" ELSE "0"

\* nr_reg_set and nr_reg_set_array, for the type of the value.
LocalSet(n, v) ==
    LET r == Fetched(n, v.type)
        t == [store EXCEPT ![n] = v]
    IN  CASE r = "R_NOT_FOUND" -> Outcome(t, Text("add", n), "0", NONE)
          [] r = "R_FAILED"    -> Answer(r, NONE)
          [] r = "0" -> Outcome(t, IF store[n] = v THEN NONE ELSE Text("change", n), "0", NONE)
DoSet(op) == LocalSet(op.name, op.val)

\* nr_reg_local_del and nr_reg_local_fin raise their event in any case.
DoDel(op) == Outcome([store EXCEPT ![op.name] = NONE], Text("delete", op.name), "0", NONE)
DoFin(op) == Outcome(store, Text("final", op.name), "0", NONE)

\* The length that nr_reg_compute_length gives, and the bytes that the node holds
\* (a string's terminator is one of them).
ReportedLength(n, v) ==
    CASE v.type \in ArrayTypes -> v.data
      [] v.type \in DOMAIN ScalarSize -> ScalarSize[v.type]
      [] v.type = "registry" -> 1
StoredLength(v) == IF v.type = "string" THEN v.data + 1 ELSE v.data

\* A procedure that looks at the node whatever its type is.
OfNode(n, val) == IF store[n] = NONE THEN Answer("R_NOT_FOUND", NONE) ELSE Answer("0", val)
DoLength(op) == OfNode(op.name, ReportedLength(op.name, store[op.name]))
DoType(op)   == OfNode(op.name, store[op.name].type)

\* nr_reg_get_array with room for `room' bytes.
GetArray(v, room) == IF room < StoredLength(v) THEN "R_BAD_ARGS" ELSE "0"

\* Mutant: the buffer grows only if the value is longer than it.
Adjusted_Late(n, v) ==
    IF ReportedLength(n, v) > maxlen THEN ReportedLength(n, v) + 2 ELSE maxlen

\* maybe_adjust_ptr: the size of the buffer for the second attempt.
Adjusted(n, v) ==
    IF ReportedLength(n, v) >= maxlen THEN ReportedLength(n, v) + 2 ELSE maxlen

\* The buffer of nr_reg_get_string_1_svc and nr_reg_get_bytes_1_svc when they are
\* done: they try a second time when it was too small.
Grown(op) ==
    IF /\ op.proc = "get" /\ op.type \in ArrayTypes
       /\ Fetched(op.name, op.type) = "0"
       /\ GetArray(store[op.name], maxlen) = "R_BAD_ARGS"
    THEN Adjusted(op.name, store[op.name]) ELSE maxlen

\* nr_reg_get, for the type that the caller expects.
LocalGet(n, t) ==
    LET r == Fetched(n, t) IN Answer(r, IF r = "0" THEN store[n] ELSE NONE)
DoGetScalar(op) == LocalGet(op.name, op.type)

DoGetArray(op) ==
    IF /\ Fetched(op.name, op.type) = "0"
       /\ GetArray(store[op.name], Grown(op)) # "0"
    THEN Answer("R_BAD_ARGS", NONE) ELSE LocalGet(op.name, op.type)

\* nr_reg_get_children_1_svc doubles its array until a place is left over.
Doubled(op) ==
    IF op.proc # "children" THEN maxcount
    ELSE LET fits == {k \in 0..Cardinality(Names) :
                          maxcount * 2^k > Cardinality(Present)}
         IN  maxcount * 2^(CHOOSE k \in fits : \A j \in fits : k <= j)

DoChildren(op) == Answer("0", Present)
DoCount(op)    == Answer("0", Cardinality(Present))

\* The procedures by number, as registrydprog_1 has them.
GetProc(op) ==
    CASE op.proc = "get" /\ op.type \in ArrayTypes -> DoGetArray(op)
      [] op.proc = "get" /\ op.type \notin ArrayTypes -> DoGetScalar(op)
      [] op.proc \in {"length", "alloc"} -> DoLength(op)
      [] op.proc = "type"     -> DoType(op)
SetProc(op) == DoSet(op)
TreeProc(op) ==
    CASE op.proc = "del"      -> DoDel(op)
      [] op.proc = "fin"      -> DoFin(op)
      [] op.proc = "children" -> DoChildren(op)
      [] op.proc = "count"    -> DoCount(op)
      [] op.proc = "register" -> Answer("0", NONE)
Dispatch(op) ==
    CASE op.proc \in {"get", "length", "alloc", "type"} -> GetProc(op)
      [] op.proc = "set" -> SetProc(op)
      [] OTHER -> TreeProc(op)

\* registrydprog_1 takes a request from some connection.  What it has to write to
\* the clients is `line'; `todo' is what is left of the list.
Serve(r) ==
    LET o == Dispatch(r.op)
        line == IF r.op = REGISTER THEN <<EOL>>
                ELSE IF o.event = NONE THEN <<>> ELSE <<o.event, EOL>>
    IN  /\ up /\ job = Idle
        /\ r \in requests
        /\ requests' = requests \ {r}
        /\ store' = o.store
        /\ maxlen' = Grown(r.op)
        /\ maxcount' = Doubled(r.op)
        /\ job' = [req |-> r, line |-> line, reply |-> o.reply,
                   todo |-> IF line = <<>> THEN <<>> ELSE list]
        /\ UNCHANGED <<up, list, crashes, rpcVars, eventVars>>

Entry(c, live) == [client |-> c, live |-> live]
Writing == job # Idle /\ job.todo # <<>>
Full(c) == Len(pipe[c]) + Len(job.line) > 2 * MaxPipe

\* nr_reg_send_to_clients, one client.  write() blocks while there is no room.
WriteLive ==
    /\ Writing /\ Head(job.todo).live
    /\ LET c == Head(job.todo).client
       IN  ~Full(c) /\ pipe' = [pipe EXCEPT ![c] = @ \o job.line]
    /\ job' = [job EXCEPT !.todo = Tail(@)]
    /\ UNCHANGED <<up, store, maxlen, maxcount, list, requests, crashes, rpcVars,
                   open, eof, buf, view>>

\* The peer is gone: TAILQ_REMOVE takes the entry out.  (A write that still succeeds
\* would only put this off to the next one.)
WriteDead ==
    /\ Writing /\ ~Head(job.todo).live
    /\ list' = RemoveFirst(list, Head(job.todo))
    /\ job' = [job EXCEPT !.todo = Tail(@)]
    /\ UNCHANGED <<up, store, maxlen, maxcount, requests, crashes, rpcVars, eventVars>>

-----------------------------------------------------------------------------
(***************************************************************************)
(* How a client goes on after nr_reg_client_cb_init, which is called at the *)
(* program's start ("init"), for the retry of an RPC ("retry", where a      *)
(* failure is ignored) or because the connection was lost ("lost", where a  *)
(* failure ends the program).                                               *)
(***************************************************************************)
AfterCb(c)      == IF ctx[c] = "retry" THEN "try" ELSE "idle"
AfterCbFails(c) == IF ctx[c] = "lost" THEN "exited" ELSE AfterCb(c)

\* The return code of a get: the answer may be too long for the caller's room.
Received(op, reply) ==
    IF op.want # NONE /\ reply.ret = "0" /\ reply.val.data > op.want THEN "R_BAD_ARGS"
    ELSE reply.ret

\* svc_sendreply.  An answer to an RPC that was given up goes nowhere.
\* NR_reg_alloc_string goes on with a get of the length it was told.
Reply ==
    LET c == job.req.client
        op == job.req.op
        again == op.proc = "alloc" /\ job.reply.ret = "0"
    IN  /\ job # Idle /\ job.todo = <<>> /\ op # REGISTER
        /\ job' = Idle
        /\ IF job.req.tag # 0 THEN UNCHANGED <<pc, call>>
           ELSE /\ pc' = [pc EXCEPT ![c] = IF again THEN "try" ELSE "idle"]
                /\ call' = [call EXCEPT ![c] =
                               IF again THEN GetCall(op.name, op.type, job.reply.val)
                               ELSE NONE]
        /\ tries' = IF job.req.tag = 0 THEN [tries EXCEPT ![c] = 0] ELSE tries
        /\ UNCHANGED <<up, store, maxlen, maxcount, list, requests, crashes, clnt,
                       ctx, eventVars>>

\* The new event connection: a new descriptor with a new buffer.
Connected(c) ==
    /\ pc' = [pc EXCEPT ![c] = AfterCb(c)]
    /\ ctx' = [ctx EXCEPT ![c] = NONE]
    /\ open' = [open EXCEPT ![c] = TRUE]
    /\ eof' = [eof EXCEPT ![c] = FALSE]
    /\ pipe' = [pipe EXCEPT ![c] = <<>>]
    /\ buf' = [buf EXCEPT ![c] = <<>>]
    /\ view' = [view EXCEPT ![c] = Present]

\* Mutant: the daemon enters a client that has given up as one that reads.
Registered_Late ==
    LET c == job.req.client
    IN  /\ job # Idle /\ job.todo = <<>> /\ job.req.op = REGISTER
        /\ job' = Idle
        /\ list' = Append(list, Entry(c, TRUE))
        /\ IF job.req.tag = 0 THEN Connected(c) ELSE UNCHANGED <<pc, ctx, eventVars>>
        /\ UNCHANGED <<up, store, maxlen, maxcount, requests, crashes, clnt, call, tries>>

\* nr_reg_register_for_callbacks connects to the client, which waits in
\* nr_reg_client_cb_init with a listening socket.  A client that has given up does
\* not listen any more, or has closed the connection after it was made.
Registered ==
    LET c == job.req.client
    IN  /\ job # Idle /\ job.todo = <<>> /\ job.req.op = REGISTER
        /\ job' = Idle
        /\ IF job.req.tag = 0
           THEN list' = Append(list, Entry(c, TRUE)) /\ Connected(c)
           ELSE /\ list' \in {list, Append(list, Entry(c, FALSE))}
                /\ UNCHANGED <<pc, ctx, eventVars>>
        /\ UNCHANGED <<up, store, maxlen, maxcount, requests, crashes, clnt, call, tries>>

\* The daemon ends: exit in a signal handler, or a crash.  Its sockets are closed,
\* which the clients that wait for an answer see at once.
Crash ==
    /\ up /\ crashes < MaxCrashes
    /\ up' = FALSE
    /\ crashes' = crashes + 1
    /\ store' = [n \in Names |-> NONE]
    /\ maxlen' = MAXLEN /\ maxcount' = MAXCOUNT
    /\ list' = <<>> /\ requests' = {} /\ job' = Idle
    /\ eof' = [c \in Clients |-> open[c]]
    /\ clnt' = [c \in Clients |-> IF clnt[c] = "ok" THEN "stale" ELSE clnt[c]]
    /\ ctx' = [c \in Clients |-> IF pc[c] = "regwait" THEN NONE ELSE ctx[c]]
    /\ pc' = [c \in Clients |-> CASE pc[c] = "wait"    -> "failed"
                                  [] pc[c] = "regwait" -> AfterCbFails(c)
                                  [] OTHER             -> pc[c]]
    /\ UNCHANGED <<call, tries, open, pipe, buf, view>>

\* nr_registry_server: it starts with an empty registry and no clients.
Restart ==
    /\ ~up /\ up' = TRUE
    /\ UNCHANGED <<store, maxlen, maxcount, list, requests, job, crashes, rpcVars, eventVars>>

-----------------------------------------------------------------------------
(***************************************************************************)
(* A client.                                                                *)
(***************************************************************************)
\* nr_reg_get_client: the handle there is, or a new one.
CanConnect(c) == clnt[c] # "none" \/ up
Handle(c)     == IF clnt[c] = "none" THEN "ok" ELSE clnt[c]

\* clnt_call: on a connection whose other end is gone there is no answer.
Send(c, op, waiting, failing) ==
    IF Handle(c) = "ok"
    THEN /\ requests' = requests \cup {Request(c, op, 0)}
         /\ pc' = [pc EXCEPT ![c] = waiting]
    ELSE /\ pc' = [pc EXCEPT ![c] = failing]
         /\ UNCHANGED requests

\* NR_reg_init(NR_REG_MODE_REMOTE).
Start(c) ==
    /\ pc[c] = "new"
    /\ pc' = [pc EXCEPT ![c] = IF up THEN "cbinit" ELSE "idle"]
    /\ clnt' = [clnt EXCEPT ![c] = IF up THEN "ok" ELSE "none"]
    /\ ctx' = [ctx EXCEPT ![c] = IF up THEN "init" ELSE NONE]
    /\ UNCHANGED <<daemonVars, call, tries, eventVars>>

\* The application calls a function of the registry.
Begin(c, op) ==
    /\ pc[c] = "idle"
    /\ pc' = [pc EXCEPT ![c] = "try"]
    /\ call' = [call EXCEPT ![c] = op]
    /\ UNCHANGED <<daemonVars, clnt, tries, ctx, eventVars>>

\* CLIENT_ENTER and the RPC.
Try(c) ==
    /\ pc[c] = "try"
    /\ IF CanConnect(c)
       THEN /\ clnt' = [clnt EXCEPT ![c] = Handle(c)]
            /\ Send(c, call[c], "wait", "failed")
            /\ UNCHANGED <<call, tries>>
       ELSE /\ pc' = [pc EXCEPT ![c] = "idle"]
            /\ call' = [call EXCEPT ![c] = NONE]
            /\ tries' = [tries EXCEPT ![c] = 0]
            /\ UNCHANGED <<clnt, requests>>
    /\ UNCHANGED <<up, store, maxlen, maxcount, list, job, crashes, ctx, eventVars>>

\* Mutant: the tries are not counted.
Failed_Endless(c) ==
    /\ pc[c] = "failed"
    /\ pc' = [pc EXCEPT ![c] = IF up THEN "cbinit" ELSE "try"]
    /\ clnt' = [clnt EXCEPT ![c] = IF up THEN "ok" ELSE "none"]
    /\ ctx' = [ctx EXCEPT ![c] = IF up THEN "retry" ELSE NONE]
    /\ UNCHANGED <<daemonVars, call, tries, eventVars>>

\* __ABORT_IF_RPC_FAILED without a result.
Failed(c) ==
    /\ pc[c] = "failed"
    /\ IF tries[c] + 1 > MAX_TRIES
       THEN /\ pc' = [pc EXCEPT ![c] = "idle"]
            /\ call' = [call EXCEPT ![c] = NONE]
            /\ tries' = [tries EXCEPT ![c] = 0]
            /\ UNCHANGED <<clnt, ctx>>
       ELSE /\ pc' = [pc EXCEPT ![c] = IF up THEN "cbinit" ELSE "try"]
            /\ tries' = [tries EXCEPT ![c] = @ + 1]
            /\ clnt' = [clnt EXCEPT ![c] = IF up THEN "ok" ELSE "none"]
            /\ ctx' = [ctx EXCEPT ![c] = IF up THEN "retry" ELSE NONE]
            /\ UNCHANGED call
    /\ UNCHANGED <<daemonVars, eventVars>>

\* What is known of c by the daemon's list, and by the loop that goes through it,
\* when c has closed its end.
Closed(l, c) == [i \in DOMAIN l |-> IF l[i].client = c THEN Entry(c, FALSE) ELSE l[i]]

\* The first half of nr_reg_client_cb_init: it closes the connection there is, takes
\* the RPC handle and asks the daemon to connect.
CbInit(c) ==
    /\ pc[c] = "cbinit"
    /\ open' = [open EXCEPT ![c] = FALSE]
    /\ eof'  = [eof EXCEPT ![c] = FALSE]
    /\ pipe' = [pipe EXCEPT ![c] = <<>>]
    /\ buf'  = [buf EXCEPT ![c] = <<>>]
    /\ list' = Closed(list, c)
    /\ job'  = IF job = Idle THEN Idle ELSE [job EXCEPT !.todo = Closed(@, c)]
    /\ IF CanConnect(c)
       THEN /\ clnt' = [clnt EXCEPT ![c] = Handle(c)]
            /\ Send(c, REGISTER, "regwait", AfterCbFails(c))
       ELSE /\ pc' = [pc EXCEPT ![c] = AfterCbFails(c)]
            /\ UNCHANGED <<clnt, requests>>
    /\ ctx' = [ctx EXCEPT ![c] = IF pc'[c] = "regwait" THEN @ ELSE NONE]
    /\ view' = [view EXCEPT ![c] = {}]
    /\ UNCHANGED <<up, store, maxlen, maxcount, crashes, call, tries>>

\* What is left of a sequence of texts and ends after the last end.
Complete(s) == LET ends == {0} \cup {i \in DOMAIN s : s[i] = EOL}
               IN  CHOOSE i \in ends : \A j \in ends : j <= i

\* Mutant: what is left in the buffer is thrown away after every read.
Read_Zero(c) ==
    /\ pc[c] = "idle" /\ open[c]
    /\ \E k \in 1..Len(pipe[c]) :
          LET s == buf[c] \o SubSeq(pipe[c], 1, k)
          IN  /\ view' = [view EXCEPT ![c] = Applied(@, SubSeq(s, 1, Complete(s)))]
              /\ pipe' = [pipe EXCEPT ![c] = SubSeq(@, k + 1, Len(@))]
    /\ UNCHANGED <<daemonVars, rpcVars, open, eof, buf>>

\* nr_reg_cb_async_wait_cb: whatever has arrived is read, the complete lines are
\* processed and the rest stays in the buffer.
Read(c) ==
    /\ pc[c] = "idle" /\ open[c]
    /\ \E k \in 1..Len(pipe[c]) :
          LET s == buf[c] \o SubSeq(pipe[c], 1, k)
          IN  /\ view' = [view EXCEPT ![c] = Applied(@, SubSeq(s, 1, Complete(s)))]
              /\ buf' = [buf EXCEPT ![c] = SubSeq(s, Complete(s) + 1, Len(s))]
              /\ pipe' = [pipe EXCEPT ![c] = SubSeq(@, k + 1, Len(@))]
    /\ UNCHANGED <<daemonVars, rpcVars, open, eof>>

\* Mutant: the end of the stream counts as a read without data.
Lost_Quiet(c) ==
    /\ pc[c] = "idle" /\ open[c] /\ eof[c] /\ pipe[c] = <<>>
    /\ UNCHANGED vars

\* nr_reg_cb_async_wait_cb at the end of the stream.
Lost(c) ==
    /\ pc[c] = "idle" /\ open[c] /\ eof[c] /\ pipe[c] = <<>>
    /\ pc' = [pc EXCEPT ![c] = "cbinit"]
    /\ ctx' = [ctx EXCEPT ![c] = "lost"]
    /\ UNCHANGED <<daemonVars, clnt, call, tries, eventVars>>

Awaited(c) ==
    {r \in requests \cup (IF job = Idle THEN {} ELSE {job.req}) : r.client = c /\ r.tag = 0}
Orphans ==
    {r \in requests \cup (IF job = Idle THEN {} ELSE {job.req}) : r.tag # 0}
\* The daemon waits for c to read.
BlockedBy(c) ==
    Writing /\ Head(job.todo) = Entry(c, TRUE) /\ Full(c)

\* No answer in TIMEOUT seconds: the request is still executed, some time.
Timeout(c) ==
    /\ pc[c] \in {"wait", "regwait"}
    /\ Cardinality(Orphans) < MaxOrphans \/ BlockedBy(c)
    /\ LET tag == CHOOSE t \in 1..(Cardinality(Orphans) + 1) : \A r \in Orphans : r.tag # t
       IN  /\ requests' = (requests \ Awaited(c))
                 \cup {[r EXCEPT !.tag = tag] : r \in requests \cap Awaited(c)}
           /\ job' = IF job # Idle /\ job.req \in Awaited(c)
                     THEN [job EXCEPT !.req.tag = tag] ELSE job
    /\ pc' = [pc EXCEPT ![c] = IF pc[c] = "wait" THEN "failed" ELSE AfterCbFails(c)]
    /\ ctx' = [ctx EXCEPT ![c] = NONE]
    /\ UNCHANGED <<up, store, maxlen, maxcount, list, crashes, clnt, call, tries, eventVars>>

-----------------------------------------------------------------------------
Init ==
    /\ up = TRUE
    /\ store = [n \in Names |-> NONE]
    /\ maxlen = MAXLEN /\ maxcount = MAXCOUNT
    /\ list = <<>> /\ requests = {} /\ job = Idle /\ crashes = 0
    /\ clnt = [c \in Clients |-> "none"]
    /\ pc = [c \in Clients |-> "new"]
    /\ call = [c \in Clients |-> NONE]
    /\ tries = [c \in Clients |-> 0]
    /\ ctx = [c \in Clients |-> NONE]
    /\ open = [c \in Clients |-> FALSE]
    /\ eof = [c \in Clients |-> FALSE]
    /\ pipe = [c \in Clients |-> <<>>]
    /\ buf = [c \in Clients |-> <<>>]
    /\ view = [c \in Clients |-> {}]

Daemon == (\E r \in requests : Serve(r)) \/ WriteLive \/ WriteDead \/ Reply \/ Registered

Client(c) == Try(c) \/ Failed(c) \/ CbInit(c) \/ Timeout(c)
Events(c) == Read(c) \/ Lost(c)

Next ==
    \/ Daemon \/ Crash \/ Restart
    \/ \E c \in Clients :
          Start(c) \/ Client(c) \/ Events(c) \/ \E op \in Calls(c) : Begin(c, op)

\* Processes run, TCP delivers, and an application that makes calls goes back to its
\* event loop again and again.  Nobody has to start the daemon.
Spec == /\ Init /\ [][Next]_vars
        /\ WF_vars(Daemon)
        /\ \A c \in Clients : WF_vars(Client(c)) /\ SF_vars(Events(c))

-----------------------------------------------------------------------------
(***************************************************************************)
(* Properties.                                                              *)
(***************************************************************************)
\* What is on its way to c: in its buffer, in the socket, in the daemon's loop.
Undelivered(c) ==
    buf[c] \o pipe[c] \o
        (IF Writing /\ Entry(c, TRUE) \in Range(job.todo) THEN job.line ELSE <<>>)

\* A client that the daemon knows has heard, or will hear, of every name that was
\* added or deleted since it was registered: nothing is lost between nr_reg_send_event
\* and nr_reg_cb_process_line, however the stream is cut into reads.
EventsTrack ==
    \A c \in Clients : Entry(c, TRUE) \in Range(list) =>
        Applied(view[c], Undelivered(c)) = Present

\* A client whose event connection is up is in the daemon's list exactly once, and
\* the list has no other live entry: timeouts, retries and restarts leave no second
\* registration and no client that waits for events nobody sends.
Relayed ==
    \A c \in Clients :
        Cardinality({i \in 1..Len(list) : list[i] = Entry(c, TRUE)})
            = IF open[c] /\ ~eof[c] THEN 1 ELSE 0

\* The second attempt of nr_reg_get_string_1_svc and nr_reg_get_bytes_1_svc has room
\* for the value: the daemon never answers that its own buffer is too small.
GetFits == job # Idle => job.reply.ret # "R_BAD_ARGS"

\* A call of the registry returns, whatever the daemon does: the daemon that waits for
\* its client to read events while the client waits for its answer is freed by the
\* client's timeout, and the number of tries is bounded.
CallReturns == \A c \in Clients : call[c] # NONE ~> call[c] = NONE \/ pc[c] = "exited"

\* A client does not go on for ever with an event connection that has ended: it gets
\* a new one, gives up the events, or exits.
LossNoticed == \A c \in Clients : open[c] /\ eof[c] ~> ~(open[c] /\ eof[c])

\* assert(length == strlen(tmp)) of NR_reg_alloc_string and
\* assert(length == sanity_check) of NR_reg_alloc_data.
AllocAssertion ==
    job # Idle /\ job.req.tag = 0 /\ job.req.op.proc = "get" =>
        \/ job.req.op.want = NONE
        \/ Received(job.req.op, job.reply) # "0"
        \/ job.reply.val.data = job.req.op.want

=============================================================================
