--------------------------- MODULE RegistryTools ----------------------------
(***************************************************************************)
(* The programs around the registry: the command nrregctl                   *)
(* (registry/nrregctl.c), the Apache module (mod_registry.c) and the        *)
(* configuration helpers (c2ru.c).  Each of them reads or writes a registry *)
(* in several calls of the daemon, between which the others go on.          *)
(*                                                                          *)
(* The state is one registry with its children, which are numbered the way  *)
(* get_children sorts them, and one command that takes several calls.  The  *)
(* commands of one call change the registry under it.  What is in a value   *)
(* or a text matters only as far as the conversions treat it differently.   *)
(***************************************************************************)
EXTENDS Integers, Sequences, FiniteSets

CONSTANTS
    ChildCt,    \* the children have the numbers 1..ChildCt
    ToolValues, \* what programs store: [type, kind]
    Texts       \* what users type

Gone == [type |-> "gone", kind |-> "gone"]
V(t, k) == [type |-> t, kind |-> k]
Types == {v.type : v \in ToolValues}

\* The values, as far as the conversions tell them apart: a character that prints or does
\* not, a double that six digits hold or do not, a string that is empty, that begins with
\* "@", that has a character which the shell knows, or that has none of these.
Kinds(t) ==
    CASE t = "char" -> {"plain", "special"} [] t = "double" -> {"short", "long"}
      [] t = "string" -> {"plain", "special", "at", "empty"} [] t \in {"uchar", "int", "bytes"} -> {"n"}

ASSUME ToolAssumption ==
    /\ ChildCt \in Nat
    /\ \A v \in ToolValues : \E t \in {"char", "uchar", "int", "double", "bytes", "string"} :
          \E k \in Kinds(t) : v = V(t, k)

VARIABLES
    there,    \* the registry itself exists
    child,    \* number -> value
    tool,     \* the command: [cmd, at, size, list, i, last, out]
    quiet,    \* nobody else has changed the registry since it began
    seen,     \* the children that were there at some time since
    webLoops  \* the Apache process is in an endless loop

toolVars == <<there, child, tool, quiet, seen, webLoops>>

NoTool == [cmd |-> "none", at |-> "start", size |-> 0, list |-> <<>>, i |-> 0, last |-> 0,
           out |-> <<>>]
Present(c) == {n \in 1..ChildCt : c[n] # Gone}
Kids == [j \in 1..Cardinality(Present(child)) |->
            CHOOSE n \in Present(child) : Cardinality({m \in Present(child) : m <= n}) = j]

-----------------------------------------------------------------------------
\* nr_shell_quote_string, then the shell: only the empty string is not quoted and lost.
Quoted(kind) == IF kind = "empty" THEN "blank" ELSE kind

\* nrregctl_read with shell_mode, then the shell: the argument that a value becomes.
Shown(v) ==
    CASE v.type = "char"   -> IF v.kind = "special" THEN "octal" ELSE "plain"
      [] v.type = "uchar"  -> "hex"
      [] v.type = "int"    -> "number"
      [] v.type = "double" -> "number"
      [] v.type = "bytes"  -> "hex"
      [] OTHER             -> Quoted(v.kind)

\* process_get_request: the body of the answer, "none" for an error.
WebShown(v) ==
    CASE v.type = "string" -> IF v.kind = "empty" THEN "blank" ELSE v.kind
      [] v.type = "bytes"  -> "none"
      [] OTHER             -> "number"

\* Mutant: a character that is written in octal is taken for its backslash.
CtlParse_Plain(t, text) ==
    CASE t = "char" -> IF text = "blank" THEN {} ELSE {V(t, "plain")}
      [] t = "uchar" -> IF text \in {"octal", "hex", "at"} THEN {V(t, "n")} ELSE {}
      [] OTHER -> {V(t, "n")}

\* nrregctl_write: the values that a text may stand for, {} for the usage message.  "at"
\* is the contents of a file; sscanf leaves a number that it cannot read as it was; bytes
\* are converted and not written.
CtlParse(t, text) ==
    IF text = "blank" /\ t # "string" THEN {} ELSE
    CASE t = "char"   -> IF text = "octal" THEN {V(t, "special")}
                         ELSE IF text \in {"hex", "at"} THEN {V(t, "plain"), V(t, "special")}
                         ELSE {V(t, "plain")}
      [] t = "uchar"  -> IF text \in {"octal", "hex", "at"} THEN {V(t, "n")} ELSE {}
      [] t = "int"    -> {V(t, "n")}
      [] t = "double" -> IF text = "number" THEN {V(t, "short")}
                         ELSE IF text = "fraction" THEN {V(t, "long")}
                         ELSE {V(t, "short"), V(t, "long")}
      [] t = "bytes"  -> {}
      [] OTHER        -> IF text = "blank" THEN {V(t, "empty")}
                         ELSE IF text = "at" THEN {V(t, "plain"), V(t, "special")}
                         ELSE IF text \in {"plain", "number", "hex"} THEN {V(t, "plain")}
                         ELSE {V(t, "special")}

\* process_put_request: what the body of a PUT stands for, {} when it is not of the type.
WebParse(t, text) ==
    CASE t = "string" -> IF text = "at" THEN {V(t, "at")}
                         ELSE IF text \in {"plain", "number", "hex"} THEN {V(t, "plain")}
                         ELSE {V(t, "special")}
      [] t = "bytes"  -> {}
      [] t = "double" -> IF text = "number" THEN {V(t, "short")}
                         ELSE IF text = "fraction" THEN {V(t, "long")} ELSE {}
      [] t = "char"   -> IF text = "number" THEN {V(t, "plain"), V(t, "special")} ELSE {}
      [] OTHER        -> IF text = "number" THEN {V(t, "n")} ELSE {}

\* A line of the export is a command: without a third argument it is another one.
Replayed(line) == IF line.text = "blank" THEN {} ELSE CtlParse(line.type, line.text)

-----------------------------------------------------------------------------
ToolsInit ==
    /\ there = FALSE
    /\ child = [n \in 1..ChildCt |-> Gone]
    /\ tool = NoTool /\ quiet = TRUE /\ seen = {}
    /\ webLoops = FALSE

\* A call that stores v at n: a node keeps its type.
Store(n, v) ==
    /\ child[n].type \in {"gone", v.type}
    /\ child' = [child EXCEPT ![n] = v]
    /\ there' = TRUE
    /\ seen' = seen \cup {n}

\* Any other program.
OtherSets(n, v) ==
    Store(n, v) /\ quiet' = FALSE /\ UNCHANGED <<tool, webLoops>>

\* nrregctl write, with a type or with the one that the name has.
CtlWrite(n, t, text) ==
    /\ \E v \in ToolValues \cap CtlParse(t, text) : Store(n, v)
    /\ quiet' = FALSE
    /\ UNCHANGED <<tool, webLoops>>

\* nrregctl delete, or a DELETE request without a query.
Remove(n) ==
    /\ child[n] # Gone
    /\ child' = [child EXCEPT ![n] = Gone]
    /\ quiet' = FALSE
    /\ UNCHANGED <<there, tool, seen, webLoops>>

\* A PUT request; with another query than type= the type is whatever is on the stack.  An
\* error behind req_ok jumps to the label abort that it stands below.
WebPut(n, t, text) ==
    /\ ~webLoops /\ text # "blank"
    /\ \/ /\ \E v \in ToolValues \cap WebParse(t, text) : Store(n, v)
          /\ quiet' = FALSE
          /\ UNCHANGED webLoops
       \/ /\ WebParse(t, text) = {} \/ child[n].type \notin {"gone", t}
          /\ webLoops' = TRUE
          /\ UNCHANGED <<there, child, quiet, seen>>
    /\ UNCHANGED tool

\* A GET request for one value; it asks for the type that the value has.
WebGet(n) ==
    /\ ~webLoops /\ tool.at \in {"start", "done", "failed"}
    /\ child[n] # Gone /\ WebShown(child[n]) # "none"
    /\ tool' = [NoTool EXCEPT !.cmd = "webget", !.at = "done",
                   !.out = <<[name |-> n, type |-> child[n].type, text |-> WebShown(child[n])]>>]
    /\ quiet' = TRUE /\ seen' = Present(child)
    /\ UNCHANGED <<there, child, webLoops>>

-----------------------------------------------------------------------------
\* The commands of several calls: "list" and "export" of nrregctl, the request getkeys,
\* nr_c2ru_get_children, and nr_c2ru_set_children with so many entries.
Begin(cmd, entries) ==
    /\ tool.at \in {"start", "done", "failed"}
    /\ cmd = "keys" => ~webLoops
    /\ tool' = [NoTool EXCEPT !.cmd = cmd, !.at = IF cmd = "set" THEN "clear" ELSE "count",
                              !.size = entries]
    /\ quiet' = TRUE
    /\ seen' = Present(child)
    /\ UNCHANGED <<there, child, webLoops>>

Goes(to) == tool' = to /\ UNCHANGED <<there, child, quiet, seen, webLoops>>
Fails == Goes([NoTool EXCEPT !.cmd = tool.cmd, !.at = "failed"])
At_(at, i) == [tool EXCEPT !.at = at, !.i = i]
\* Mutant: the last number is left out.
Onward_Short(t, at) == [t EXCEPT !.at = IF t.i + 2 < t.size THEN at ELSE "done",
                                 !.i = t.i + 1, !.last = IF t.i + 2 < t.size THEN @ ELSE 0]
\* The loop over size goes on at the step at, or ends.
Onward(t, at) == [t EXCEPT !.at = IF t.i + 1 < t.size THEN at ELSE "done",
                           !.i = t.i + 1, !.last = IF t.i + 1 < t.size THEN @ ELSE 0]
Line(n, t, text) == [name |-> n, type |-> t, text |-> text]
Prints(n) == [tool EXCEPT !.out = Append(@, Line(n, "", ""))]

\* NR_reg_get_child_count: nothing there is no children, but 404 for getkeys.
Count ==
    /\ tool.at = "count"
    /\ IF tool.cmd = "keys" /\ ~there THEN Fails
       ELSE Goes([tool EXCEPT !.size = Len(Kids),
                              !.at = IF Kids = <<>> THEN "done"
                                     ELSE CASE tool.cmd = "keys" -> "check"
                                            [] tool.cmd = "get" -> "child"
                                            [] OTHER -> "children"])

\* NR_reg_get_children into an array of that size.
Children ==
    /\ tool.at = "children"
    /\ IF Len(Kids) > tool.size THEN Fails
       ELSE IF tool.cmd = "list"
       THEN Goes([tool EXCEPT !.at = "done", !.out = [j \in DOMAIN Kids |-> Line(Kids[j], "", "")]])
       ELSE Goes([tool EXCEPT !.list = Kids, !.size = Len(Kids),
                              !.at = IF Kids = <<>> THEN "done" ELSE "type"])

\* nrregctl_dump, for each name: its type, and then nrregctl_read.
DumpType ==
    /\ tool.at = "type"
    /\ LET n == tool.list[tool.i + 1]
       IN  IF child[n] = Gone THEN Fails
           ELSE Goes([tool EXCEPT !.at = "value", !.out = Append(@, Line(n, child[n].type, ""))])
DumpValue ==
    /\ tool.at = "value"
    /\ LET n    == tool.list[tool.i + 1]
           line == tool.out[Len(tool.out)]
           full == Line(line.name, line.type, Shown(child[n]))
       IN  IF child[n] = Gone THEN Fails
           ELSE Goes(Onward([tool EXCEPT !.out = [tool.out EXCEPT ![Len(tool.out)] = full]], "type"))

\* nr_c2ru_get_children: the child with the number i, and its entry; what is not found is
\* left out.
GetChild ==
    /\ tool.at = "child"
    /\ IF tool.i < Len(Kids) THEN Goes([tool EXCEPT !.at = "entry", !.last = Kids[tool.i + 1]])
       ELSE Goes(Onward(tool, "child"))
GetEntry ==
    /\ tool.at = "entry"
    /\ IF child[tool.last] = Gone THEN Goes(Onward(tool, "child"))
       ELSE Goes(Onward(Prints(tool.last), "child"))

\* process_getkeys_request goes through the numbers twice.  The second time it does not
\* look whether the call failed, and prints what it has.
KeysCheck ==
    /\ tool.at = "check"
    /\ IF tool.i >= Len(Kids) THEN Fails
       ELSE Goes([tool EXCEPT !.last = Kids[tool.i + 1],
                              !.at = IF tool.i + 1 < tool.size THEN "check" ELSE "print",
                              !.i = IF tool.i + 1 < tool.size THEN tool.i + 1 ELSE 0])
KeysPrint ==
    /\ tool.at = "print"
    /\ LET n == IF tool.i < Len(Kids) THEN Kids[tool.i + 1] ELSE tool.last
       IN  Goes(Onward([Prints(n) EXCEPT !.last = n], "print"))

\* nr_c2ru_set_children: everything goes, then the entries come one by one.
SetClear ==
    /\ tool.at = "clear"
    /\ child' = [n \in 1..ChildCt |-> Gone]
    /\ there' = FALSE
    /\ tool' = At_(IF tool.size = 0 THEN "done" ELSE "set", 0)
    /\ UNCHANGED <<quiet, seen, webLoops>>
SetEntry(v) ==
    /\ tool.at = "set"
    /\ Store(tool.i + 1, v)
    /\ tool' = Onward(tool, "set")
    /\ UNCHANGED <<quiet, webLoops>>

ToolsNext ==
    \/ \E cmd \in {"list", "export", "keys", "get"} : Begin(cmd, 0)
    \/ \E entries \in 0..ChildCt : Begin("set", entries)
    \/ Count \/ Children \/ DumpType \/ DumpValue \/ GetChild \/ GetEntry
    \/ KeysCheck \/ KeysPrint \/ SetClear
    \/ \E v \in ToolValues : SetEntry(v)
    \/ \E n \in 1..ChildCt :
          \/ Remove(n) \/ WebGet(n)
          \/ \E v \in ToolValues : OtherSets(n, v)
          \/ \E t \in Types, text \in Texts : CtlWrite(n, t, text) \/ WebPut(n, t, text)

ToolsSpec == ToolsInit /\ [][ToolsNext]_toolVars

-----------------------------------------------------------------------------
\* A listing that ends well has only names that were there while it was made, however the
\* registry changed between its calls; nrregctl prints them in order and once; and when
\* nobody else was at it, each of them is complete.
ListingsAgree ==
    tool.at = "done" /\ tool.cmd \notin {"set", "webget"} =>
        /\ \A j \in DOMAIN tool.out : tool.out[j].name \in seen
        /\ tool.cmd \in {"list", "export"} =>
              \A j, k \in DOMAIN tool.out : j < k => tool.out[j].name < tool.out[k].name
        /\ quiet => [j \in DOMAIN tool.out |-> tool.out[j].name] = Kids

\* What the conversions do not keep.
Lossy == {V("string", "at"), V("string", "empty"), V("double", "long"), V("bytes", "n")}
WebLossy == {V("string", "empty"), V("double", "long")}

\* The commands that "nrregctl export" prints restore what it read: every value but those
\* goes through the text and the shell and comes back as it was.  So does what the Apache
\* module answers, when it is put back.
ExportReplays ==
    tool.at = "done" /\ quiet =>
        \A j \in DOMAIN tool.out :
            LET line == tool.out[j]
                v    == child[line.name]
            IN  /\ tool.cmd = "export" /\ v \notin Lossy => Replayed(line) \cap ToolValues = {v}
                /\ tool.cmd = "webget" /\ v \notin WebLossy => v \in WebParse(line.type, line.text)

=============================================================================
