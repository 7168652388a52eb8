---------------------------- MODULE MCRegistryRPC ----------------------------
(***************************************************************************)
(* Instances of RegistryRPC for TLC.                                        *)
(***************************************************************************)
EXTENDS RegistryRPC

CONSTANTS c1, c2

\* A string of exactly the size of the daemon's first buffer, and a shorter one.
MCString  == {[type |-> "string", data |-> 2]}
MCStrings == {[type |-> "string", data |-> 1], [type |-> "string", data |-> 2]}

\* One client makes calls, the other one waits for events.
MCCalls  == c1 :> {"get", "set", "alloc", "del"} @@ c2 :> {}
\* For liveness it matters only that some calls raise events and some do not.
MCEvents == c1 :> {"fin", "length"} @@ c2 :> {}
\* One client reads what the other one writes.
MCAllocs == c1 :> {"alloc", "type", "children", "count"} @@ c2 :> {"set"}

=============================================================================
