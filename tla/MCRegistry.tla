---------------------------- MODULE MCRegistry ----------------------------
(* The registry on a small tree, with two clients that watch it. *)
EXTENDS Registry

MCNames == {<<>>, <<"a">>, <<"a", "b">>, <<"a", "b", "c">>}

MCPayloads == {[kind |-> "registry", val |-> 0], [kind |-> "scalar", val |-> 0],
               [kind |-> "scalar", val |-> 1], [kind |-> "array", val |-> 0]}

\* Two callbacks on one name for the same action, one for another action, and
\* one further up.
MCWatches == {[name |-> <<"a">>, action |-> "add", cb |-> "x"],
              [name |-> <<"a">>, action |-> "add", cb |-> "y"],
              [name |-> <<"a">>, action |-> "delete", cb |-> "x"],
              [name |-> <<>>, action |-> "delete", cb |-> "y"]}

\* For nested writes: a smaller tree and fewer payloads and watches.
SmallNames    == {<<>>, <<"a">>, <<"a", "b">>}
SmallPayloads == {[kind |-> "registry", val |-> 0], [kind |-> "scalar", val |-> 0]}
SmallWatches  == {w \in MCWatches : w.name = ROOT \/ w.action = "add"}

\* All entries in one chain, and the callbacks x and y in chains of their own.
MCHashes == {[e \in Entries |-> 0],
             [e \in Entries |-> CASE e.cb = "x" -> 0 [] e.cb = "y" -> 2 [] OTHER -> 1]}
=============================================================================
