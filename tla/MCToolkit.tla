------------------------------ MODULE MCToolkit ------------------------------
(***************************************************************************)
(* The parts of the library that do not interact, in one instance for TLC:  *)
(* a behaviour is a behaviour of one of them while the others stand still,  *)
(* so the state spaces add up.                                              *)
(***************************************************************************)
EXTENDS RLog, RAssoc, NrStats, RegistryTools, NrStartup, RThread, Containers

VARIABLE part  \* the part that moves

vars == <<logVars, assocVars, statsVars, toolVars, startupVars, threadVars, listVars, chainVars, part>>

\* Logging: one destination with keys in the registry and one that the program adds;
\* "b" and "generic" share a key.
MCDests        == <<"syslog", "extra">>
MCFacilities   == {"a", "b", "generic", "logging"}
MCKeyOf        == [f \in MCFacilities |-> IF f = "b" THEN "generic" ELSE f]
MCKeys         == {<<"enabled", "syslog">>, <<"level", "syslog">>, <<"facility", "syslog", "generic">>}
MCLevelNames   == <<"emergency">>
MCEnvironments == {[level |-> UNDEFINED, destination |-> UNSET], [level |-> 1, destination |-> "extra"]}

\* Hash table: two keys collide, an empty chain lies between them and the third.
MCHashOf == [k \in {"a", "b", "c"} |-> IF k = "c" THEN 2 ELSE 0]

\* Tools: values whose text is ambiguous, and one that only escaping brings back.
MCToolValues == {V("char", "special"), V("string", "at")}

\* Startup: plugins with all, some and none of the hooks, and flags that conflict.
MCStatics  == <<"s", "r">>
MCHooksOf  == [s |-> {"init", "register_logging"}, r |-> {"register_stats"},
               x |-> {"init", "register_stats", "register_logging"}, y |-> {"register_logging"}]
MCFlagSets == {{"remote", "local"},
               {"remote", "logging", "plugin", "register_logging", "register_stats"},
               {"remote", "plugin", "register_stats"}, {"local", "plugin", "register_logging"},
               {"stats"}}

-----------------------------------------------------------------------------
Init ==
    /\ LogInit /\ AssocInit /\ StatsInit /\ ToolsInit /\ StartupInit /\ ThreadInit
    /\ ListInit /\ ChainInit
    /\ part \in {"log", "assoc", "stats", "tools", "startup", "threads", "list", "chain"}
    /\ part # "log" => env = [level |-> UNDEFINED, destination |-> UNSET]
    /\ part # "startup" => listed = [n \in 0..(DsoCt - 1) |-> "absent"]

Next ==
    /\ UNCHANGED part
    /\ \/ /\ part = "log" /\ LogNext
          /\ UNCHANGED <<assocVars, statsVars, toolVars, startupVars, threadVars, listVars, chainVars>>
       \/ /\ part = "assoc" /\ AssocNext
          /\ UNCHANGED <<logVars, statsVars, toolVars, startupVars, threadVars, listVars, chainVars>>
       \/ /\ part = "stats" /\ StatsNext
          /\ UNCHANGED <<logVars, assocVars, toolVars, startupVars, threadVars, listVars, chainVars>>
       \/ /\ part = "tools" /\ ToolsNext
          /\ UNCHANGED <<logVars, assocVars, statsVars, startupVars, threadVars, listVars, chainVars>>
       \/ /\ part = "startup" /\ StartupNext
          /\ UNCHANGED <<logVars, assocVars, statsVars, toolVars, threadVars, listVars, chainVars>>
       \/ /\ part = "threads" /\ ThreadNext
          /\ UNCHANGED <<logVars, assocVars, statsVars, toolVars, startupVars, listVars, chainVars>>
       \/ /\ part = "list" /\ ListNext
          /\ UNCHANGED <<logVars, assocVars, statsVars, toolVars, startupVars, threadVars, chainVars>>
       \/ /\ part = "chain" /\ ChainNext
          /\ UNCHANGED <<logVars, assocVars, statsVars, toolVars, startupVars, threadVars, listVars>>

Spec == Init /\ [][Next]_vars

=============================================================================
