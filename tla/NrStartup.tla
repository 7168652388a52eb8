------------------------------ MODULE NrStartup ------------------------------
(***************************************************************************)
(* Starting a program (share/nr_startup.c): the registry, logging and       *)
(* statistics are opened in turn, then the plugins are loaded               *)
(* (plugin/internal/nr_plugin_int.c) and their hooks are called.  Which     *)
(* shared objects are loaded is in the registry, under nr_plugins.plugins,  *)
(* with the names "0", "1" and so on; other programs write there meanwhile. *)
(*                                                                          *)
(* A hook is foreign code: what it returns is ignored or logged, and it     *)
(* loads no plugin itself.                                                  *)
(***************************************************************************)
EXTENDS Integers, Sequences, FiniteSets

CONSTANTS
    Statics,      \* nr_static_plugins, a sequence
    DsoCt,        \* the numbers are 0..DsoCt - 1
    Dsos,         \* the shared objects that can be loaded
    HooksOf,      \* plugin -> the types of its hooks
    MAX_PLUGINS,  \* slots of nr_loaded_plugins (512 in the code)
    FlagSets,     \* the flags that programs pass
    MaxTries      \* bound: how often a program calls nr_app_startup

\* What NR_reg_alloc2_string finds under a number: nothing, no string, a path that
\* dlopen or dlsym does not like, or a shared object.
Listings == Dsos \cup {"absent", "int", "bad"}

ASSUME StartupAssumption ==
    /\ {"absent", "int", "bad"} \cap Dsos = {}
    /\ Statics \in Seq(DOMAIN HooksOf) /\ Dsos \subseteq DOMAIN HooksOf
    /\ {DsoCt, MAX_PLUGINS, MaxTries} \subseteq Nat
    /\ \A f \in FlagSets : {"plugin", "logging"} \cap f # {} => {"local", "remote"} \cap f # {}

VARIABLES
    app,      \* nr_app_startup: [at, i, count, type, flags, tries]
    regMode,  \* reg_vtbl
    regOpen,  \* its init has succeeded
    listed,   \* number -> listing
    loaded,   \* nr_loaded_plugins, up to nr_loaded_plugin_ct
    called,   \* the hooks that were called, in order: <<plugin, type>>
    steady    \* nobody has written the list since it was counted

startupVars == <<app, regMode, regOpen, listed, loaded, called, steady>>

HookTypes == <<"register_logging", "register_stats">>
Requested(t) == t \in app.flags

-----------------------------------------------------------------------------
StartupInit ==
    /\ app = [at |-> "off", i |-> 0, count |-> 0, type |-> 1, flags |-> {}, tries |-> 0]
    /\ regMode = "none" /\ regOpen = FALSE
    /\ listed \in [0..(DsoCt - 1) -> Listings]
    /\ loaded = <<>> /\ called = <<>>
    /\ steady = TRUE

AppGoes(at) == app' = [app EXCEPT !.at = at, !.i = 0]

\* The program calls nr_app_startup, again if it failed.
AppBegin(flags) ==
    /\ app.at = "off" \/ (app.at = "failed" /\ flags = app.flags)
    /\ app.tries < MaxTries
    /\ app' = [app EXCEPT !.at = "registry", !.i = 0, !.type = 1, !.flags = flags, !.tries = @ + 1]
    /\ UNCHANGED <<regMode, regOpen, listed, loaded, called, steady>>

\* NR_reg_init: the mode is set before the init that may fail, and the next call finds
\* it set and is content.
OpenRegistry(mode) ==
    \/ /\ regMode = "none"
       /\ regMode' = mode
       /\ \E ok \in {TRUE, mode = "local"} :
             regOpen' = ok /\ AppGoes(IF ok THEN "services" ELSE "failed")
    \/ /\ regMode # "none"
       /\ AppGoes(IF regMode = mode THEN "services" ELSE "failed")
       /\ UNCHANGED <<regMode, regOpen>>

AppRegistry ==
    /\ app.at = "registry"
    /\ \/ {"remote", "local"} \subseteq app.flags /\ AppGoes("failed") /\ UNCHANGED <<regMode, regOpen>>
       \/ {"remote", "local"} \cap app.flags = {} /\ AppGoes("services") /\ UNCHANGED <<regMode, regOpen>>
       \/ \E mode \in {"remote", "local"} : app.flags \cap {"remote", "local"} = {mode} /\ OpenRegistry(mode)
    /\ UNCHANGED <<listed, loaded, called, steady>>

\* r_log_register, NR_stats_startup and NR_stats_get: any of them may fail.
AppServices ==
    /\ app.at = "services"
    /\ \/ AppGoes(IF "plugin" \in app.flags THEN "static" ELSE "done")
       \/ {"logging", "stats"} \cap app.flags # {} /\ AppGoes("failed")
    /\ UNCHANGED <<regMode, regOpen, listed, loaded, called, steady>>

\* nr_plugin_add: the slot is filled, the init hook is called, the plugin counts.  One
\* plugin more than there are slots is let through; writing behind the array is undefined,
\* and not followed.
AddPlugin(p) ==
    /\ Len(loaded) < MAX_PLUGINS
    /\ loaded' = Append(loaded, p)
    /\ called' = IF "init" \in HooksOf[p] THEN Append(called, <<p, "init">>) ELSE called
    /\ app' = [app EXCEPT !.i = @ + 1]

\* nr_plugin_add_plugins
AppStatic ==
    /\ app.at = "static" /\ app.i < Len(Statics)
    /\ AddPlugin(Statics[app.i + 1])
    /\ UNCHANGED <<regMode, regOpen, listed, steady>>

\* nr_plugin_load_dsos: without a list there is nothing to do; without a registry
\* nr_app_startup fails.
AppCount ==
    /\ app.at = "static" /\ app.i = Len(Statics)
    /\ app' = [app EXCEPT !.at = IF regOpen THEN "load" ELSE "failed", !.i = 0,
                          !.count = Cardinality({n \in DOMAIN listed : listed[n] # "absent"})]
    /\ steady' = TRUE
    /\ UNCHANGED <<regMode, regOpen, listed, loaded, called>>

\* Mutant: a shared object that cannot be loaded ends the loop.
AppLoad_Stops ==
    /\ app.at = "load" /\ app.i < app.count
    /\ LET path == listed[app.i]
       IN  \/ path \in {"absent", "bad"} /\ AppGoes("hooks") /\ UNCHANGED <<loaded, called>>
           \/ path = "int" /\ AppGoes("failed") /\ UNCHANGED <<loaded, called>>
           \/ path \in Dsos /\ AddPlugin(path)
    /\ UNCHANGED <<regMode, regOpen, listed, steady>>

\* One number: R_NOT_FOUND ends the loop, and nr_app_startup takes it for an empty list;
\* another error ends nr_app_startup; what cannot be loaded is skipped.
AppLoad ==
    /\ app.at = "load" /\ app.i < app.count
    /\ LET path == listed[app.i]
       IN  \/ path = "absent" /\ AppGoes("hooks") /\ UNCHANGED <<loaded, called>>
           \/ path = "int" /\ AppGoes("failed") /\ UNCHANGED <<loaded, called>>
           \/ path = "bad" /\ app' = [app EXCEPT !.i = @ + 1] /\ UNCHANGED <<loaded, called>>
           \/ path \in Dsos /\ AddPlugin(path)
    /\ UNCHANGED <<regMode, regOpen, listed, steady>>

AppLoaded ==
    /\ app.at = "load" /\ app.i >= app.count
    /\ AppGoes("hooks")
    /\ UNCHANGED <<regMode, regOpen, listed, loaded, called, steady>>

\* nr_plugin_execute_hooks for one type: plugin by plugin.  With NRSH_CONFIG there is a
\* third type, which is left out.
AppHook ==
    /\ app.at = "hooks" /\ app.type <= Len(HookTypes)
    /\ LET t    == HookTypes[app.type]
           more == Requested(t) /\ app.i < Len(loaded)
       IN  /\ called' = IF more /\ t \in HooksOf[loaded[app.i + 1]]
                        THEN Append(called, <<loaded[app.i + 1], t>>) ELSE called
           /\ app' = IF more THEN [app EXCEPT !.i = @ + 1]
                     ELSE [app EXCEPT !.type = @ + 1, !.i = 0]
    /\ UNCHANGED <<regMode, regOpen, listed, loaded, steady>>

AppDone ==
    /\ app.at = "hooks" /\ app.type > Len(HookTypes)
    /\ AppGoes("done")
    /\ UNCHANGED <<regMode, regOpen, listed, loaded, called, steady>>

\* Another client of the daemon writes or deletes a number.
OtherLists(n, v) ==
    /\ app.at \in {"load", "hooks"} /\ regMode = "remote"
    /\ v # listed[n] /\ (v = "absent" \/ listed[n] = "absent" \/ "int" \notin {v, listed[n]})
    /\ listed' = [listed EXCEPT ![n] = v]
    /\ steady' = FALSE
    /\ UNCHANGED <<app, regMode, regOpen, loaded, called>>

StartupNext ==
    \/ \E flags \in FlagSets : AppBegin(flags)
    \/ AppRegistry \/ AppServices \/ AppStatic \/ AppCount \/ AppLoad \/ AppLoaded
    \/ AppHook \/ AppDone
    \/ \E n \in 0..(DsoCt - 1), v \in Listings : OtherLists(n, v)

-----------------------------------------------------------------------------
StartupSpec == StartupInit /\ [][StartupNext]_startupVars

\* The entries I of s are the entries J of u, in the same order.
InOrder(I, s, J, u) ==
    \E f \in [I -> J] :
        /\ \A j \in J : \E i \in I : f[i] = j
        /\ \A i, k \in I : i < k => f[i] < f[k]
        /\ \A i \in I : s[i] = u[f[i]]

Callees     == [j \in DOMAIN called |-> called[j][1]]
CallsOf(t)  == {j \in DOMAIN called : called[j][2] = t}
Having(t)   == {j \in DOMAIN loaded : t \in HooksOf[loaded[j]]}
Gapless     == \A n \in DOMAIN listed : listed[n] = "absent" =>
                   \A m \in DOMAIN listed : m > n => listed[m] = "absent"
ListedDsos  == {n \in DOMAIN listed : listed[n] \in Dsos}
Dynamics    == {j \in DOMAIN loaded : j > Len(Statics)}

\* When the first call of nr_app_startup succeeds, the registry that was asked for is open,
\* every plugin that it holds has had its init hook before any other hook, and the hooks of
\* the requested types, once and in the order of loading, whatever was written to the list
\* meanwhile; and when nobody wrote and the numbers have no gap, these are the static
\* plugins and all listed ones that can be loaded.
StartupComplete ==
    app.at = "done" /\ app.tries = 1 =>
        /\ {"remote", "local"} \cap app.flags # {} => regOpen
        /\ "plugin" \in app.flags =>
              /\ InOrder(CallsOf("init"), Callees, Having("init"), loaded)
              /\ \A j, k \in DOMAIN called : called[j][2] # "init" /\ j < k => called[k][2] # "init"
              /\ \A j \in DOMAIN HookTypes :
                    InOrder(CallsOf(HookTypes[j]), Callees,
                            IF Requested(HookTypes[j]) THEN Having(HookTypes[j]) ELSE {}, loaded)
              /\ steady /\ Gapless =>
                    /\ Len(loaded) >= Len(Statics) /\ \A j \in DOMAIN Statics : loaded[j] = Statics[j]
                    /\ InOrder(Dynamics, loaded, ListedDsos, listed)

=============================================================================
