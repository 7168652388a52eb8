-------------------------------- MODULE RLog --------------------------------
(***************************************************************************)
(* Logging (log/r_log.c): facilities, destinations and the levels at which  *)
(* they write, kept up to date with the registry by callbacks.              *)
(*                                                                          *)
(* A facility has a level for every destination; the key is                 *)
(* logging.<dest>.facility.<name>.level.  A destination has a default level *)
(* (logging.<dest>.level) and a switch (logging.<dest>.enabled).  The       *)
(* registry is the local one: a write calls the callbacks before it         *)
(* returns.  Registry raises a deletion on the deleted name and above it,   *)
(* never on what lay below.                                                 *)
(***************************************************************************)
EXTENDS Integers, Sequences, FiniteSets

CONSTANTS
    Dests,         \* log_destinations, in order; a sequence of names
    Facilities,    \* the names that the program registers
    KeyOf,         \* facility -> what NR_reg_make_registry makes of its name
    Keys,          \* what programs write below "logging": <<"facility", d, k>>,
                   \* <<"level", d>> and <<"enabled", d>>
    LevelNames,    \* log_level_reg_strings, in order from 0
    MAX_LOG_TYPES, \* facilities that fit in log_types (1024 in the code)
    Environments   \* R_LOG_LEVEL and R_LOG_DESTINATION: [level, destination]

UNDEFINED == -1
NONE      == -2
ABSENT    == "absent"
UNSET     == "unset"
LOGGING_DEFAULT_LEVEL == 5
RANGE(s)  == {s[i] : i \in DOMAIN s}

ASSUME LogAssumption ==
    /\ Dests \in Seq(STRING) /\ UNSET \notin RANGE(Dests)
    /\ Facilities \subseteq STRING /\ ABSENT \notin Facilities
    /\ {"generic", "logging"} \subseteq Facilities
    /\ KeyOf \in [Facilities -> STRING]
    /\ Keys \subseteq ({"level", "enabled"} \X RANGE(Dests))
                    \cup ({"facility"} \X RANGE(Dests) \X STRING)
    /\ LevelNames \in Seq(STRING)
    /\ RANGE(LevelNames) \cap {"none", "junk", "int", ABSENT} = {}
    /\ MAX_LOG_TYPES \in Nat
    /\ Environments \subseteq [level : Int, destination : STRING]

\* What a program writes: a level's name, "none", a string that is neither, a value
\* of another type; "on" and "off" are the values of the switch.
Written(k) == IF k[1] = "enabled" THEN {"on", "off", "int"}
              ELSE RANGE(LevelNames) \cup {"none", "junk", "int"}

VARIABLES
    regInitted,  \* reg_vtbl is set
    logInitted,  \* r_log_initted
    logTypes,    \* the registered names, in order; log_type_ct is its length
    level,       \* log_types[..].level: name -> destination -> level
    hook,        \* <<destination, key>> -> the facility whose level the callbacks get
    dest,        \* log_destinations: destination -> [enabled, default_level]
    logLevel,    \* r_log_level
    envLevel,    \* r_log_level_environment
    env,         \* the environment of the process
    key,         \* the registry below "logging"
    unseen       \* keys went with a subtree

logVars == <<regInitted, logInitted, logTypes, level, hook, dest, logLevel, envLevel,
             env, key, unseen>>

\* The value at k; the keys that nobody writes are absent.
At(k, n) == IF n \in Keys THEN k[n] ELSE ABSENT

-----------------------------------------------------------------------------
\* r_log_get_reg_level: what the callers get for a string, and what they do not get.
Readable(v) == v \notin {ABSENT, "int"}
Parsed(v) ==
    CASE v = "none" -> NONE
      [] v = "junk" -> UNDEFINED
      [] OTHER      -> (CHOOSE i \in DOMAIN LevelNames : LevelNames[i] = v) - 1

\* r_log_get_default_level.
GetDefaultLevel ==
    /\ logLevel' = IF env.level = UNDEFINED THEN LOGGING_DEFAULT_LEVEL ELSE env.level
    /\ envLevel' = IF env.level = UNDEFINED THEN envLevel ELSE env.level

\* r_log_get_destinations(1) for one destination, given the registry k: a value of the
\* wrong type ends the function.
Aborts(k, d) == "int" \in {At(k, <<"level", d>>), At(k, <<"enabled", d>>)}
FromRegistry(k, d, old) ==
    LET l == At(k, <<"level", d>>)
        e == At(k, <<"enabled", d>>)
    IN  [default_level |-> IF l = "int" THEN old.default_level
                           ELSE IF l = ABSENT THEN UNDEFINED ELSE Parsed(l),
         enabled       |-> IF Aborts(k, d) THEN old.enabled ELSE e = "on"]

\* The destinations after one that aborts are not read.
Reached(k, d) ==
    \E i \in DOMAIN Dests : Dests[i] = d /\ \A j \in 1..(i - 1) : ~Aborts(k, Dests[j])

\* r_log_get_destinations: the environment comes before the registry.
Destinations(k, usereg) ==
    [d \in RANGE(Dests) |->
        IF env.destination # UNSET THEN [dest[d] EXCEPT !.enabled = (d = env.destination)]
        ELSE IF usereg /\ Reached(k, d) THEN FromRegistry(k, d, dest[d]) ELSE dest[d]]

\* What r_log_register reads from the registry, if there is one.
InitialLevel(f, d) ==
    LET v == At(key, <<"facility", d, KeyOf[f]>>) IN IF Readable(v) THEN Parsed(v) ELSE UNDEFINED

\* r_log_register of one name: a name that is there already, or that finds the table
\* full, leaves it as it is.
Added(types, f) ==
    IF f \in RANGE(types) \/ Len(types) >= MAX_LOG_TYPES THEN types ELSE Append(types, f)

\* r_log_register, until log_types is types: the levels and the callbacks of the names
\* that are new.  Registered again, a callback gets the new argument.
Registered(types, withRegistry) ==
    /\ logTypes' = types
    /\ level' = [f \in Facilities |-> IF f \notin RANGE(types) \ RANGE(logTypes) THEN level[f]
                   ELSE [d \in RANGE(Dests) |->
                           IF withRegistry THEN InitialLevel(f, d) ELSE UNDEFINED]]
    /\ hook' = IF ~withRegistry THEN hook
               ELSE [h \in DOMAIN hook |->
                       LET mine == {i \in (Len(logTypes) + 1)..Len(types) : KeyOf[types[i]] = h[2]}
                       IN  IF mine = {} THEN hook[h]
                           ELSE types[CHOOSE i \in mine : \A j \in mine : j <= i]]

-----------------------------------------------------------------------------
LogInit ==
    /\ regInitted = FALSE /\ logInitted = 0
    /\ logTypes = <<>>
    /\ level = [f \in Facilities |-> [d \in RANGE(Dests) |-> 0]]
    /\ hook = [h \in {<<k[2], k[3]>> : k \in {x \in Keys : x[1] = "facility"}} |-> ABSENT]
    /\ dest = [d \in RANGE(Dests) |-> [enabled |-> d = "syslog",
                                       default_level |-> LOGGING_DEFAULT_LEVEL]]
    /\ logLevel = LOGGING_DEFAULT_LEVEL /\ envLevel = 0
    /\ env \in Environments
    /\ key = [k \in Keys |-> ABSENT]
    /\ unseen = FALSE

\* r_log_init(), which NR_reg_init calls: it registers "generic" and "logging".
LogStart ==
    /\ ~regInitted /\ regInitted' = TRUE
    /\ logInitted' = 2
    /\ GetDefaultLevel
    /\ dest' = Destinations(key, TRUE)
    /\ Registered(Added(Added(logTypes, "generic"), "logging"), TRUE)
    /\ UNCHANGED <<env, key, unseen>>

\* The first message before that: _r_log_init(0).
LogEarly ==
    /\ logInitted = 0
    /\ logInitted' = 1
    /\ GetDefaultLevel
    /\ dest' = Destinations(key, FALSE)
    /\ UNCHANGED <<regInitted, logTypes, level, hook, env, key, unseen>>

LogRegister(f) ==
    /\ f \notin RANGE(logTypes)
    /\ Registered(Added(logTypes, f), regInitted)
    /\ UNCHANGED <<regInitted, logInitted, dest, logLevel, envLevel, env, key, unseen>>

\* Mutant: r_log_facility_change_cb is registered for changes only.
FacilityWritten_Changes(k, v) ==
    LET f == hook[<<k[2], k[3]>>]
    IN  IF f = ABSENT \/ ~Readable(v) \/ key[k] = ABSENT THEN level
        ELSE [level EXCEPT ![f][k[2]] = Parsed(v)]

\* r_log_facility_change_cb and r_log_facility_delete_cb.
FacilityWritten(k, v) ==
    LET f == hook[<<k[2], k[3]>>]
    IN  IF f = ABSENT \/ v = "int" THEN level
        ELSE [level EXCEPT ![f][k[2]] = IF v = ABSENT THEN UNDEFINED ELSE Parsed(v)]

\* What the callbacks of k do when its value is v, ABSENT for a deletion:
\* r_log_destination_change_cb and r_log_default_level_change_cb read everything.
Told(k, v) ==
    /\ level' = IF k[1] = "facility" THEN FacilityWritten(k, v) ELSE level
    /\ dest' = IF k[1] = "facility" THEN dest ELSE Destinations([key EXCEPT ![k] = v], TRUE)
    /\ UNCHANGED <<regInitted, logInitted, logTypes, hook, logLevel, envLevel,
                   env, unseen>>

\* A program writes a key; a node keeps its type.
LogSetKey(k, v) ==
    /\ regInitted
    /\ v # key[k]
    /\ v = "int" => key[k] = ABSENT
    /\ key[k] # "int"
    /\ key' = [key EXCEPT ![k] = v]
    /\ Told(k, v)

LogDeleteKey(k) ==
    /\ regInitted
    /\ key[k] # ABSENT
    /\ key' = [key EXCEPT ![k] = ABSENT]
    /\ Told(k, ABSENT)

\* logging.<d> is deleted with everything below it: no key's callback is called.
LogDeleteTree(d) ==
    /\ regInitted
    /\ \E k \in Keys : k[2] = d /\ key[k] # ABSENT
    /\ key' = [k \in Keys |-> IF k[2] = d THEN ABSENT ELSE key[k]]
    /\ unseen' = TRUE
    /\ UNCHANGED <<regInitted, logInitted, logTypes, level, hook, dest, logLevel,
                   envLevel, env>>

\* r_log_set_extra_destination, with a function and without.
LogSetExtra(on, l) ==
    /\ "extra" \in RANGE(Dests)
    /\ dest' = [dest EXCEPT !["extra"] =
                   [enabled |-> on, default_level |-> IF on THEN l ELSE @.default_level]]
    /\ UNCHANGED <<regInitted, logInitted, logTypes, level, hook, logLevel,
                   envLevel, env, key, unseen>>

\* r_logging_dest: does a message of level l go to d?  (n is a facility's number,
\* counted from 1; the entry behind the last one is zero.)
Threshold(n, d) ==
    IF n < 1 \/ n > Len(logTypes) + 1 THEN logLevel
    ELSE LET own == IF n > Len(logTypes) THEN 0 ELSE level[logTypes[n]][d]
         IN  IF own # UNDEFINED THEN own
             ELSE IF dest[d].default_level # UNDEFINED THEN dest[d].default_level
             ELSE logLevel
Logging(n, l, d) ==
    /\ dest[d].enabled
    /\ \/ l <= envLevel
       \/ l <= (IF logInitted < 2 THEN logLevel ELSE Threshold(n, d))

\* r_vlog: the destinations that a message is written to.
Written_To(n, l) == {d \in RANGE(Dests) : Logging(n, l, d)}

\* r_logging, and r_dump, r_vlog_e and r_vlog_nr, which ask it before they make the
\* text that they give to r_vlog.
Prepared_To(n, l) == IF \E d \in RANGE(Dests) : Logging(n, l, d) THEN Written_To(n, l) ELSE {}

LogNext ==
    \/ LogStart \/ LogEarly
    \/ \E f \in Facilities : LogRegister(f)
    \/ \E k \in Keys :
          \/ LogDeleteKey(k)
          \/ \E v \in Written(k) : LogSetKey(k, v)
    \/ \E d \in RANGE(Dests) : LogDeleteTree(d)
    \/ \E on \in BOOLEAN : LogSetExtra(on, 0)

LogSpec == LogInit /\ [][LogNext]_logVars

-----------------------------------------------------------------------------
\* The level that the registry gives a facility at a destination: its own, the
\* destination's, or the program's.
RegistryLevel(k, d) ==
    LET own == At(key, <<"facility", d, k>>)
        def == At(key, <<"level", d>>)
    IN  IF Readable(own) /\ own # "junk" THEN Parsed(own)
        ELSE IF Readable(def) /\ def # "junk" THEN Parsed(def)
        ELSE logLevel

\* Once the registry is open, r_vlog writes a message of a facility that follows its
\* key to exactly the destinations that the registry switches on at that level: no
\* write, deletion or registration in between leaves an old level or switch behind.
\* The exceptions are the ones the code has: keys that go with their subtree, values of
\* the wrong type, an environment that overrules the registry, and "extra", which the
\* program switches too.
MessagesFollow ==
    \A h \in DOMAIN hook, l \in 0..(LOGGING_DEFAULT_LEVEL + 1) :
        (/\ hook[h] # ABSENT
         /\ env.destination = UNSET /\ h[1] # "extra" /\ ~unseen
         /\ \A d \in RANGE(Dests) : ~Aborts(key, d))
        => LET n == CHOOSE i \in DOMAIN logTypes : logTypes[i] = hook[h]
           IN  h[1] \in Prepared_To(n, l) <=>
                   /\ At(key, <<"enabled", h[1]>>) = "on"
                   /\ l <= envLevel \/ l <= RegistryLevel(h[2], h[1])

=============================================================================
