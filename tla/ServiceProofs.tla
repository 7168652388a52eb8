---------------------------- MODULE ServiceProofs ---------------------------
(***************************************************************************)
(* Proofs about the services of a program: logging, the registry's command  *)
(* line tools and the start of an application with its plugins, for any     *)
(* destinations, facilities, keys, children, values, plugins and bounds.    *)
(* The three do not share state; each has an inductive invariant of its own.*)
(***************************************************************************)
EXTENDS RLog, RegistryTools, NrStartup, CallbackQueueTheorems, FiniteSetTheorems, TLAPS

-----------------------------------------------------------------------------
(* Logging. *)
\* The callbacks that the registry can call, and the level that one of them leaves.
Hooks == {<<k[2], k[3]>> : k \in {x \in Keys : x[1] = "facility"}}
Strings == RANGE(LevelNames) \cup {"none", "junk", "int", "on", "off", ABSENT}
LevelOf(v) == IF Readable(v) THEN Parsed(v) ELSE UNDEFINED

LogTypeOK ==
    /\ regInitted \in BOOLEAN /\ unseen \in BOOLEAN
    /\ logTypes \in Seq(Facilities)
    /\ level \in [Facilities -> [RANGE(Dests) -> Int]]
    /\ hook \in [Hooks -> Facilities \cup {ABSENT}]
    /\ dest \in [RANGE(Dests) -> [enabled : BOOLEAN, default_level : Int]]
    /\ key \in [Keys -> Strings]
    /\ \A k \in Keys : key[k] \in Written(k) \cup {ABSENT}

\* A callback belongs to the registered facility that has its key, and the level of
\* that facility is the one at the key.
HookInv ==
    \A h \in Hooks : hook[h] # ABSENT =>
        /\ regInitted
        /\ hook[h] \in RANGE(logTypes)
        /\ KeyOf[hook[h]] = h[2]
        /\ ~unseen => level[hook[h]][h[1]] = LevelOf(At(key, <<"facility", h[1], h[2]>>))

\* Where the registry governs a destination, that is as the registry says.
DestInv ==
    /\ regInitted => logInitted = 2
    /\ (regInitted /\ env.destination = UNSET /\ ~unseen /\ \A d \in RANGE(Dests) : ~Aborts(key, d))
       => \A d \in RANGE(Dests) \ {"extra"} : dest[d] = FromRegistry(key, d, dest[d])

LogInv == LogTypeOK /\ HookInv /\ DestInv

-----------------------------------------------------------------------------
\* The keys below "logging", and the callbacks on them, by their parts.
LEMMA KeyShape ==
    ASSUME NEW k \in Keys
    PROVE  /\ k[1] \in {"facility", "level", "enabled"} /\ k[2] \in RANGE(Dests)
           /\ k[1] = "facility" => k = <<"facility", k[2], k[3]>> /\ <<k[2], k[3]>> \in Hooks
           /\ k[1] # "facility" => k = <<k[1], k[2]>>
<1>1. CASE k \in {"level", "enabled"} \X RANGE(Dests)
  BY <1>1
<1>2. CASE k \in {"facility"} \X RANGE(Dests) \X STRING
  BY <1>2 DEF Hooks
<1> QED
  BY <1>1, <1>2, LogAssumption

\* A callback is on a facility key of its destination.
LEMMA HookShape ==
    ASSUME NEW h \in Hooks
    PROVE  h = <<h[1], h[2]>> /\ h[1] \in RANGE(Dests) /\ <<"facility", h[1], h[2]>> \in Keys
<1>1. PICK k \in Keys : k[1] = "facility" /\ h = <<k[2], k[3]>>
  BY DEF Hooks
<1> QED
  BY <1>1, KeyShape

\* What r_log_get_reg_level makes of a string.
LEMMA ParsedLevel ==
    ASSUME NEW v \in RANGE(LevelNames) \cup {"none", "junk"}
    PROVE  Parsed(v) \in Int /\ (Parsed(v) = UNDEFINED <=> v = "junk")
<1>1. CASE v \in {"none", "junk"}
  BY <1>1 DEF Parsed, NONE, UNDEFINED
<1>2. CASE v \in RANGE(LevelNames)
  <2>1. v \notin {"none", "junk"}
    BY <1>2, LogAssumption
  <2>2. \E i \in DOMAIN LevelNames : LevelNames[i] = v
    BY <1>2 DEF RANGE
  <2> DEFINE n == CHOOSE i \in DOMAIN LevelNames : LevelNames[i] = v
  <2>3. n \in DOMAIN LevelNames
    BY <2>2
  <2>4. n \in Int /\ n >= 1
    BY <2>3, LogAssumption
  <2>5. Parsed(v) = n - 1
    BY <2>1 DEF Parsed
  <2> HIDE DEF n
  <2> QED
    BY <2>1, <2>4, <2>5 DEF UNDEFINED
<1> QED
  BY <1>1, <1>2

\* The values of a key are strings that r_log.c tells apart.
LEMMA WrittenShape ==
    ASSUME NEW k \in Keys, NEW v \in Written(k) \cup {ABSENT}
    PROVE  /\ v \in Strings
           /\ k[1] # "enabled" => v \in RANGE(LevelNames) \cup {"none", "junk", "int", ABSENT}
           /\ k[1] # "enabled" /\ Readable(v) => v \in RANGE(LevelNames) \cup {"none", "junk"}
<1>1. k[1] # "enabled" => v \in RANGE(LevelNames) \cup {"none", "junk", "int", ABSENT}
  BY DEF Written
<1> QED
  BY <1>1 DEF Written, Readable, Strings

\* The level that a callback leaves is a level.
LEMMA LevelOfInt ==
    ASSUME LogTypeOK, NEW d, NEW n
    PROVE  LevelOf(At(key, <<"facility", d, n>>)) \in Int
<1> DEFINE k == <<"facility", d, n>>
<1>1. CASE k \in Keys
  <2>1. key[k] \in Written(k) \cup {ABSENT} /\ k[1] # "enabled"
    BY <1>1 DEF LogTypeOK
  <2> QED
    BY <1>1, <2>1, WrittenShape, ParsedLevel DEF LevelOf, At, UNDEFINED
<1>2. CASE k \notin Keys
  BY <1>2 DEF LevelOf, At, Readable, UNDEFINED, ABSENT
<1> QED
  BY <1>1, <1>2

-----------------------------------------------------------------------------
\* log_types after r_log_register: what was there, and new names behind it.
Grown(types) ==
    /\ types \in Seq(Facilities)
    /\ Len(logTypes) <= Len(types) /\ Len(types) <= Len(logTypes) + 2
    /\ \A i \in 1..Len(logTypes) : types[i] = logTypes[i]
    /\ \A i \in (Len(logTypes) + 1)..Len(types) : types[i] \notin RANGE(logTypes)

\* Registering a facility only adds to the list.
LEMMA AddedGrows ==
    ASSUME logTypes \in Seq(Facilities), NEW f \in Facilities
    PROVE  Grown(Added(logTypes, f))
<1>1. CASE Added(logTypes, f) = logTypes
  BY <1>1 DEF Grown
<1>2. CASE f \notin RANGE(logTypes) /\ Added(logTypes, f) = Append(logTypes, f)
  BY <1>2 DEF Grown
<1> QED
  BY <1>1, <1>2 DEF Added

\* So does registering two.
LEMMA AddedTwice ==
    ASSUME logTypes \in Seq(Facilities), NEW f \in Facilities, NEW g \in Facilities
    PROVE  Grown(Added(Added(logTypes, f), g))
<1> DEFINE one == Added(logTypes, f)
<1>1. Grown(one) /\ Len(one) <= Len(logTypes) + 1
  <2>1. Len(one) <= Len(logTypes) + 1
    BY DEF Added
  <2> QED
    BY <2>1, AddedGrows
<1> HIDE DEF one
<1>2. CASE Added(one, g) = one
  BY <1>1, <1>2 DEF one
<1>3. CASE g \notin RANGE(one) /\ Added(one, g) = Append(one, g)
  <2>1. one \in Seq(Facilities) /\ Len(one) \in Nat /\ Len(logTypes) \in Nat
    BY <1>1 DEF Grown
  <2>2. g \notin RANGE(logTypes)
    BY <1>1, <1>3, <2>1 DEF Grown, RANGE
  <2>3. Append(one, g) \in Seq(Facilities) /\ Len(Append(one, g)) = Len(one) + 1
    BY <2>1
  <2>4. \A i \in 1..Len(one) : Append(one, g)[i] = one[i]
    BY <2>1
  <2>5. Append(one, g)[Len(one) + 1] = g
    BY <2>1
  <2> QED
    BY <1>1, <1>3, <2>1, <2>2, <2>3, <2>4, <2>5 DEF Grown, one
<1> QED
  BY <1>2, <1>3 DEF Added, one

\* r_log_register: the new names have the levels and the callbacks that their keys say.
LEMMA RegisteredInv ==
    ASSUME LogTypeOK, HookInv, NEW types, Grown(types), NEW w \in BOOLEAN,
           Registered(types, w), regInitted' \in BOOLEAN,
           w => regInitted', regInitted => w, UNCHANGED <<key, unseen>>
    PROVE  /\ logTypes' \in Seq(Facilities)
           /\ level' \in [Facilities -> [RANGE(Dests) -> Int]]
           /\ hook' \in [Hooks -> Facilities \cup {ABSENT}]
           /\ HookInv'
<1>1. logTypes \in Seq(Facilities) /\ DOMAIN hook = Hooks
  BY DEF LogTypeOK
<1>2. logTypes' = types /\ types \in Seq(Facilities)
  BY DEF Registered, Grown
<1>3. RANGE(logTypes) \subseteq RANGE(types)
  BY <1>1, <1>2 DEF Grown, RANGE
<1>4. \A f \in Facilities, d \in RANGE(Dests) : InitialLevel(f, d) \in Int
  BY LevelOfInt DEF InitialLevel, LevelOf
<1>5. level' \in [Facilities -> [RANGE(Dests) -> Int]]
  <2>1. ASSUME NEW f \in Facilities
        PROVE  level'[f] \in [RANGE(Dests) -> Int]
    <3>1. CASE f \notin RANGE(types) \ RANGE(logTypes)
      BY <3>1 DEF Registered, LogTypeOK
    <3>2. CASE f \in RANGE(types) \ RANGE(logTypes)
      BY <3>2, <1>4 DEF Registered, UNDEFINED
    <3> QED
      BY <3>1, <3>2
  <2> QED
    BY <2>1 DEF Registered
<1>6. ASSUME NEW f \in RANGE(logTypes) \cap Facilities
      PROVE  level'[f] = level[f]
  BY DEF Registered
<1> DEFINE Mine(h) == {i \in (Len(logTypes) + 1)..Len(types) : KeyOf[types[i]] = h[2]}
<1>7. ASSUME NEW h \in Hooks
      PROVE  \/ hook'[h] = hook[h]
             \/ w /\ \E m \in Mine(h) : hook'[h] = types[m]
  <2>1. CASE ~w
    BY <2>1 DEF Registered
  <2>2. CASE w /\ Mine(h) = {}
    BY <1>1, <2>2 DEF Registered
  <2>3. CASE w /\ Mine(h) # {}
    <3> DEFINE S == Mine(h)
    <3>1. S \subseteq {Len(logTypes) + 1, Len(logTypes) + 2}
      BY <1>1, <1>2 DEF Grown
    <3>2. Len(logTypes) \in Nat
      BY <1>1
    <3>3. \E m \in S : \A j \in S : j <= m
      <4> HIDE DEF S
      <4>1. CASE Len(logTypes) + 2 \in S
        BY <3>1, <3>2, <4>1
      <4>2. CASE Len(logTypes) + 2 \notin S
        <5>1. S # {}
          BY <2>3 DEF S
        <5>2. PICK m \in S : TRUE
          BY <5>1
        <5>3. \A j \in S : j = Len(logTypes) + 1
          BY <3>1, <4>2
        <5> QED
          BY <3>2, <5>2, <5>3
      <4> QED
        BY <4>1, <4>2
    <3>4. hook'[h] = types[CHOOSE m \in Mine(h) : \A j \in Mine(h) : j <= m]
      BY <1>1, <2>3 DEF Registered
    <3> HIDE DEF Mine
    <3> DEFINE m == CHOOSE i \in Mine(h) : \A j \in Mine(h) : j <= i
    <3>5. m \in Mine(h)
      BY <3>3
    <3> QED
      BY <2>3, <3>4, <3>5
  <2> QED
    BY <2>1, <2>2, <2>3
<1>8. DOMAIN hook' = Hooks
  BY <1>1 DEF Registered, LogTypeOK
<1>9. ASSUME NEW h \in Hooks, w, NEW m \in Mine(h), hook'[h] = types[m]
      PROVE  /\ hook'[h] \in Facilities
             /\ regInitted'
             /\ hook'[h] \in RANGE(types)
             /\ KeyOf[hook'[h]] = h[2]
             /\ level'[hook'[h]][h[1]] = LevelOf(At(key, <<"facility", h[1], h[2]>>))
  <2>1. m \in 1..Len(types) /\ types[m] \in Facilities /\ types[m] \in RANGE(types)
    BY <1>1, <1>2 DEF RANGE
  <2>2. types[m] \notin RANGE(logTypes)
    BY DEF Grown
  <2>3. level'[types[m]] = [d \in RANGE(Dests) |-> InitialLevel(types[m], d)]
    BY <1>9, <2>1, <2>2 DEF Registered
  <2>4. level'[types[m]][h[1]] = InitialLevel(types[m], h[1])
    BY <2>3, HookShape
  <2> QED
    BY <1>9, <2>1, <2>4 DEF InitialLevel, LevelOf
<1>10. ASSUME NEW h \in Hooks, hook'[h] = hook[h], hook[h] # ABSENT
       PROVE  /\ regInitted'
              /\ hook'[h] \in RANGE(types)
              /\ KeyOf[hook'[h]] = h[2]
              /\ ~unseen => level'[hook'[h]][h[1]] = LevelOf(At(key, <<"facility", h[1], h[2]>>))
  <2>1. hook[h] \in Facilities /\ hook[h] \in RANGE(logTypes)
    BY <1>10 DEF LogTypeOK, HookInv
  <2> QED
    BY <1>3, <1>6, <1>10, <2>1 DEF HookInv
<1>11. hook' \in [Hooks -> Facilities \cup {ABSENT}]
  <2>1. \A h \in Hooks : hook'[h] \in Facilities \cup {ABSENT}
    BY <1>7, <1>9 DEF LogTypeOK
  <2>2. hook' = [h \in Hooks |-> hook'[h]]
    <3>1. CASE w
      BY <1>1, <3>1 DEF Registered
    <3>2. CASE ~w
      BY <1>1, <3>2 DEF Registered, LogTypeOK
    <3> QED
      BY <3>1, <3>2
  <2> QED
    BY <2>1, <2>2
<1>12. HookInv'
  <2> HIDE DEF Mine
  <2> SUFFICES ASSUME NEW h \in Hooks, hook'[h] # ABSENT
               PROVE  /\ regInitted'
                      /\ hook'[h] \in RANGE(types)
                      /\ KeyOf[hook'[h]] = h[2]
                      /\ ~unseen => level'[hook'[h]][h[1]] = LevelOf(At(key, <<"facility", h[1], h[2]>>))
    BY <1>2 DEF HookInv
  <2> QED
    BY <1>7, <1>9, <1>10
<1> QED
  BY <1>2, <1>5, <1>11, <1>12

-----------------------------------------------------------------------------
\* r_log_get_destinations with the registry: unless a value ends it or the environment
\* overrules it, every destination is as the registry says.
DestsFollow(k, dst) ==
    (env.destination = UNSET /\ \A d \in RANGE(Dests) : ~Aborts(k, d))
    => \A d \in RANGE(Dests) \ {"extra"} : dst[d] = FromRegistry(k, d, dst[d])

\* What a look at the registry leaves in the destinations.
LEMMA DestinationsType ==
    ASSUME LogTypeOK, NEW k \in [Keys -> Strings], NEW u \in BOOLEAN,
           \A x \in Keys : k[x] \in Written(x) \cup {ABSENT}
    PROVE  Destinations(k, u) \in [RANGE(Dests) -> [enabled : BOOLEAN, default_level : Int]]
<1> SUFFICES ASSUME NEW d \in RANGE(Dests)
             PROVE  Destinations(k, u)[d] \in [enabled : BOOLEAN, default_level : Int]
  BY DEF Destinations
<1>1. dest[d] \in [enabled : BOOLEAN, default_level : Int]
  BY DEF LogTypeOK
<1>2. FromRegistry(k, d, dest[d]) \in [enabled : BOOLEAN, default_level : Int]
  <2> DEFINE l == At(k, <<"level", d>>)
             dl == IF l = "int" THEN dest[d].default_level
                   ELSE IF l = ABSENT THEN UNDEFINED ELSE Parsed(l)
             en == IF Aborts(k, d) THEN dest[d].enabled ELSE At(k, <<"enabled", d>>) = "on"
  <2>1. FromRegistry(k, d, dest[d]) = [default_level |-> dl, enabled |-> en]
    BY DEF FromRegistry
  <2>2. l \in RANGE(LevelNames) \cup {"none", "junk", "int", ABSENT}
    <3>1. CASE <<"level", d>> \in Keys
      <4>1. <<"level", d>>[1] # "enabled"
        OBVIOUS
      <4> QED
        BY <3>1, <4>1, WrittenShape DEF At
    <3>2. CASE <<"level", d>> \notin Keys
      BY <3>2 DEF At
    <3> QED
      BY <3>1, <3>2
  <2>3. dl \in Int
    BY <1>1, <2>2, ParsedLevel DEF UNDEFINED
  <2>4. en \in BOOLEAN
    BY <1>1
  <2> HIDE DEF dl, en
  <2> QED
    BY <2>1, <2>3, <2>4
<1>3. [dest[d] EXCEPT !.enabled = (d = env.destination)] \in [enabled : BOOLEAN, default_level : Int]
  BY <1>1
<1> QED
  BY <1>1, <1>2, <1>3 DEF Destinations

\* A look at all keys leaves every destination as the registry says.
LEMMA DestinationsFollow ==
    ASSUME NEW k
    PROVE  DestsFollow(k, Destinations(k, TRUE))
<1> SUFFICES ASSUME env.destination = UNSET, \A d \in RANGE(Dests) : ~Aborts(k, d),
                    NEW d \in RANGE(Dests)
             PROVE  Destinations(k, TRUE)[d] = FromRegistry(k, d, Destinations(k, TRUE)[d])
  BY DEF DestsFollow
<1>1. Reached(k, d)
  <2>1. PICK i \in DOMAIN Dests : Dests[i] = d
    BY DEF RANGE
  <2>2. \A j \in 1..(i - 1) : j \in DOMAIN Dests
    BY LogAssumption
  <2> QED
    BY <2>1, <2>2 DEF Reached, RANGE
<1>2. Destinations(k, TRUE)[d] = FromRegistry(k, d, dest[d])
  BY <1>1 DEF Destinations
<1>3. FromRegistry(k, d, dest[d]) = FromRegistry(k, d, Destinations(k, TRUE)[d])
  BY DEF FromRegistry, Aborts
<1> QED
  BY <1>2, <1>3

-----------------------------------------------------------------------------
\* The invariant holds initially.
LEMMA InitLogInv == LogInit => LogInv
<1> SUFFICES ASSUME LogInit PROVE LogInv
  OBVIOUS
<1> USE DEF LogInit
<1>1. dest \in [RANGE(Dests) -> [enabled : BOOLEAN, default_level : Int]]
  <2>1. ASSUME NEW d \in RANGE(Dests)
        PROVE  [enabled |-> d = "syslog", default_level |-> LOGGING_DEFAULT_LEVEL]
                   \in [enabled : BOOLEAN, default_level : Int]
    <3>1. (d = "syslog") \in BOOLEAN /\ LOGGING_DEFAULT_LEVEL \in Int
      BY DEF LOGGING_DEFAULT_LEVEL
    <3>2. PICK b \in BOOLEAN : b = (d = "syslog")
      BY <3>1
    <3>3. [enabled |-> b, default_level |-> LOGGING_DEFAULT_LEVEL]
                   \in [enabled : BOOLEAN, default_level : Int]
      BY <3>1
    <3> QED
      BY <3>2, <3>3
  <2> QED
    BY <2>1
<1>2. hook = [h \in Hooks |-> ABSENT]
  BY Zenon DEF Hooks
<1>3. key \in [Keys -> Strings] /\ \A k \in Keys : key[k] \in Written(k) \cup {ABSENT}
  <2>1. key = [k \in Keys |-> ABSENT] /\ ABSENT \in Strings
    BY DEF Strings
  <2> QED
    BY <2>1
<1>4. LogTypeOK
  <2>1. level \in [Facilities -> [RANGE(Dests) -> Int]]
    <3>1. level = [f \in Facilities |-> [d \in RANGE(Dests) |-> 0]]
      BY Zenon
    <3> HIDE DEF LogInit
    <3> QED
      BY <3>1
  <2>2. logTypes \in Seq(Facilities) /\ regInitted \in BOOLEAN /\ unseen \in BOOLEAN
    <3>1. logTypes = <<>> /\ regInitted = FALSE /\ unseen = FALSE
      BY Zenon
    <3> HIDE DEF LogInit
    <3>2. logTypes \in Seq(Facilities)
      BY <3>1
    <3>3. regInitted \in BOOLEAN /\ unseen \in BOOLEAN
      BY <3>1, Zenon
    <3> QED
      BY <3>2, <3>3
  <2>3. hook \in [Hooks -> Facilities \cup {ABSENT}]
    BY <1>2
  <2> HIDE DEF LogInit
  <2> QED
    BY <1>1, <1>3, <2>1, <2>2, <2>3 DEF LogTypeOK
<1>5. HookInv
  BY <1>2 DEF HookInv
<1>6. DestInv
  BY DEF DestInv
<1> QED
  BY <1>4, <1>5, <1>6 DEF LogInv

\* r_log_facility_change_cb and r_log_facility_delete_cb keep the level of the facility
\* at its key.
LEMMA FacilityWrittenInv ==
    ASSUME LogTypeOK, HookInv, NEW k \in Keys, k[1] = "facility",
           NEW v \in Written(k) \cup {ABSENT}, v = "int" => key[k] = ABSENT,
           key' = [key EXCEPT ![k] = v], level' = FacilityWritten(k, v),
           UNCHANGED <<regInitted, logTypes, hook, unseen>>
    PROVE  level' \in [Facilities -> [RANGE(Dests) -> Int]] /\ HookInv'
<1> DEFINE h0 == <<k[2], k[3]>>
           f == hook[h0]
<1>1. k = <<"facility", k[2], k[3]>> /\ h0 \in Hooks /\ k[2] \in RANGE(Dests)
  BY KeyShape
<1>2. f \in Facilities \cup {ABSENT}
  BY <1>1 DEF LogTypeOK
<1>3. f # ABSENT => f \in Facilities
  BY <1>2
<1>4. v # "int" => (IF v = ABSENT THEN UNDEFINED ELSE Parsed(v)) = LevelOf(v)
  BY DEF LevelOf, Readable
<1>5. LevelOf(v) \in Int
  BY WrittenShape, ParsedLevel DEF LevelOf, UNDEFINED
<1>6. level' = IF f = ABSENT \/ v = "int" THEN level
               ELSE [level EXCEPT ![f] = [@ EXCEPT ![k[2]] = LevelOf(v)]]
  <2>1. CASE f = ABSENT \/ v = "int"
    BY <2>1 DEF FacilityWritten
  <2>2. CASE ~(f = ABSENT \/ v = "int")
    BY <1>4, <2>2 DEF FacilityWritten
  <2> QED
    BY <2>1, <2>2
<1>7. key' \in [Keys -> Strings]
  BY WrittenShape DEF LogTypeOK
<1> HIDE DEF f
<1>8. level' \in [Facilities -> [RANGE(Dests) -> Int]]
  BY <1>1, <1>3, <1>5, <1>6 DEF LogTypeOK
<1>9. ASSUME NEW h \in Hooks, hook[h] # ABSENT, ~unseen
      PROVE  level'[hook[h]][h[1]] = LevelOf(At(key', <<"facility", h[1], h[2]>>))
  <2> DEFINE n == <<"facility", h[1], h[2]>>
  <2>1. n \in Keys /\ h = <<h[1], h[2]>> /\ h[1] \in RANGE(Dests)
    BY HookShape
  <2>2. hook[h] \in Facilities /\ KeyOf[hook[h]] = h[2] /\ level[hook[h]][h[1]] = LevelOf(key[n])
    BY <1>9, <2>1 DEF LogTypeOK, HookInv, At
  <2>3. CASE h = h0
    <3>1. n = k /\ hook[h] = f /\ h[1] = k[2]
      BY <1>1, <2>3 DEF f
    <3>2. At(key', n) = v
      BY <2>1, <3>1, <1>7 DEF At, LogTypeOK
    <3>3. CASE v = "int"
      BY <1>6, <2>2, <3>1, <3>2, <3>3 DEF LevelOf, Readable
    <3>4. CASE v # "int"
      <4>1. level' = [level EXCEPT ![f] = [@ EXCEPT ![k[2]] = LevelOf(v)]]
        BY <1>6, <1>9, <3>1, <3>4
      <4> QED
        BY <1>1, <1>3, <1>9, <3>1, <3>2, <4>1 DEF LogTypeOK
    <3> QED
      BY <3>3, <3>4
  <2>4. CASE h # h0
    <3>1. n # k
      BY <1>1, <2>1, <2>4
    <3>2. At(key', n) = key[n]
      BY <2>1, <3>1 DEF At, LogTypeOK
    <3>3. level'[hook[h]][h[1]] = level[hook[h]][h[1]]
      <4>1. CASE hook[h] = f
        <5>1. f # ABSENT /\ KeyOf[f] = k[3]
          BY <1>1, <1>9, <4>1 DEF HookInv, f
        <5>2. h[1] # k[2]
          BY <2>1, <2>2, <2>4, <4>1, <5>1
        <5> QED
          BY <1>3, <1>6, <2>1, <2>2, <4>1, <5>2 DEF LogTypeOK
      <4>2. CASE hook[h] # f
        BY <1>6, <2>2, <4>2 DEF LogTypeOK
      <4> QED
        BY <4>1, <4>2
    <3> QED
      BY <2>2, <3>2, <3>3
  <2> QED
    BY <2>3, <2>4
<1> QED
  BY <1>8, <1>9 DEF HookInv

\* A write or a deletion of a key, and the callbacks on it.
LEMMA ToldInv ==
    ASSUME LogInv, regInitted, NEW k \in Keys, NEW v \in Written(k) \cup {ABSENT},
           v = "int" => key[k] = ABSENT,
           key' = [key EXCEPT ![k] = v], Told(k, v)
    PROVE  LogInv'
<1> USE DEF LogInv
<1>1. /\ UNCHANGED <<regInitted, logInitted, logTypes, hook, env, unseen>>
      /\ level' = IF k[1] = "facility" THEN FacilityWritten(k, v) ELSE level
      /\ dest' = IF k[1] = "facility" THEN dest ELSE Destinations([key EXCEPT ![k] = v], TRUE)
  BY DEF Told
<1>2. key' \in [Keys -> Strings] /\ \A x \in Keys : key'[x] \in Written(x) \cup {ABSENT}
  BY WrittenShape DEF LogTypeOK
<1>3. CASE k[1] = "facility"
  <2>1. level' \in [Facilities -> [RANGE(Dests) -> Int]] /\ HookInv'
    BY <1>1, <1>3, FacilityWrittenInv
  <2>2. dest' = dest
    BY <1>1, <1>3
  <2>3. LogTypeOK'
    BY <1>1, <1>2, <2>1, <2>2 DEF LogTypeOK
  <2>4. ASSUME NEW d
        PROVE  /\ At(key', <<"level", d>>) = At(key, <<"level", d>>)
               /\ At(key', <<"enabled", d>>) = At(key, <<"enabled", d>>)
    <3>1. <<"level", d>> # k /\ <<"enabled", d>> # k
      BY <1>3
    <3> QED
      BY <3>1 DEF At, LogTypeOK
  <2>5. \A d : Aborts(key', d) = Aborts(key, d)
    BY <2>4 DEF Aborts
  <2>6. \A d : FromRegistry(key', d, dest[d]) = FromRegistry(key, d, dest[d])
    BY <2>4, <2>5 DEF FromRegistry
  <2>7. DestInv'
    BY <1>1, <2>2, <2>5, <2>6 DEF DestInv
  <2> QED
    BY <2>1, <2>3, <2>7
<1>4. CASE k[1] # "facility"
  <2>1. level' = level /\ dest' = Destinations(key', TRUE)
    BY <1>1, <1>4
  <2>2. dest' \in [RANGE(Dests) -> [enabled : BOOLEAN, default_level : Int]]
    BY <1>2, <2>1, DestinationsType
  <2>3. LogTypeOK'
    BY <1>1, <1>2, <2>1, <2>2 DEF LogTypeOK
  <2>4. HookInv'
    <3>1. ASSUME NEW h \in Hooks
          PROVE  At(key', <<"facility", h[1], h[2]>>) = At(key, <<"facility", h[1], h[2]>>)
      <4>1. <<"facility", h[1], h[2]>> # k
        BY <1>4
      <4> QED
        BY <4>1 DEF At, LogTypeOK
    <3> QED
      BY <1>1, <2>1, <3>1 DEF HookInv
  <2>5. DestsFollow(key', dest')
    BY <2>1, DestinationsFollow
  <2>6. DestInv'
    BY <1>1, <2>5 DEF DestInv, DestsFollow
  <2> QED
    BY <2>3, <2>4, <2>6
<1> QED
  BY <1>3, <1>4

-----------------------------------------------------------------------------
\* Every step keeps the invariant.
LEMMA LogStep == ASSUME LogInv, [LogNext]_logVars PROVE LogInv'
<1> USE DEF LogInv
<1>1. ASSUME LogStart PROVE LogInv'
  <2>1. UNCHANGED <<env, key, unseen>> /\ regInitted' = TRUE /\ logInitted' = 2
    BY <1>1 DEF LogStart
  <2>2. dest' = Destinations(key, TRUE)
    BY <1>1 DEF LogStart
  <2>3. dest' \in [RANGE(Dests) -> [enabled : BOOLEAN, default_level : Int]]
    BY <2>2, DestinationsType DEF LogTypeOK
  <2>4. Grown(Added(Added(logTypes, "generic"), "logging"))
    BY AddedTwice, LogAssumption DEF LogTypeOK
  <2>5. Registered(Added(Added(logTypes, "generic"), "logging"), TRUE)
    BY <1>1 DEF LogStart
  <2>6. /\ logTypes' \in Seq(Facilities)
        /\ level' \in [Facilities -> [RANGE(Dests) -> Int]]
        /\ hook' \in [Hooks -> Facilities \cup {ABSENT}]
        /\ HookInv'
    <3>1. TRUE \in BOOLEAN /\ regInitted' \in BOOLEAN
      BY <2>1
    <3> QED
      BY <2>1, <2>4, <2>5, <3>1, RegisteredInv
  <2>7. LogTypeOK'
    BY <2>1, <2>3, <2>6 DEF LogTypeOK
  <2>8. DestsFollow(key', dest')
    BY <2>1, <2>2, DestinationsFollow
  <2>9. DestInv'
    BY <2>1, <2>8 DEF DestInv, DestsFollow
  <2> QED
    BY <2>6, <2>7, <2>9
<1>2. ASSUME LogEarly PROVE LogInv'
  <2>1. UNCHANGED <<regInitted, logTypes, level, hook, env, key, unseen>> /\ ~regInitted
    BY <1>2 DEF LogEarly, DestInv, LogTypeOK
  <2>2. dest' \in [RANGE(Dests) -> [enabled : BOOLEAN, default_level : Int]]
    BY <1>2, DestinationsType DEF LogEarly, LogTypeOK
  <2> QED
    BY <2>1, <2>2 DEF LogTypeOK, HookInv, DestInv
<1>3. ASSUME NEW f \in Facilities, LogRegister(f) PROVE LogInv'
  <2>1. UNCHANGED <<regInitted, logInitted, dest, env, key, unseen>>
    BY <1>3 DEF LogRegister
  <2>2. Grown(Added(logTypes, f)) /\ Registered(Added(logTypes, f), regInitted)
    BY <1>3, AddedGrows DEF LogRegister, LogTypeOK
  <2>3. /\ logTypes' \in Seq(Facilities)
        /\ level' \in [Facilities -> [RANGE(Dests) -> Int]]
        /\ hook' \in [Hooks -> Facilities \cup {ABSENT}]
        /\ HookInv'
    <3>1. PICK w : w = regInitted
      OBVIOUS
    <3>2. w \in BOOLEAN /\ regInitted' \in BOOLEAN /\ (w => regInitted') /\ (regInitted => w)
      BY <2>1, <3>1 DEF LogTypeOK
    <3>3. Registered(Added(logTypes, f), w)
      BY <2>2, <3>1
    <3> QED
      BY <2>1, <2>2, <3>2, <3>3, RegisteredInv
  <2> QED
    BY <2>1, <2>3 DEF LogTypeOK, DestInv
<1>4. ASSUME NEW k \in Keys, LogDeleteKey(k) PROVE LogInv'
  BY <1>4, ToldInv DEF LogDeleteKey, ABSENT
<1>5. ASSUME NEW k \in Keys, NEW v \in Written(k), LogSetKey(k, v) PROVE LogInv'
  BY <1>5, ToldInv DEF LogSetKey
<1>6. ASSUME NEW d \in RANGE(Dests), LogDeleteTree(d) PROVE LogInv'
  <2>1. UNCHANGED <<regInitted, logInitted, logTypes, level, hook, dest, env>> /\ unseen' = TRUE
    BY <1>6 DEF LogDeleteTree
  <2>2. key' \in [Keys -> Strings] /\ \A k \in Keys : key'[k] \in Written(k) \cup {ABSENT}
    BY <1>6 DEF LogDeleteTree, LogTypeOK, Strings
  <2> QED
    BY <2>1, <2>2 DEF LogTypeOK, HookInv, DestInv
<1>7. ASSUME NEW on \in BOOLEAN, LogSetExtra(on, 0) PROVE LogInv'
  <2>1. UNCHANGED <<regInitted, logInitted, logTypes, level, hook, env, key, unseen>>
    BY <1>7 DEF LogSetExtra
  <2>2. PICK l \in Int : dest' = [dest EXCEPT !["extra"] = [enabled |-> on, default_level |-> l]]
    <3> DEFINE l == IF on THEN 0 ELSE dest["extra"].default_level
    <3>1. l \in Int
      BY <1>7 DEF LogSetExtra, LogTypeOK
    <3>2. dest' = [dest EXCEPT !["extra"] = [enabled |-> on, default_level |-> l]]
      BY <1>7 DEF LogSetExtra, LogTypeOK
    <3> QED
      BY <3>1, <3>2
  <2>3. dest' \in [RANGE(Dests) -> [enabled : BOOLEAN, default_level : Int]]
    BY <2>2 DEF LogTypeOK
  <2>4. \A d \in RANGE(Dests) \ {"extra"} : dest'[d] = dest[d]
    BY <2>2 DEF LogTypeOK
  <2>5. DestInv'
    BY <2>1, <2>4 DEF DestInv
  <2> QED
    BY <2>1, <2>3, <2>5 DEF LogTypeOK, HookInv
<1>8. ASSUME UNCHANGED logVars PROVE LogInv'
  BY <1>8 DEF logVars, LogTypeOK, HookInv, DestInv
<1> QED
  BY <1>1, <1>2, <1>3, <1>4, <1>5, <1>6, <1>7, <1>8 DEF LogNext

\* The invariant of the logging.
THEOREM LogInvariant == LogSpec => []LogInv
<1> QED
  BY InitLogInv, LogStep, PTL DEF LogSpec

\* The level of a facility that has a callback is the one that the registry gives it.
LEMMA MessagesFromInv == LogInv => MessagesFollow
<1> SUFFICES ASSUME LogInv, NEW h \in DOMAIN hook, NEW l \in 0..(LOGGING_DEFAULT_LEVEL + 1),
                    hook[h] # ABSENT, env.destination = UNSET, h[1] # "extra", ~unseen,
                    \A d \in RANGE(Dests) : ~Aborts(key, d)
             PROVE  LET n == CHOOSE i \in DOMAIN logTypes : logTypes[i] = hook[h]
                    IN  h[1] \in Prepared_To(n, l) <=>
                            /\ At(key, <<"enabled", h[1]>>) = "on"
                            /\ l <= envLevel \/ l <= RegistryLevel(h[2], h[1])
  BY DEF MessagesFollow
<1> USE DEF LogInv
<1> DEFINE n == CHOOSE i \in DOMAIN logTypes : logTypes[i] = hook[h]
           own == At(key, <<"facility", h[1], h[2]>>)
           def == At(key, <<"level", h[1]>>)
<1>1. h \in Hooks /\ h[1] \in RANGE(Dests) /\ <<"facility", h[1], h[2]>> \in Keys
  BY HookShape DEF LogTypeOK
<1>2. regInitted /\ logInitted = 2 /\ level[hook[h]][h[1]] = LevelOf(own)
  BY <1>1 DEF HookInv, DestInv
<1>3. n \in 1..Len(logTypes) /\ logTypes[n] = hook[h]
  <2>1. \E i \in DOMAIN logTypes : logTypes[i] = hook[h]
    BY <1>1 DEF HookInv, RANGE
  <2>2. n \in DOMAIN logTypes /\ logTypes[n] = hook[h]
    BY <2>1
  <2> QED
    BY <2>2 DEF LogTypeOK
<1> HIDE DEF n
<1>4. Prepared_To(n, l) = Written_To(n, l)
  BY DEF Prepared_To, Written_To
<1>5. dest[h[1]] = FromRegistry(key, h[1], dest[h[1]])
  BY <1>1, <1>2 DEF DestInv
<1>6. dest[h[1]].enabled = (At(key, <<"enabled", h[1]>>) = "on")
  BY <1>1, <1>5 DEF FromRegistry
<1>7. dest[h[1]].default_level = LevelOf(def)
  <2>1. def # "int"
    BY <1>1 DEF Aborts
  <2> QED
    BY <1>5, <2>1 DEF FromRegistry, LevelOf, Readable
<1>8. own \in RANGE(LevelNames) \cup {"none", "junk", "int", ABSENT}
  <2>1. <<"facility", h[1], h[2]>>[1] # "enabled"
    OBVIOUS
  <2>2. own \in Written(<<"facility", h[1], h[2]>>) \cup {ABSENT}
    BY <1>1 DEF At, LogTypeOK
  <2> QED
    BY <1>1, <2>1, <2>2, WrittenShape
<1>9. def \in RANGE(LevelNames) \cup {"none", "junk", "int", ABSENT}
  <2>1. CASE <<"level", h[1]>> \in Keys
    <3>1. <<"level", h[1]>>[1] # "enabled"
      OBVIOUS
    <3>2. def \in Written(<<"level", h[1]>>) \cup {ABSENT}
      BY <2>1 DEF At, LogTypeOK
    <3> QED
      BY <2>1, <3>1, <3>2, WrittenShape
  <2>2. CASE <<"level", h[1]>> \notin Keys
    BY <2>2 DEF At
  <2> QED
    BY <2>1, <2>2
<1> HIDE DEF own, def
<1>10. ASSUME NEW v \in RANGE(LevelNames) \cup {"none", "junk", "int", ABSENT}
       PROVE  /\ (Readable(v) /\ v # "junk") <=> LevelOf(v) # UNDEFINED
              /\ Readable(v) => LevelOf(v) = Parsed(v)
  <2>1. Readable(v) => v \in RANGE(LevelNames) \cup {"none", "junk"}
    BY DEF Readable
  <2> QED
    BY <2>1, ParsedLevel DEF LevelOf
<1>11. Threshold(n, h[1]) = IF LevelOf(own) # UNDEFINED THEN LevelOf(own)
                            ELSE IF LevelOf(def) # UNDEFINED THEN LevelOf(def) ELSE logLevel
  <2>1. ~(n < 1 \/ n > Len(logTypes) + 1) /\ ~(n > Len(logTypes))
    BY <1>3 DEF LogTypeOK
  <2> QED
    BY <1>2, <1>3, <1>7, <2>1 DEF Threshold
<1>12. RegistryLevel(h[2], h[1]) = Threshold(n, h[1])
  BY <1>8, <1>9, <1>10, <1>11 DEF RegistryLevel, own, def
<1>13. h[1] \in Written_To(n, l) <=> Logging(n, l, h[1])
  BY <1>1 DEF Written_To
<1>14. ~(logInitted < 2)
  BY <1>2
<1>15. Logging(n, l, h[1]) <=> /\ At(key, <<"enabled", h[1]>>) = "on"
                               /\ l <= envLevel \/ l <= RegistryLevel(h[2], h[1])
  BY <1>6, <1>12, <1>14 DEF Logging
<1> QED
  BY <1>4, <1>13, <1>15 DEF n

\* Once the registry is open, messages go where the registry sends them.
THEOREM LogFollows == LogSpec => []MessagesFollow
<1> QED
  BY LogInvariant, MessagesFromInv, PTL

-----------------------------------------------------------------------------
(* The registry's tools. *)
ToolTypes == {"", "char", "uchar", "int", "double", "bytes", "string"}
ToolTexts == {"", "octal", "plain", "hex", "number", "blank", "special", "at", "none"}
Lines == [name : 1..ChildCt, type : ToolTypes, text : ToolTexts]

Commands == [cmd : {"none", "webget", "list", "export", "keys", "get", "set"},
             at : {"start", "count", "children", "type", "value", "child", "entry", "check",
                   "print", "clear", "set", "done", "failed"},
             size : Nat, list : Seq(1..ChildCt), i : Nat, last : 0..ChildCt, out : Seq(Lines)]

ToolTypeOK ==
    /\ child \in [1..ChildCt -> ToolValues \cup {Gone}]
    /\ tool \in Commands
    /\ seen \in SUBSET (1..ChildCt)
    /\ quiet \in BOOLEAN

\* The names come in order, each once.
Ascending(s) == \A j, k \in 1..Len(s) : j < k => s[j] < s[k]

\* out has the first m names of s.
Lists(out, s, m) == Len(out) = m /\ m <= Len(s) /\ \A j \in 1..m : out[j].name = s[j]

\* What a command has read was there, and so is what it goes by.
SeenInv ==
    /\ Present(child) \subseteq seen
    /\ \A j \in 1..Len(tool.out) : tool.out[j].name \in seen
    /\ \A j \in 1..Len(tool.list) : tool.list[j] \in seen
    /\ tool.at \in {"entry", "print"} => tool.last \in seen
    /\ Ascending(tool.list)

\* Where a command stands.
StageInv ==
    /\ tool.at = "count" => /\ tool.cmd \in {"list", "export", "keys", "get"}
                            /\ tool.i = 0 /\ tool.out = <<>> /\ tool.list = <<>>
    /\ tool.at = "children" => /\ tool.cmd \in {"list", "export"}
                               /\ tool.i = 0 /\ tool.out = <<>> /\ tool.list = <<>>
    /\ tool.at \in {"type", "value"} =>
          /\ tool.cmd = "export" /\ tool.size = Len(tool.list) /\ tool.i < tool.size
          /\ Lists(tool.out, tool.list, IF tool.at = "type" THEN tool.i ELSE tool.i + 1)
    /\ tool.at \in {"child", "entry"} => tool.cmd = "get"
    /\ tool.at \in {"check", "print"} => tool.cmd = "keys"
    /\ tool.at = "check" => tool.out = <<>>
    /\ tool.at \in {"clear", "set"} => tool.cmd = "set" /\ tool.size <= ChildCt
    /\ tool.at = "set" => tool.i < tool.size
    /\ tool.at = "done" =>
          /\ tool.cmd = "export" => Lists(tool.out, tool.list, Len(tool.list))
          /\ tool.cmd = "list" =>
                \A j, k \in 1..Len(tool.out) : j < k => tool.out[j].name < tool.out[k].name
          /\ tool.cmd # "none"

\* While nobody else changes the registry, a listing is complete as far as it has come.
QuietInv ==
    quiet =>
        /\ tool.at \in {"child", "entry", "check", "print"} =>
              tool.size = Len(Kids) /\ tool.i < tool.size
        /\ tool.at \in {"child", "entry", "print"} => Lists(tool.out, Kids, tool.i)
        /\ tool.at = "entry" => tool.last = Kids[tool.i + 1]
        /\ tool.at \in {"type", "value", "done"} /\ tool.cmd = "export" => tool.list = Kids
        /\ tool.at = "done" /\ tool.cmd \in {"list", "keys", "get"} =>
              Lists(tool.out, Kids, Len(Kids))

\* And what it has printed of the values is what they are.
TextInv ==
    quiet =>
        /\ tool.cmd = "export" =>
              \A j \in 1..Len(tool.out) :
                  LET v == child[tool.out[j].name]
                  IN  /\ v \in ToolValues /\ tool.out[j].type = v.type
                      /\ tool.at # "value" \/ j < Len(tool.out) => tool.out[j].text = Shown(v)
        /\ tool.cmd = "webget" =>
              \A j \in 1..Len(tool.out) :
                  LET v == child[tool.out[j].name]
                  IN  /\ v \in ToolValues /\ tool.out[j].type = v.type
                      /\ tool.out[j].text = WebShown(v) /\ WebShown(v) # "none"

ToolsInv == ToolTypeOK /\ SeenInv /\ StageInv /\ QuietInv /\ TextInv

-----------------------------------------------------------------------------
\* The place of n among the numbers in P.
Rank(P, n) == Cardinality({m \in P : m <= n})

\* The ranks of the numbers in a bounded set count them in order.
LEMMA RankLemma ==
    ASSUME NEW N \in Nat, NEW P \in SUBSET (1..N)
    PROVE  /\ IsFiniteSet(P) /\ Cardinality(P) \in Nat
           /\ \A n \in P : Rank(P, n) \in 1..Cardinality(P)
           /\ \A m, n \in P : m < n <=> Rank(P, m) < Rank(P, n)
           /\ \A j \in 1..Cardinality(P) : \E n \in P : Rank(P, n) = j
<1>0. P \subseteq Nat
  OBVIOUS
<1>1. IsFiniteSet(P) /\ Cardinality(P) \in Nat
  <2>1. IsFiniteSet(1..N)
    BY FS_Interval
  <2>2. IsFiniteSet(P)
    BY <2>1, FS_Subset
  <2> QED
    BY <2>2, FS_CardinalityType
<1> DEFINE Below(n) == {m \in P : m <= n}
<1>2. ASSUME NEW n
      PROVE  /\ IsFiniteSet(Below(n)) /\ Rank(P, n) = Cardinality(Below(n))
             /\ Rank(P, n) \in Nat /\ Rank(P, n) <= Cardinality(P)
  <2>1. Below(n) \in SUBSET P
    OBVIOUS
  <2>2. IsFiniteSet(Below(n)) /\ Cardinality(Below(n)) <= Cardinality(P)
    BY <1>1, <2>1, FS_Subset
  <2>3. Cardinality(Below(n)) \in Nat
    BY <2>2, FS_CardinalityType
  <2> QED
    BY <2>2, <2>3 DEF Rank
<1>3. ASSUME NEW n \in P PROVE Rank(P, n) \in 1..Cardinality(P)
  <2>1. n \in Below(n)
    BY <1>0
  <2> HIDE DEF Below
  <2>2. Rank(P, n) # 0
    BY <1>2, <2>1, FS_EmptySet
  <2> QED
    <3>1. Rank(P, n) \in Nat /\ Rank(P, n) <= Cardinality(P)
      BY <1>2
    <3> QED
      BY <1>1, <2>2, <3>1
<1>4. ASSUME NEW m \in P, NEW n \in P, m < n PROVE Rank(P, m) < Rank(P, n)
  <2>1. Below(m) \in SUBSET Below(n) /\ n \in Below(n) /\ n \notin Below(m)
    <3>1. m \in Nat /\ n \in Nat /\ m <= n /\ ~(n <= m) /\ n <= n
      BY <1>0, <1>4
    <3>2. \A x \in P : x <= m => x <= n
      BY <1>0, <3>1
    <3> QED
      BY <3>1, <3>2
  <2> HIDE DEF Below
  <2>2. IsFiniteSet(Below(n)) /\ Below(n) # Below(m)
    BY <1>2, <2>1
  <2>3. Cardinality(Below(m)) <= Cardinality(Below(n)) /\ Cardinality(Below(m)) # Cardinality(Below(n))
    BY <2>1, <2>2, FS_Subset
  <2>4. /\ Rank(P, m) = Cardinality(Below(m)) /\ Rank(P, n) = Cardinality(Below(n))
        /\ Rank(P, m) \in Nat /\ Rank(P, n) \in Nat
    BY <1>2
  <2> QED
    BY <2>3, <2>4
<1> HIDE DEF Below
<1>5. ASSUME NEW m \in P, NEW n \in P, Rank(P, m) < Rank(P, n) PROVE m < n
  <2>1. m \in Nat /\ n \in Nat /\ Rank(P, m) \in Nat /\ Rank(P, n) \in Nat
    BY <1>2
  <2>2. CASE n < m
    BY <1>4, <1>5, <2>1, <2>2
  <2>3. CASE n = m
    BY <1>5, <2>1, <2>3
  <2> QED
    BY <2>1, <2>2, <2>3
<1>6. ASSUME NEW j \in 1..Cardinality(P) PROVE \E n \in P : Rank(P, n) = j
  <2> DEFINE r == [n \in P |-> Rank(P, n)]
             T == 1..Cardinality(P)
  <2>1. r \in [P -> T]
    BY <1>3
  <2>2. \A m, n \in P : r[m] = r[n] => m = n
    <3>1. \A m, n \in P : Rank(P, m) = Rank(P, n) => m = n
      <4> SUFFICES ASSUME NEW m \in P, NEW n \in P, Rank(P, m) = Rank(P, n), m # n PROVE FALSE
        OBVIOUS
      <4>1. m \in Nat /\ n \in Nat /\ Rank(P, m) \in Nat /\ ~(Rank(P, m) < Rank(P, n))
                          /\ ~(Rank(P, n) < Rank(P, m))
        BY <1>0, <1>2
      <4>2. CASE m < n
        BY <1>4, <4>1, <4>2
      <4>3. CASE n < m
        BY <1>4, <4>1, <4>3
      <4> QED
        BY <4>1, <4>2, <4>3
    <3> QED
      BY <3>1
  <2>3. r \in Injection(P, T)
    <3> HIDE DEF r, T
    <3> QED
      BY <2>1, <2>2 DEF Injection, IsInjective
  <2>4. IsFiniteSet(T) /\ Cardinality(T) = Cardinality(P)
    BY <1>1, FS_Interval
  <2>5. r \in Surjection(P, T)
    <3> HIDE DEF r, T
    <3> QED
      BY <2>3, <2>4, FS_Injection
  <2>6. \E n \in P : r[n] = j
    <3>1. j \in T
      OBVIOUS
    <3> HIDE DEF r, T
    <3> QED
      BY <2>5, <3>1 DEF Surjection
  <2> QED
    BY <2>6
<1> QED
  BY <1>1, <1>3, <1>4, <1>5, <1>6

\* get_children: the names of the children that are there, in order.
LEMMA KidsLemma ==
    ASSUME ToolTypeOK
    PROVE  /\ Kids \in Seq(1..ChildCt)
           /\ Ascending(Kids)
           /\ \A j \in 1..Len(Kids) : Kids[j] \in Present(child)
<1> DEFINE P == Present(child)
           At0(j) == CHOOSE n \in P : Rank(P, n) = j
<1>1. ChildCt \in Nat /\ P \in SUBSET (1..ChildCt)
  BY ToolAssumption DEF Present
<1> HIDE DEF P
<1>2. /\ Cardinality(P) \in Nat
      /\ \A m, n \in P : m < n <=> Rank(P, m) < Rank(P, n)
      /\ \A j \in 1..Cardinality(P) : \E n \in P : Rank(P, n) = j
  BY <1>1, RankLemma
<1>3. \A j \in 1..Cardinality(P) : At0(j) \in P /\ Rank(P, At0(j)) = j
  BY <1>2
<1>4. Kids = [j \in 1..Cardinality(P) |-> At0(j)]
  BY DEF Kids, Rank, P
<1> HIDE DEF At0
<1>5. Kids \in Seq(1..ChildCt) /\ Len(Kids) = Cardinality(P)
  <2>1. \A j \in 1..Cardinality(P) : At0(j) \in 1..ChildCt
    BY <1>1, <1>3
  <2> DEFINE c == Cardinality(P)
             s == [j \in 1..c |-> At0(j)]
  <2>2. c \in Nat /\ \A j \in 1..c : At0(j) \in 1..ChildCt
    BY <1>2, <2>1
  <2>3. Kids = s
    BY <1>4
  <2> HIDE DEF c
  <2>4. s \in Seq(1..ChildCt) /\ Len(s) = c
    BY <2>2
  <2> HIDE DEF s
  <2> QED
    BY <2>3, <2>4 DEF c
<1>6. \A j \in 1..Len(Kids) : Kids[j] = At0(j)
  BY <1>4, <1>5
<1>7. Ascending(Kids)
  <2> SUFFICES ASSUME NEW j \in 1..Len(Kids), NEW k \in 1..Len(Kids), j < k
               PROVE  At0(j) < At0(k)
    BY <1>6 DEF Ascending
  <2> QED
    BY <1>2, <1>3, <1>5
<1> QED
  BY <1>3, <1>5, <1>6, <1>7 DEF P

-----------------------------------------------------------------------------
\* What the conversions make of a value.
LEMMA ValueLemma ==
    ASSUME NEW v \in ToolValues
    PROVE  /\ v # Gone /\ v.type \in ToolTypes
           /\ Shown(v) \in ToolTexts /\ WebShown(v) \in ToolTexts
           /\ v \notin Lossy => CtlParse(v.type, Shown(v)) = {v} /\ Shown(v) # "blank"
           /\ v \notin WebLossy /\ WebShown(v) # "none" => v \in WebParse(v.type, WebShown(v))
<1>0. PICK t \in {"char", "uchar", "int", "double", "bytes", "string"} : \E k \in Kinds(t) : v = V(t, k)
  BY ToolAssumption
<1>1. PICK k \in Kinds(t) : v = V(t, k)
  BY <1>0
<1>2. v.type = t /\ v.kind = k /\ v # Gone
  BY <1>1 DEF V, Gone
<1>3. \A x, y, z : V(x, y) = V(x, z) <=> y = z
  BY DEF V
<1>10. CASE t = "char"
  <2>1. k \in {"plain", "special"}
    BY <1>1, <1>10 DEF Kinds
  <2>2. Shown(v) = IF k = "special" THEN "octal" ELSE "plain"
    BY <1>2, <1>10, Zenon DEF Shown
  <2>3. WebShown(v) = "number"
    BY <1>2, <1>10 DEF WebShown
  <2>4. CtlParse("char", "octal") = {V("char", "special")} /\ CtlParse("char", "plain") = {V("char", "plain")}
    BY DEF CtlParse
  <2>5. WebParse("char", "number") = {V("char", "plain"), V("char", "special")}
    BY DEF WebParse
  <2> QED
    BY <1>1, <1>2, <1>10, <2>1, <2>2, <2>3, <2>4, <2>5 DEF ToolTypes, ToolTexts
<1>11. CASE t = "uchar"
  <2>1. k = "n" /\ Shown(v) = "hex" /\ WebShown(v) = "number"
    BY <1>1, <1>2, <1>11 DEF Kinds, Shown, WebShown
  <2>2. CtlParse("uchar", "hex") = {V("uchar", "n")} /\ WebParse("uchar", "number") = {V("uchar", "n")}
    BY DEF CtlParse, WebParse
  <2> QED
    BY <1>1, <1>2, <1>11, <2>1, <2>2 DEF ToolTypes, ToolTexts
<1>12. CASE t = "int"
  <2>1. k = "n" /\ Shown(v) = "number" /\ WebShown(v) = "number"
    BY <1>1, <1>2, <1>12 DEF Kinds, Shown, WebShown
  <2>2. CtlParse("int", "number") = {V("int", "n")} /\ WebParse("int", "number") = {V("int", "n")}
    BY DEF CtlParse, WebParse
  <2> QED
    BY <1>1, <1>2, <1>12, <2>1, <2>2 DEF ToolTypes, ToolTexts
<1>13. CASE t = "double"
  <2>1. k \in {"short", "long"} /\ Shown(v) = "number" /\ WebShown(v) = "number"
    BY <1>1, <1>2, <1>13 DEF Kinds, Shown, WebShown
  <2>2. /\ CtlParse("double", "number") = {V("double", "short")}
        /\ WebParse("double", "number") = {V("double", "short")}
    BY DEF CtlParse, WebParse
  <2> QED
    BY <1>1, <1>2, <1>13, <2>1, <2>2 DEF ToolTypes, ToolTexts, Lossy, WebLossy
<1>14. CASE t = "bytes"
  <2>1. k = "n" /\ Shown(v) = "hex" /\ WebShown(v) = "none"
    BY <1>1, <1>2, <1>14 DEF Kinds, Shown, WebShown
  <2> QED
    BY <1>1, <1>2, <1>14, <2>1 DEF ToolTypes, ToolTexts, Lossy
<1>15. CASE t = "string"
  <2>1. k \in {"plain", "special", "at", "empty"}
    BY <1>1, <1>15 DEF Kinds
  <2>2. Shown(v) = Quoted(k) /\ WebShown(v) = Quoted(k)
    BY <1>2, <1>15 DEF Shown, WebShown, Quoted
  <2>3. Quoted("plain") = "plain" /\ Quoted("special") = "special" /\ Quoted("at") = "at" /\ Quoted("empty") = "blank"
    BY DEF Quoted
  <2>4. /\ CtlParse("string", "plain") = {V("string", "plain")}
        /\ CtlParse("string", "special") = {V("string", "special")}
    BY DEF CtlParse
  <2>5. /\ WebParse("string", "plain") = {V("string", "plain")} /\ WebParse("string", "at") = {V("string", "at")}
        /\ WebParse("string", "special") = {V("string", "special")}
    BY DEF WebParse
  <2> QED
    BY <1>1, <1>2, <1>15, <2>1, <2>2, <2>3, <2>4, <2>5 DEF ToolTypes, ToolTexts, Lossy, WebLossy
<1> QED
  BY <1>10, <1>11, <1>12, <1>13, <1>14, <1>15

-----------------------------------------------------------------------------
\* No command is a command; and it stays one when its fields change within their types.
LEMMA NoToolLemma == NoTool \in Commands
<1>1. <<>> \in Seq(1..ChildCt) /\ <<>> \in Seq(Lines) /\ 0 \in 0..ChildCt
  BY ToolAssumption
<1> QED
  BY <1>1 DEF NoTool, Commands

\* A command that begins, or that fails, has printed nothing.
LEMMA FreshInv ==
    ASSUME ToolsInv, UNCHANGED child, tool' \in Commands, tool'.out = <<>>, tool'.list = <<>>, tool'.i = 0,
           tool'.at \in {"failed", "clear", "count"},
           tool'.at = "clear" => tool'.cmd = "set" /\ tool'.size <= ChildCt,
           tool'.at = "count" => tool'.cmd \in {"list", "export", "keys", "get"},
           Present(child) \subseteq seen', seen' \in SUBSET (1..ChildCt), quiet' \in BOOLEAN
    PROVE  ToolsInv'
<1>1. Len(tool'.out) = 0 /\ Len(tool'.list) = 0
  OBVIOUS
<1>2. ToolTypeOK'
  BY DEF ToolsInv, ToolTypeOK
<1>3. Present(child)' = Present(child)
  BY DEF Present
<1>4. SeenInv'
  BY <1>1, <1>3 DEF SeenInv, Ascending
<1>5. StageInv'
  BY DEF StageInv
<1>6. QuietInv'
  BY DEF QuietInv
<1>7. TextInv'
  BY <1>1 DEF TextInv
<1> QED
  BY <1>2, <1>4, <1>5, <1>6, <1>7 DEF ToolsInv

\* Another program changes the registry: what the command has read was there.
LEMMA DisturbedInv ==
    ASSUME ToolsInv, UNCHANGED tool, quiet' = FALSE, seen \subseteq seen',
           seen' \in SUBSET (1..ChildCt), Present(child') \subseteq seen',
           child' \in [1..ChildCt -> ToolValues \cup {Gone}]
    PROVE  ToolsInv'
<1>1. ToolTypeOK'
  BY DEF ToolsInv, ToolTypeOK
<1>2. Present(child)' = Present(child')
  BY DEF Present
<1>3. SeenInv'
  BY <1>2 DEF ToolsInv, SeenInv
<1>4. StageInv'
  BY DEF ToolsInv, StageInv
<1>5. QuietInv' /\ TextInv'
  BY DEF QuietInv, TextInv
<1> QED
  BY <1>1, <1>3, <1>4, <1>5 DEF ToolsInv

\* A call that stores a value.
LEMMA StoreLemma ==
    ASSUME ToolsInv, NEW n \in 1..ChildCt, NEW v \in ToolValues, Store(n, v)
    PROVE  /\ seen \subseteq seen' /\ seen' \in SUBSET (1..ChildCt)
           /\ child' \in [1..ChildCt -> ToolValues \cup {Gone}]
           /\ Present(child') \subseteq seen'
<1>1. child \in [1..ChildCt -> ToolValues \cup {Gone}] /\ seen \in SUBSET (1..ChildCt)
  BY DEF ToolsInv, ToolTypeOK
<1>2. child' = [child EXCEPT ![n] = v] /\ seen' = seen \cup {n}
  BY DEF Store
<1>3. Present(child) \subseteq seen
  BY DEF ToolsInv, SeenInv
<1> QED
  BY <1>1, <1>2, <1>3 DEF Present

\* nr_c2ru_set_children prints nothing.
LEMMA SettingInv ==
    ASSUME ToolsInv, tool.cmd = "set", tool' \in Commands, tool'.cmd = "set",
           tool'.at \in {"set", "done"}, tool'.out = tool.out, tool'.list = tool.list,
           tool'.at = "set" => tool'.i < tool'.size /\ tool'.size <= ChildCt,
           UNCHANGED quiet, seen \subseteq seen', seen' \in SUBSET (1..ChildCt),
           Present(child') \subseteq seen', child' \in [1..ChildCt -> ToolValues \cup {Gone}]
    PROVE  ToolsInv'
<1>1. ToolTypeOK'
  BY DEF ToolsInv, ToolTypeOK
<1>2. Present(child)' = Present(child')
  BY DEF Present
<1>3. SeenInv'
  BY <1>2 DEF ToolsInv, SeenInv
<1>4. StageInv'
  BY DEF ToolsInv, StageInv
<1>5. QuietInv' /\ TextInv'
  BY DEF QuietInv, TextInv
<1> QED
  BY <1>1, <1>3, <1>4, <1>5 DEF ToolsInv

\* The names of the children do not change when the children do not.
LEMMA SteadyKids == UNCHANGED child => Kids' = Kids
BY DEF Kids, Present

\* A command that fails.
LEMMA FailsInv == ASSUME ToolsInv, Fails PROVE ToolsInv'
<1>1. UNCHANGED <<child, quiet, seen>> /\ tool' = [NoTool EXCEPT !.cmd = tool.cmd, !.at = "failed"]
  BY DEF Fails, Goes
<1>2. tool.cmd \in {"none", "webget", "list", "export", "keys", "get", "set"}
  BY DEF ToolsInv, ToolTypeOK, Commands
<1>3. /\ tool'.at = "failed" /\ tool'.cmd = tool.cmd /\ tool'.out = <<>> /\ tool'.list = <<>>
      /\ tool'.i = 0 /\ tool' \in Commands
  <2>1. tool' \in Commands
    BY <1>1, <1>2, NoToolLemma DEF Commands
  <2> QED
    BY <1>1, <2>1 DEF NoTool
<1>4. Present(child) \subseteq seen' /\ seen' \in SUBSET (1..ChildCt) /\ quiet' \in BOOLEAN
  BY <1>1 DEF ToolsInv, SeenInv, ToolTypeOK
<1> QED
  BY <1>1, <1>3, <1>4, FreshInv

\* The commands begin.
LEMMA CommandBegins ==
    ASSUME ToolsInv, NEW cmd \in {"list", "export", "keys", "get", "set"}, NEW entries \in 0..ChildCt,
           Begin(cmd, entries)
    PROVE  ToolsInv'
<1>1. /\ UNCHANGED child /\ quiet' = TRUE /\ seen' = Present(child)
      /\ tool' = [NoTool EXCEPT !.cmd = cmd, !.at = IF cmd = "set" THEN "clear" ELSE "count",
                              !.size = entries]
  BY DEF Begin
<1>2. /\ tool'.at = (IF cmd = "set" THEN "clear" ELSE "count") /\ tool'.cmd = cmd
      /\ tool'.out = <<>> /\ tool'.list = <<>> /\ tool'.i = 0 /\ tool'.size = entries
      /\ tool' \in Commands
  <2>0. entries \in Nat
    BY ToolAssumption
  <2>1. tool' \in Commands
    BY <1>1, <2>0, NoToolLemma DEF Commands
  <2> QED
    BY <1>1, <2>1 DEF NoTool
<1>3. Present(child) \in SUBSET (1..ChildCt)
  BY DEF Present
<1>4. entries <= ChildCt
  BY ToolAssumption
<1> QED
  BY <1>1, <1>2, <1>3, <1>4, FreshInv

\* NR_reg_get_child_count.
LEMMA CountKeeps == ASSUME ToolsInv, Count PROVE ToolsInv'
<1> DEFINE to == IF Kids = <<>> THEN "done"
                 ELSE CASE tool.cmd = "keys" -> "check" [] tool.cmd = "get" -> "child"
                        [] OTHER -> "children"
<1>1. CASE Fails
  BY <1>1, FailsInv
<1>2. CASE Goes([tool EXCEPT !.size = Len(Kids), !.at = to])
  <2>0. /\ tool \in Commands /\ Kids \in Seq(1..ChildCt) /\ tool.at = "count" /\ Kids' = Kids
        /\ tool.cmd \in {"list", "export", "keys", "get"}
        /\ tool.i = 0 /\ tool.out = <<>> /\ tool.list = <<>>
    BY <1>2, KidsLemma, SteadyKids DEF ToolsInv, ToolTypeOK, Count, StageInv, Goes
  <2>1. UNCHANGED <<child, quiet, seen>> /\ tool' = [tool EXCEPT !.size = Len(Kids), !.at = to]
    BY <1>2 DEF Goes
  <2>2. /\ to \in {"done", "check", "child", "children"}
        /\ to = "done" <=> Kids = <<>>
        /\ to = "check" => tool.cmd = "keys"
        /\ to = "child" => tool.cmd = "get"
        /\ to = "children" => tool.cmd \in {"list", "export"}
    <3>1. CASE Kids = <<>>
      BY <3>1
    <3>2. CASE Kids # <<>> /\ tool.cmd = "keys"
      BY <3>2
    <3>3. CASE Kids # <<>> /\ tool.cmd = "get"
      BY <3>3
    <3>4. CASE Kids # <<>> /\ tool.cmd \notin {"keys", "get"}
      BY <2>0, <3>4
    <3> QED
      BY <3>1, <3>2, <3>3, <3>4
  <2> HIDE DEF to
  <2>3. /\ tool'.at = to /\ tool'.size = Len(Kids) /\ tool'.cmd = tool.cmd /\ tool'.out = <<>>
        /\ tool'.list = <<>> /\ tool'.i = 0 /\ tool' \in Commands
    <3>1. Len(Kids) \in Nat
      BY <2>0
    <3>2. tool' \in Commands
      BY <2>0, <2>1, <2>2, <3>1 DEF Commands
    <3> QED
      BY <2>0, <2>1, <3>2 DEF Commands
  <2>4. Len(Kids) \in Nat /\ (Len(Kids) = 0 <=> Kids = <<>>)
    BY <2>0
  <2>5. ToolTypeOK'
    BY <2>1, <2>3 DEF ToolsInv, ToolTypeOK
  <2>6. SeenInv'
    BY <2>1, <2>2, <2>3 DEF ToolsInv, SeenInv, Ascending, Present
  <2>7. StageInv'
    <3>1. Lists(<<>>, <<>>, 0) /\ Len(<<>>) = 0
      BY DEF Lists
    <3> QED
      BY <2>0, <2>2, <2>3, <3>1 DEF StageInv
  <2>8. QuietInv'
    BY <2>0, <2>2, <2>3, <2>4 DEF QuietInv, Lists
  <2>9. TextInv'
    BY <2>3 DEF TextInv
  <2> QED
    BY <2>5, <2>6, <2>7, <2>8, <2>9 DEF ToolsInv
<1> QED
  BY <1>1, <1>2 DEF Count

\* NR_reg_get_children.
LEMMA ChildrenInv == ASSUME ToolsInv, Children PROVE ToolsInv'
<1>0. /\ tool \in Commands /\ Kids \in Seq(1..ChildCt) /\ tool.at = "children"
      /\ tool.cmd \in {"list", "export"}
      /\ tool.i = 0 /\ tool.out = <<>> /\ tool.list = <<>>
      /\ Ascending(Kids) /\ \A j \in 1..Len(Kids) : Kids[j] \in Present(child)
  BY KidsLemma DEF ToolsInv, ToolTypeOK, Children, StageInv
<1>1. Len(Kids) \in Nat /\ (Len(Kids) = 0 <=> Kids = <<>>) /\ DOMAIN Kids = 1..Len(Kids)
  BY <1>0
<1>2. \A j \in 1..Len(Kids) : Kids[j] \in seen /\ Kids[j] \in 1..ChildCt
  <2>1. Present(child) \subseteq seen /\ Present(child) \subseteq 1..ChildCt
    BY DEF ToolsInv, SeenInv, Present
  <2> QED
    BY <1>0, <2>1
<1>3. CASE Fails
  BY <1>3, FailsInv
<1>4. CASE /\ tool.cmd = "list"
           /\ Goes([tool EXCEPT !.at = "done", !.out = [j \in DOMAIN Kids |-> Line(Kids[j], "", "")]])
  <2> DEFINE o == [j \in DOMAIN Kids |-> Line(Kids[j], "", "")]
  <2>1. /\ UNCHANGED <<child, quiet, seen>> /\ Kids' = Kids
        /\ tool' = [tool EXCEPT !.at = "done", !.out = o]
    BY <1>4, SteadyKids DEF Goes
  <2>2. o \in Seq(Lines) /\ Len(o) = Len(Kids) /\ \A j \in 1..Len(Kids) : o[j].name = Kids[j]
    <3>1. \A j \in 1..Len(Kids) : Line(Kids[j], "", "") \in Lines /\ Line(Kids[j], "", "").name = Kids[j]
      BY <1>2 DEF Line, Lines, ToolTypes, ToolTexts
    <3>2. o = [j \in 1..Len(Kids) |-> Line(Kids[j], "", "")]
      BY <1>1
    <3> DEFINE c == Len(Kids)
               L(j) == Line(Kids[j], "", "")
    <3>3. c \in Nat /\ o = [j \in 1..c |-> L(j)] /\ \A j \in 1..c : L(j) \in Lines /\ L(j).name = Kids[j]
      BY <1>1, <3>1, <3>2
    <3> HIDE DEF c, L, o
    <3>4. o \in Seq(Lines) /\ Len(o) = c /\ \A j \in 1..c : o[j] = L(j)
      BY <3>3
    <3> QED
      BY <3>3, <3>4 DEF c
  <2> HIDE DEF o
  <2>3. /\ tool'.at = "done" /\ tool'.cmd = "list" /\ tool'.out = o /\ tool'.list = <<>>
        /\ tool' \in Commands
    BY <1>0, <1>4, <2>1, <2>2 DEF Commands
  <2>4. ToolTypeOK'
    BY <2>1, <2>3 DEF ToolsInv, ToolTypeOK
  <2>5. SeenInv'
    BY <1>2, <2>1, <2>2, <2>3 DEF ToolsInv, SeenInv, Ascending, Present
  <2>6. StageInv'
    BY <1>0, <2>2, <2>3 DEF StageInv, Ascending
  <2>7. QuietInv'
    BY <1>1, <2>1, <2>2, <2>3 DEF QuietInv, Lists
  <2>8. TextInv'
    BY <2>3 DEF TextInv
  <2> QED
    BY <2>4, <2>5, <2>6, <2>7, <2>8 DEF ToolsInv
<1>5. CASE /\ tool.cmd # "list"
           /\ Goes([tool EXCEPT !.list = Kids, !.size = Len(Kids),
                                !.at = IF Kids = <<>> THEN "done" ELSE "type"])
  <2>1. /\ UNCHANGED <<child, quiet, seen>> /\ Kids' = Kids
        /\ tool' = [tool EXCEPT !.list = Kids, !.size = Len(Kids),
                                !.at = IF Kids = <<>> THEN "done" ELSE "type"]
    BY <1>5, SteadyKids DEF Goes
  <2>2. /\ tool'.at = (IF Kids = <<>> THEN "done" ELSE "type") /\ tool'.cmd = "export"
        /\ tool'.out = <<>> /\ tool'.list = Kids /\ tool'.size = Len(Kids) /\ tool'.i = 0
        /\ tool' \in Commands
    <3>1. tool.cmd = "export" /\ (IF Kids = <<>> THEN "done" ELSE "type") \in {"done", "type"}
      BY <1>0, <1>5
    <3>2. tool' \in Commands
      BY <1>0, <1>1, <2>1, <3>1 DEF Commands
    <3> QED
      BY <1>0, <2>1, <3>1, <3>2 DEF Commands
  <2>3. ToolTypeOK'
    BY <2>1, <2>2 DEF ToolsInv, ToolTypeOK
  <2>4. SeenInv'
    BY <1>0, <1>2, <2>1, <2>2 DEF ToolsInv, SeenInv, Present
  <2>5. StageInv'
    BY <1>1, <2>2 DEF StageInv, Lists
  <2>6. QuietInv'
    BY <1>1, <2>1, <2>2 DEF QuietInv
  <2>7. TextInv'
    BY <2>2 DEF TextInv
  <2> QED
    BY <2>3, <2>4, <2>5, <2>6, <2>7 DEF ToolsInv
<1> QED
  BY <1>3, <1>4, <1>5 DEF Children

-----------------------------------------------------------------------------
\* The loop goes on at the step at, or ends.
LEMMA OnwardLemma ==
    ASSUME NEW t \in Commands, NEW at \in {"type", "child", "print", "set"}
    PROVE  /\ Onward(t, at) \in Commands
           /\ Onward(t, at).at = IF t.i + 1 < t.size THEN at ELSE "done"
           /\ Onward(t, at).i = t.i + 1
           /\ t.i + 1 < t.size => Onward(t, at).last = t.last
           /\ Onward(t, at).cmd = t.cmd /\ Onward(t, at).size = t.size
           /\ Onward(t, at).list = t.list /\ Onward(t, at).out = t.out
<1> DEFINE a == IF t.i + 1 < t.size THEN at ELSE "done"
           l == IF t.i + 1 < t.size THEN t.last ELSE 0
<1>1. t.i + 1 \in Nat /\ a \in {"type", "child", "print", "set", "done"} /\ l \in 0..ChildCt
  BY ToolAssumption DEF Commands
<1>2. Onward(t, at) = [t EXCEPT !.at = a, !.i = t.i + 1, !.last = l]
  BY DEF Onward, Commands
<1>3. t.i + 1 < t.size => l = t.last
  OBVIOUS
<1> HIDE DEF a, l
<1>4. Onward(t, at) \in Commands
  BY <1>1, <1>2 DEF Commands
<1> QED
  BY <1>2, <1>3, <1>4 DEF Commands, a

\* An entry of a sequence.
LEMMA EntryLemma == ASSUME NEW S, NEW s \in Seq(S), NEW k \in 1..Len(s) PROVE s[k] \in S
OBVIOUS

\* The entries of a sequence that has got one more.
Longer(a, o, x) ==
    \A j \in 1..Len(a) : (j \in 1..Len(o) /\ a[j] = o[j]) \/ (j = Len(o) + 1 /\ a[j] = x)

\* Printing a line makes the output longer by it.
LEMMA LongerLemma ==
    ASSUME NEW S, NEW o \in Seq(S), NEW x \in S
    PROVE  Append(o, x) \in Seq(S) /\ Longer(Append(o, x), o, x)
<1>1. Append(o, x) \in Seq(S) /\ Len(o) \in Nat /\ Len(Append(o, x)) = Len(o) + 1
  OBVIOUS
<1>2. \A j \in 1..(Len(o) + 1) : j \in 1..Len(o) \/ j = Len(o) + 1
  BY <1>1
<1>3. (\A j \in 1..Len(o) : Append(o, x)[j] = o[j]) /\ Append(o, x)[Len(o) + 1] = x
  OBVIOUS
<1>4. Longer(Append(o, x), o, x)
  <2> SUFFICES ASSUME NEW j \in 1..Len(Append(o, x))
               PROVE  \/ j \in 1..Len(o) /\ Append(o, x)[j] = o[j]
                      \/ j = Len(o) + 1 /\ Append(o, x)[j] = x
    BY Zenon DEF Longer
  <2>1. j \in 1..Len(o) \/ j = Len(o) + 1
    BY <1>1, <1>2
  <2> QED
    BY <1>3, <2>1, Zenon
<1> QED
  BY <1>1, <1>4

\* The last number of a loop.
LEMMA LastLemma == ASSUME NEW i \in Nat, NEW s \in Nat, i < s, ~(i + 1 < s) PROVE i + 1 = s
OBVIOUS

\* One more name.
LEMMA ListsAppend ==
    ASSUME NEW o \in Seq(Lines), NEW x \in Lines, NEW s \in Seq(1..ChildCt), NEW m \in Nat,
           Lists(o, s, m), m < Len(s), x.name = s[m + 1]
    PROVE  Lists(Append(o, x), s, m + 1)
<1>1. Len(o) = m /\ \A j \in 1..m : o[j].name = s[j]
  BY DEF Lists
<1>2. Len(Append(o, x)) = m + 1 /\ Append(o, x)[m + 1] = x /\ \A j \in 1..m : Append(o, x)[j] = o[j]
  BY <1>1
<1>3. ASSUME NEW j \in 1..(m + 1) PROVE Append(o, x)[j].name = s[j]
  <2>1. CASE j \in 1..m
    BY <1>1, <1>2, <2>1
  <2>2. CASE j = m + 1
    BY <1>2, <2>2
  <2>3. j \in 1..m \/ j = m + 1
    OBVIOUS
  <2> QED
    BY <2>1, <2>2, <2>3
<1>4. m + 1 <= Len(s)
  OBVIOUS
<1> QED
  BY <1>2, <1>3, <1>4 DEF Lists

\* nrregctl_dump, for one name: NR_reg_get_type.
LEMMA DumpTypeInv == ASSUME ToolsInv, DumpType PROVE ToolsInv'
<1> DEFINE n == tool.list[tool.i + 1]
           x == Line(n, child[n].type, "")
<1>0. /\ tool \in Commands /\ tool.at = "type" /\ tool.cmd = "export" /\ tool.size = Len(tool.list)
      /\ tool.i < tool.size /\ Lists(tool.out, tool.list, tool.i)
      /\ child \in [1..ChildCt -> ToolValues \cup {Gone}]
  BY DEF ToolsInv, ToolTypeOK, DumpType, StageInv
<1>1. tool.list \in Seq(1..ChildCt) /\ tool.out \in Seq(Lines) /\ tool.i \in Nat /\ tool.size \in Nat
  BY <1>0 DEF Commands
<1>2. tool.i + 1 \in 1..Len(tool.list) /\ n \in 1..ChildCt
  <2>1. tool.i + 1 \in 1..Len(tool.list)
    BY <1>0, <1>1
  <2> QED
    BY <1>1, <2>1, EntryLemma
<1>3. CASE Fails
  BY <1>3, FailsInv
<1>4. CASE /\ child[n] # Gone
           /\ Goes([tool EXCEPT !.at = "value", !.out = Append(@, x)])
  <2>1. /\ UNCHANGED <<child, quiet, seen>> /\ Kids' = Kids
        /\ tool' = [tool EXCEPT !.at = "value", !.out = Append(tool.out, x)]
    BY <1>4, SteadyKids DEF Goes
  <2>2. child[n] \in ToolValues
    BY <1>0, <1>2, <1>4
  <2>3. x \in Lines /\ x.name = n /\ x.type = child[n].type
    BY <1>2, <2>2, ValueLemma DEF Line, Lines, ToolTexts
  <2>4. n \in seen
    BY <1>2 DEF ToolsInv, SeenInv
  <2> DEFINE i == tool.i
             list == tool.list
             out == tool.out
             o == Append(out, x)
  <2>5. Lists(o, list, i + 1)
    <3>1. out \in Seq(Lines) /\ list \in Seq(1..ChildCt) /\ i \in Nat /\ Lists(out, list, i) /\ i < Len(list)
          /\ x.name = list[i + 1]
      BY <1>0, <1>1, <2>3
    <3> HIDE DEF x, i, list, out, n
    <3> QED
      BY <3>1, <2>3, ListsAppend
  <2>6. /\ Len(out) = i /\ Len(o) = i + 1 /\ o[i + 1] = x /\ o \in Seq(Lines)
        /\ \A j \in 1..i : o[j] = out[j]
    <3>1. Len(out) = i /\ i \in Nat /\ out \in Seq(Lines)
      BY <1>0, <1>1 DEF Lists
    <3> HIDE DEF x, i, list, out, n
    <3> QED
      BY <2>3, <3>1
  <2> HIDE DEF x, o, n
  <2>7. /\ tool'.at = "value" /\ tool'.cmd = "export" /\ tool'.size = tool.size /\ tool'.i = i
        /\ tool'.list = list /\ tool'.out = o /\ tool' \in Commands
    <3>1. tool' = [tool EXCEPT !.at = "value", !.out = o]
      BY <2>1 DEF o
    <3>2. tool' \in Commands
      BY <1>0, <2>6, <3>1 DEF Commands
    <3> QED
      BY <1>0, <3>1, <3>2 DEF Commands
  <2>8. ToolTypeOK'
    BY <2>1, <2>7 DEF ToolsInv, ToolTypeOK
  <2>9. ASSUME NEW j \in 1..Len(o)
        PROVE  (j \in 1..Len(out) /\ o[j] = out[j]) \/ (j = i + 1 /\ o[j] = x)
    <3>1. out \in Seq(Lines)
      BY <1>1
    <3> HIDE DEF out, i
    <3>2. Longer(o, out, x)
      BY <2>3, <3>1, LongerLemma DEF o
    <3>3. \A k \in 1..Len(o) : (k \in 1..Len(out) /\ o[k] = out[k]) \/ (k = i + 1 /\ o[k] = x)
      BY <2>6, <3>2, Zenon DEF Longer
    <3> QED
      BY <3>3
  <2>10. SeenInv'
    <3>1. \A j \in 1..Len(o) : o[j].name \in seen
      BY <2>3, <2>4, <2>9 DEF ToolsInv, SeenInv
    <3> QED
      BY <2>1, <2>7, <3>1 DEF ToolsInv, SeenInv, Present
  <2>11. StageInv'
    BY <1>0, <2>5, <2>7 DEF StageInv
  <2>12. QuietInv'
    BY <1>0, <2>1, <2>7 DEF ToolsInv, QuietInv
  <2>13. TextInv'
    <3> SUFFICES ASSUME quiet, NEW j \in 1..Len(o)
                 PROVE  /\ child[o[j].name] \in ToolValues /\ o[j].type = child[o[j].name].type
                        /\ j < Len(o) => o[j].text = Shown(child[o[j].name])
      BY <2>1, <2>7 DEF TextInv
    <3>1. CASE j \in 1..Len(out) /\ o[j] = out[j]
      BY <1>0, <3>1 DEF ToolsInv, TextInv
    <3>2. CASE j = i + 1 /\ o[j] = x
      BY <1>1, <2>2, <2>3, <2>6, <3>2
    <3> QED
      BY <2>9, <3>1, <3>2
  <2> QED
    BY <2>8, <2>10, <2>11, <2>12, <2>13 DEF ToolsInv
<1> QED
  BY <1>3, <1>4 DEF DumpType

\* nrregctl_read.
LEMMA DumpValueInv == ASSUME ToolsInv, DumpValue PROVE ToolsInv'
<1> DEFINE n == tool.list[tool.i + 1]
           i == tool.i
           list == tool.list
           out == tool.out
           x == Line(out[Len(out)].name, out[Len(out)].type, Shown(child[n]))
           o == [out EXCEPT ![Len(out)] = x]
<1>0. /\ tool \in Commands /\ tool.at = "value" /\ tool.cmd = "export" /\ tool.size = Len(list)
      /\ i < tool.size /\ Lists(out, list, i + 1)
      /\ child \in [1..ChildCt -> ToolValues \cup {Gone}]
  BY DEF ToolsInv, ToolTypeOK, DumpValue, StageInv
<1>1. list \in Seq(1..ChildCt) /\ out \in Seq(Lines) /\ i \in Nat /\ tool.size \in Nat
  BY <1>0 DEF Commands
<1>2. i + 1 \in 1..Len(list) /\ n \in 1..ChildCt /\ Len(out) = i + 1 /\ out[i + 1].name = n
  <2>1. i + 1 \in 1..Len(list)
    BY <1>0, <1>1
  <2>2. n \in 1..ChildCt
    BY <1>1, <2>1, EntryLemma
  <2>3. i + 1 \in 1..(i + 1)
    BY <1>1
  <2> QED
    BY <1>0, <2>1, <2>2, <2>3 DEF Lists
<1>3. CASE Fails
  BY <1>3, FailsInv
<1>4. CASE /\ child[n] # Gone
           /\ Goes(Onward([tool EXCEPT !.out = o], "type"))
  <2> DEFINE t == [tool EXCEPT !.out = o]
  <2>1. UNCHANGED <<child, quiet, seen>> /\ Kids' = Kids /\ tool' = Onward(t, "type")
    BY <1>4, SteadyKids DEF Goes
  <2>2. child[n] \in ToolValues
    BY <1>0, <1>2, <1>4
  <2>3. x \in Lines /\ x.name = n /\ x.type = out[i + 1].type /\ x.text = Shown(child[n])
    <3>1. out[i + 1] \in Lines
      BY <1>1, <1>2
    <3> QED
      BY <1>2, <2>2, <3>1, ValueLemma DEF Line, Lines
  <2>4. /\ o \in Seq(Lines) /\ Len(o) = i + 1 /\ o[i + 1] = x
        /\ \A j \in 1..(i + 1) : j # i + 1 => o[j] = out[j]
    <3> HIDE DEF x, i, out
    <3> QED
      BY <1>1, <1>2, <2>3
  <2> HIDE DEF x, o, n
  <2>5. t \in Commands /\ t.i = i /\ t.size = tool.size /\ t.list = list /\ t.out = o /\ t.cmd = "export"
    BY <1>0, <2>4 DEF Commands
  <2> HIDE DEF t
  <2>6. /\ tool' \in Commands /\ tool'.at = (IF i + 1 < tool.size THEN "type" ELSE "done")
        /\ tool'.i = i + 1 /\ tool'.cmd = "export" /\ tool'.size = tool.size /\ tool'.list = list
        /\ tool'.out = o
    BY <2>1, <2>5, OnwardLemma
  <2>7. ASSUME NEW j \in 1..Len(o) PROVE j \in 1..Len(out) /\ o[j].name = out[j].name /\ o[j].type = out[j].type
    <3>1. CASE j = i + 1
      BY <1>2, <2>3, <2>4, <3>1
    <3>2. CASE j # i + 1
      BY <1>2, <2>4, <3>2
    <3> QED
      BY <3>1, <3>2
  <2>8. Lists(o, list, i + 1)
    BY <1>0, <1>2, <2>4, <2>7 DEF Lists
  <2>9. i + 1 < tool.size \/ i + 1 = Len(list)
    BY <1>0, <1>1
  <2>10. ToolTypeOK'
    BY <2>1, <2>6 DEF ToolsInv, ToolTypeOK
  <2>11. SeenInv'
    <3>1. \A j \in 1..Len(o) : o[j].name \in seen
      BY <2>7 DEF ToolsInv, SeenInv
    <3> QED
      BY <2>1, <2>6, <3>1 DEF ToolsInv, SeenInv, Present
  <2>12. StageInv'
    BY <1>0, <2>6, <2>8, <2>9 DEF StageInv
  <2>13. QuietInv'
    BY <1>0, <2>1, <2>6 DEF ToolsInv, QuietInv
  <2>14. TextInv'
    <3> SUFFICES ASSUME quiet, NEW j \in 1..Len(o)
                 PROVE  /\ child[o[j].name] \in ToolValues /\ o[j].type = child[o[j].name].type
                        /\ o[j].text = Shown(child[o[j].name])
      BY <2>1, <2>6 DEF TextInv
    <3>0. child[out[j].name] \in ToolValues /\ out[j].type = child[out[j].name].type
          /\ (j < Len(out) => out[j].text = Shown(child[out[j].name]))
      BY <1>0, <2>7 DEF ToolsInv, TextInv
    <3>1. CASE j = i + 1
      BY <2>2, <2>3, <2>4, <2>7, <3>0, <3>1
    <3>2. CASE j # i + 1
      <4>0. j \in 1..(i + 1) /\ Len(out) = i + 1 /\ i \in Nat
        BY <1>1, <1>2, <2>4
      <4>1. j < Len(out) /\ o[j] = out[j]
        <5>1. j < i + 1
          BY <3>2, <4>0
        <5>2. o[j] = out[j]
          BY <2>4, <3>2, <4>0
        <5> QED
          BY <4>0, <5>1, <5>2
      <4> QED
        BY <3>0, <4>1
    <3> QED
      BY <3>1, <3>2
  <2> QED
    BY <2>10, <2>11, <2>12, <2>13, <2>14 DEF ToolsInv
<1> QED
  BY <1>3, <1>4 DEF DumpValue

\* nr_c2ru_get_children, for one number: NR_reg_get_child.
LEMMA GetChildInv == ASSUME ToolsInv, GetChild PROVE ToolsInv'
<1>0. /\ tool \in Commands /\ Kids \in Seq(1..ChildCt) /\ tool.at = "child" /\ tool.cmd = "get"
      /\ \A j \in 1..Len(Kids) : Kids[j] \in Present(child)
  BY KidsLemma DEF ToolsInv, ToolTypeOK, GetChild, StageInv
<1>1. UNCHANGED <<child, quiet, seen>> /\ Kids' = Kids
  BY SteadyKids DEF GetChild, Goes
<1>2. tool.i \in Nat /\ tool.size \in Nat /\ Len(Kids) \in Nat
  BY <1>0 DEF Commands
<1>3. CASE tool.i < Len(Kids)
  <2>1. tool.i + 1 \in 1..Len(Kids)
    BY <1>2, <1>3
  <2>2. Kids[tool.i + 1] \in Present(child) /\ Present(child) \subseteq seen /\ Present(child) \subseteq 1..ChildCt
    BY <1>0, <2>1 DEF ToolsInv, SeenInv, Present
  <2>3. PICK n \in 1..ChildCt : n = Kids[tool.i + 1] /\ n \in seen
    BY <2>2
  <2>4. tool' = [tool EXCEPT !.at = "entry", !.last = n]
    BY <1>3, <2>3 DEF GetChild, Goes
  <2>5. tool' \in Commands
    <3>1. n \in 0..ChildCt
      BY ToolAssumption
    <3> QED
      BY <1>0, <2>4, <3>1 DEF Commands
  <2>6. /\ tool'.at = "entry" /\ tool'.last = n /\ tool'.cmd = "get" /\ tool'.size = tool.size
        /\ tool'.i = tool.i /\ tool'.list = tool.list /\ tool'.out = tool.out
    BY <1>0, <2>4, <2>5 DEF Commands
  <2>7. ToolTypeOK'
    BY <1>1, <2>5 DEF ToolsInv, ToolTypeOK
  <2>8. SeenInv'
    BY <1>1, <2>3, <2>6 DEF ToolsInv, SeenInv, Present
  <2>9. StageInv'
    BY <2>6 DEF StageInv
  <2>10. QuietInv'
    BY <1>0, <1>1, <2>3, <2>6 DEF ToolsInv, QuietInv
  <2>11. TextInv'
    BY <2>6 DEF TextInv
  <2> QED
    BY <2>7, <2>8, <2>9, <2>10, <2>11 DEF ToolsInv
<1>4. CASE ~(tool.i < Len(Kids))
  <2>1. tool' = Onward(tool, "child")
    BY <1>4 DEF GetChild, Goes
  <2>2. /\ tool' \in Commands /\ tool'.at \in {"child", "done"} /\ tool'.cmd = "get"
        /\ tool'.list = tool.list /\ tool'.out = tool.out
    BY <1>0, <2>1, OnwardLemma
  <2>3. ~quiet
    BY <1>0, <1>2, <1>4 DEF ToolsInv, QuietInv
  <2>4. ToolTypeOK'
    BY <1>1, <2>2 DEF ToolsInv, ToolTypeOK
  <2>5. SeenInv'
    BY <1>1, <2>2 DEF ToolsInv, SeenInv, Present
  <2>6. StageInv'
    BY <2>2 DEF StageInv
  <2>7. QuietInv' /\ TextInv'
    BY <1>1, <2>3 DEF QuietInv, TextInv
  <2> QED
    BY <2>4, <2>5, <2>6, <2>7 DEF ToolsInv
<1> QED
  BY <1>3, <1>4

\* A loop that prints one name and goes on.
LEMMA PrintedInv ==
    ASSUME ToolsInv, UNCHANGED <<child, quiet, seen>>, NEW n \in 1..ChildCt, n \in seen,
           NEW at \in {"child", "print"}, tool.cmd = (IF at = "child" THEN "get" ELSE "keys"),
           tool' \in Commands, tool'.at = (IF tool.i + 1 < tool.size THEN at ELSE "done"),
           tool'.i = tool.i + 1, tool'.size = tool.size, tool'.cmd = tool.cmd,
           tool'.list = tool.list, tool'.out = Append(tool.out, Line(n, "", "")),
           at = "print" /\ tool.i + 1 < tool.size => tool'.last = n,
           quiet => /\ tool.size = Len(Kids) /\ tool.i < tool.size
                    /\ Lists(tool.out, Kids, tool.i) /\ n = Kids[tool.i + 1]
    PROVE  ToolsInv'
<1>1. PICK out, o, i, x : out = tool.out /\ o = tool'.out /\ i = tool.i /\ x = Line(n, "", "")
  OBVIOUS
<1>2. /\ out \in Seq(Lines) /\ i \in Nat /\ tool.size \in Nat /\ Kids \in Seq(1..ChildCt) /\ Kids' = Kids
  BY <1>1, KidsLemma, SteadyKids DEF ToolsInv, ToolTypeOK, Commands
<1>3. x \in Lines /\ x.name = n
  BY <1>1 DEF Line, Lines, ToolTypes, ToolTexts
<1>4. o = Append(out, x)
  BY <1>1
<1>5. quiet => Lists(o, Kids, i + 1)
  <2> SUFFICES ASSUME quiet PROVE Lists(o, Kids, i + 1)
    OBVIOUS
  <2>1. Lists(out, Kids, i) /\ i < Len(Kids) /\ x.name = Kids[i + 1]
    BY <1>1, <1>3
  <2> QED
    BY <1>2, <1>3, <1>4, <2>1, ListsAppend
<1>6. \A j \in 1..Len(o) : o[j].name \in seen
  <2>1. \A k \in 1..Len(out) : out[k].name \in seen
    BY <1>1 DEF ToolsInv, SeenInv
  <2>2. \A j \in 1..Len(o) : (j \in 1..Len(out) /\ o[j] = out[j]) \/ (j = Len(out) + 1 /\ o[j] = x)
    <3>1. Longer(o, out, x)
      BY <1>2, <1>3, <1>4, LongerLemma
    <3> QED
      BY <3>1, Zenon DEF Longer
  <2> QED
    BY <1>3, <2>1, <2>2
<1>7. ToolTypeOK'
  BY DEF ToolsInv, ToolTypeOK
<1>8. SeenInv'
  BY <1>1, <1>6 DEF ToolsInv, SeenInv, Present
<1>9. StageInv'
  BY DEF StageInv
<1>10. QuietInv'
  <2> SUFFICES ASSUME quiet PROVE QuietInv'
    BY DEF QuietInv
  <2>1. tool.size = Len(Kids) /\ i < tool.size
    BY <1>1
  <2>2. CASE i + 1 < tool.size
    BY <1>1, <1>2, <1>5, <2>1, <2>2 DEF QuietInv
  <2>3. CASE ~(i + 1 < tool.size)
    <3>1. i + 1 = Len(Kids)
      <4>1. PICK s \in Nat : s = tool.size
        BY <1>2
      <4>2. i \in Nat /\ i < s /\ ~(i + 1 < s)
        BY <1>2, <2>1, <2>3, <4>1
      <4>3. i + 1 = s
        BY <4>2, LastLemma
      <4> QED
        BY <2>1, <4>1, <4>3
    <3> QED
      BY <1>1, <1>2, <1>5, <2>1, <2>3, <3>1 DEF QuietInv
  <2> QED
    BY <2>2, <2>3
<1>11. TextInv'
  BY DEF TextInv
<1> QED
  BY <1>7, <1>8, <1>9, <1>10, <1>11 DEF ToolsInv

\* nr_c2ru_get_children, for one number: the entry.
LEMMA GetEntryInv == ASSUME ToolsInv, GetEntry PROVE ToolsInv'
<1>0. /\ tool \in Commands /\ Kids \in Seq(1..ChildCt) /\ tool.at = "entry" /\ tool.cmd = "get"
      /\ tool.last \in seen /\ seen \subseteq 1..ChildCt
      /\ \A j \in 1..Len(Kids) : Kids[j] \in Present(child)
  BY KidsLemma DEF ToolsInv, ToolTypeOK, GetEntry, StageInv, SeenInv
<1>1. UNCHANGED <<child, quiet, seen>> /\ Kids' = Kids
  BY SteadyKids DEF GetEntry, Goes
<1>2. tool.i \in Nat /\ tool.size \in Nat /\ Len(Kids) \in Nat /\ tool.out \in Seq(Lines)
  BY <1>0 DEF Commands
<1>3. CASE child[tool.last] # Gone
  <2>1. tool' = Onward(Prints(tool.last), "child")
    BY <1>3 DEF GetEntry, Goes
  <2> DEFINE t == Prints(tool.last)
             x == Line(tool.last, "", "")
  <2>2. x \in Lines
    BY <1>0 DEF Line, Lines, ToolTypes, ToolTexts
  <2>3. t = [tool EXCEPT !.out = Append(tool.out, x)] /\ Append(tool.out, x) \in Seq(Lines)
    BY <1>2, <2>2, LongerLemma DEF Prints
  <2>4. t \in Commands
    BY <1>0, <2>3 DEF Commands
  <2>5. /\ t.out = Append(tool.out, x) /\ t.list = tool.list
        /\ t.i = tool.i /\ t.size = tool.size /\ t.cmd = tool.cmd
    BY <1>0, <2>3, <2>4 DEF Commands
  <2>6. quiet => /\ tool.size = Len(Kids) /\ tool.i < tool.size
                 /\ Lists(tool.out, Kids, tool.i) /\ tool.last = Kids[tool.i + 1]
    BY <1>0 DEF ToolsInv, QuietInv
  <2>7. tool.last \in 1..ChildCt /\ tool' = Onward(t, "child")
    BY <1>0, <2>1
  <2> HIDE DEF t, x
  <2>8. /\ tool' \in Commands /\ tool'.at = (IF tool.i + 1 < tool.size THEN "child" ELSE "done")
        /\ tool'.i = tool.i + 1 /\ tool'.size = tool.size /\ tool'.cmd = tool.cmd
        /\ tool'.list = tool.list /\ tool'.out = Append(tool.out, x)
    BY <2>4, <2>5, <2>7, OnwardLemma
  <2> QED
    BY <1>0, <1>1, <2>6, <2>7, <2>8, PrintedInv DEF x
<1>4. CASE child[tool.last] = Gone
  <2>1. tool' = Onward(tool, "child")
    BY <1>4 DEF GetEntry, Goes
  <2>2. /\ tool' \in Commands /\ tool'.at \in {"child", "done"} /\ tool'.cmd = "get"
        /\ tool'.list = tool.list /\ tool'.out = tool.out
    BY <1>0, <2>1, OnwardLemma
  <2>3. ~quiet
    <3> SUFFICES ASSUME quiet PROVE FALSE
      OBVIOUS
    <3>1. tool.size = Len(Kids) /\ tool.i < tool.size /\ tool.last = Kids[tool.i + 1]
      BY <1>0 DEF ToolsInv, QuietInv
    <3>2. tool.i + 1 \in 1..Len(Kids)
      BY <1>2, <3>1
    <3> QED
      BY <1>0, <1>4, <3>1, <3>2 DEF Present
  <2>4. ToolTypeOK'
    BY <1>1, <2>2 DEF ToolsInv, ToolTypeOK
  <2>5. SeenInv'
    BY <1>1, <2>2 DEF ToolsInv, SeenInv, Present
  <2>6. StageInv'
    BY <2>2 DEF StageInv
  <2>7. QuietInv' /\ TextInv'
    BY <1>1, <2>3 DEF QuietInv, TextInv
  <2> QED
    BY <2>4, <2>5, <2>6, <2>7 DEF ToolsInv
<1> QED
  BY <1>3, <1>4

\* process_getkeys_request, the first time.
LEMMA KeysCheckInv == ASSUME ToolsInv, KeysCheck PROVE ToolsInv'
<1>0. /\ tool \in Commands /\ Kids \in Seq(1..ChildCt) /\ tool.at = "check" /\ tool.cmd = "keys"
      /\ tool.out = <<>> /\ \A j \in 1..Len(Kids) : Kids[j] \in Present(child)
  BY KidsLemma DEF ToolsInv, ToolTypeOK, KeysCheck, StageInv
<1>1. CASE Fails
  BY <1>1, FailsInv
<1>2. CASE /\ ~(tool.i >= Len(Kids))
           /\ Goes([tool EXCEPT !.last = Kids[tool.i + 1],
                                !.at = IF tool.i + 1 < tool.size THEN "check" ELSE "print",
                                !.i = IF tool.i + 1 < tool.size THEN tool.i + 1 ELSE 0])
  <2>1. UNCHANGED <<child, quiet, seen>> /\ Kids' = Kids
    BY <1>2, SteadyKids DEF Goes
  <2>2. PICK i \in Nat, s \in Nat, c \in Nat : i = tool.i /\ s = tool.size /\ c = Len(Kids)
    BY <1>0 DEF Commands
  <2>3. i < c /\ i + 1 \in 1..c
    BY <1>2, <2>2
  <2>4. Kids[i + 1] \in Present(child) /\ Present(child) \subseteq seen /\ Present(child) \subseteq 1..ChildCt
    BY <1>0, <2>2, <2>3 DEF ToolsInv, SeenInv, Present
  <2>5. PICK n \in 1..ChildCt : n = Kids[i + 1] /\ n \in seen
    BY <2>4
  <2>6. PICK a \in {"check", "print"}, k \in Nat :
           /\ tool' = [tool EXCEPT !.last = n, !.at = a, !.i = k]
           /\ a = "check" => i + 1 < s /\ k = i + 1
           /\ a = "print" => k = 0
    <3>1. CASE i + 1 < s
      <4>1. tool' = [tool EXCEPT !.last = n, !.at = "check", !.i = i + 1]
        BY <1>2, <2>2, <2>5, <3>1 DEF Goes
      <4>2. i + 1 \in Nat /\ "check" \in {"check", "print"} /\ "check" # "print"
        OBVIOUS
      <4> QED
        BY <3>1, <4>1, <4>2
    <3>2. CASE ~(i + 1 < s)
      BY <1>2, <2>2, <2>5, <3>2 DEF Goes
    <3> QED
      BY <3>1, <3>2
  <2>7. tool' \in Commands
    <3>1. n \in 0..ChildCt
      BY ToolAssumption
    <3> QED
      BY <1>0, <2>6, <3>1 DEF Commands
  <2>8. /\ tool'.at = a /\ tool'.last = n /\ tool'.i = k /\ tool'.cmd = "keys"
        /\ tool'.size = s /\ tool'.list = tool.list /\ tool'.out = <<>>
    BY <1>0, <2>2, <2>6, <2>7 DEF Commands
  <2>9. ToolTypeOK'
    BY <2>1, <2>7 DEF ToolsInv, ToolTypeOK
  <2>10. SeenInv'
    BY <2>1, <2>5, <2>8 DEF ToolsInv, SeenInv, Present
  <2>11. StageInv'
    BY <2>8 DEF StageInv
  <2>12. QuietInv'
    <3> SUFFICES ASSUME quiet PROVE QuietInv'
      BY <2>1 DEF QuietInv
    <3>1. s = c
      BY <1>0, <2>2 DEF ToolsInv, QuietInv
    <3>2. k < s
      BY <2>3, <2>6, <3>1
    <3>3. Lists(<<>>, Kids, 0)
      BY <1>0 DEF Lists
    <3> QED
      BY <2>1, <2>2, <2>6, <2>8, <3>1, <3>2, <3>3 DEF QuietInv
  <2>13. TextInv'
    BY <2>8 DEF TextInv
  <2> QED
    BY <2>9, <2>10, <2>11, <2>12, <2>13 DEF ToolsInv
<1> QED
  BY <1>1, <1>2 DEF KeysCheck

\* process_getkeys_request, the second time.
LEMMA KeysPrintInv == ASSUME ToolsInv, KeysPrint PROVE ToolsInv'
<1>0. /\ tool \in Commands /\ Kids \in Seq(1..ChildCt) /\ tool.at = "print" /\ tool.cmd = "keys"
      /\ tool.last \in seen /\ seen \subseteq 1..ChildCt /\ Present(child) \subseteq seen
      /\ \A j \in 1..Len(Kids) : Kids[j] \in Present(child)
  BY KidsLemma DEF ToolsInv, ToolTypeOK, KeysPrint, StageInv, SeenInv
<1>1. tool.i \in Nat /\ tool.size \in Nat /\ Len(Kids) \in Nat /\ tool.out \in Seq(Lines)
  BY <1>0 DEF Commands
<1> DEFINE m == IF tool.i < Len(Kids) THEN Kids[tool.i + 1] ELSE tool.last
<1>2. m \in seen
  <2>1. CASE tool.i < Len(Kids)
    <3>1. tool.i + 1 \in 1..Len(Kids)
      BY <1>1, <2>1
    <3> QED
      BY <1>0, <2>1, <3>1
  <2>2. CASE ~(tool.i < Len(Kids))
    BY <1>0, <2>2
  <2> QED
    BY <2>1, <2>2
<1>3. quiet => /\ tool.size = Len(Kids) /\ tool.i < tool.size
               /\ Lists(tool.out, Kids, tool.i) /\ m = Kids[tool.i + 1]
  BY <1>0 DEF ToolsInv, QuietInv
<1>4. UNCHANGED <<child, quiet, seen>> /\ tool' = Onward([Prints(m) EXCEPT !.last = m], "print")
  BY DEF KeysPrint, Goes
<1> HIDE DEF m
<1>5. PICK n \in 1..ChildCt : n = m
  BY <1>0, <1>2
<1> DEFINE x == Line(n, "", "")
           t == [Prints(n) EXCEPT !.last = n]
<1>6. x \in Lines /\ n \in 0..ChildCt
  BY ToolAssumption DEF Line, Lines, ToolTypes, ToolTexts
<1>7. Prints(n) = [tool EXCEPT !.out = Append(tool.out, x)] /\ Append(tool.out, x) \in Seq(Lines)
  BY <1>1, <1>6, LongerLemma DEF Prints
<1>8. t \in Commands
  BY <1>0, <1>6, <1>7 DEF Commands
<1>9. /\ t.out = Append(tool.out, x) /\ t.list = tool.list /\ t.last = n
      /\ t.i = tool.i /\ t.size = tool.size /\ t.cmd = tool.cmd
  BY <1>0, <1>7, <1>8 DEF Commands
<1>10. tool' = Onward(t, "print")
  BY <1>4, <1>5
<1> HIDE DEF t, x
<1>11. /\ tool' \in Commands /\ tool'.at = (IF tool.i + 1 < tool.size THEN "print" ELSE "done")
       /\ tool'.i = tool.i + 1 /\ tool'.size = tool.size /\ tool'.cmd = tool.cmd
       /\ tool'.list = tool.list /\ tool'.out = Append(tool.out, x)
       /\ tool.i + 1 < tool.size => tool'.last = n
  BY <1>8, <1>9, <1>10, OnwardLemma
<1> QED
  BY <1>0, <1>2, <1>3, <1>4, <1>5, <1>11, PrintedInv DEF x

\* A GET request.
LEMMA WebGetInv == ASSUME ToolsInv, NEW n \in 1..ChildCt, WebGet(n) PROVE ToolsInv'
<1> DEFINE x == [name |-> n, type |-> child[n].type, text |-> WebShown(child[n])]
<1>1. /\ UNCHANGED child /\ quiet' = TRUE /\ seen' = Present(child) /\ child[n] # Gone
      /\ WebShown(child[n]) # "none"
      /\ tool' = [NoTool EXCEPT !.cmd = "webget", !.at = "done", !.out = <<x>>]
  BY DEF WebGet
<1>2. child[n] \in ToolValues
  BY <1>1 DEF ToolsInv, ToolTypeOK
<1>3. x \in Lines /\ x.name = n /\ x.type = child[n].type /\ x.text = WebShown(child[n])
  BY <1>2, ValueLemma DEF Lines
<1>4. n \in Present(child) /\ Present(child) \in SUBSET (1..ChildCt) /\ Present(child)' = Present(child)
  BY <1>1 DEF Present
<1> HIDE DEF x
<1>5. <<x>> \in Seq(Lines) /\ Len(<<x>>) = 1 /\ <<x>>[1] = x
  BY <1>3
<1>6. tool' \in Commands
  BY <1>1, <1>5, NoToolLemma DEF Commands
<1>7. tool'.at = "done" /\ tool'.cmd = "webget" /\ tool'.out = <<x>> /\ tool'.list = <<>>
  BY <1>1, <1>6, NoToolLemma DEF NoTool, Commands
<1>8. ToolTypeOK'
  BY <1>1, <1>4, <1>6 DEF ToolsInv, ToolTypeOK
<1>9. SeenInv'
  BY <1>1, <1>3, <1>4, <1>5, <1>7 DEF SeenInv, Ascending
<1>10. StageInv'
  BY <1>7 DEF StageInv
<1>11. QuietInv'
  BY <1>7 DEF QuietInv
<1>12. TextInv'
  <2> SUFFICES ASSUME NEW j \in 1..Len(<<x>>)
               PROVE  LET v == child[<<x>>[j].name]
                      IN  /\ v \in ToolValues /\ <<x>>[j].type = v.type
                          /\ <<x>>[j].text = WebShown(v) /\ WebShown(v) # "none"
    BY <1>1, <1>7 DEF TextInv
  <2>1. <<x>>[j] = x
    BY <1>5
  <2> QED
    BY <1>1, <1>2, <1>3, <2>1
<1> QED
  BY <1>8, <1>9, <1>10, <1>11, <1>12 DEF ToolsInv

-----------------------------------------------------------------------------
\* The invariant holds initially.
LEMMA InitToolsInv == ToolsInit => ToolsInv
<1> SUFFICES ASSUME ToolsInit PROVE ToolsInv
  OBVIOUS
<1>1. /\ child = [n \in 1..ChildCt |-> Gone] /\ tool = NoTool /\ quiet = TRUE /\ seen = {}
  BY DEF ToolsInit
<1>2. ToolTypeOK
  BY <1>1, NoToolLemma DEF ToolTypeOK
<1>3. tool.at = "start" /\ tool.cmd = "none" /\ tool.out = <<>> /\ tool.list = <<>>
  BY <1>1 DEF NoTool
<1>4. Present(child) = {}
  BY <1>1 DEF Present
<1>5. SeenInv
  BY <1>3, <1>4 DEF SeenInv, Ascending
<1>6. StageInv
  BY <1>3 DEF StageInv
<1>7. QuietInv /\ TextInv
  BY <1>3 DEF QuietInv, TextInv
<1> QED
  BY <1>2, <1>5, <1>6, <1>7 DEF ToolsInv

\* nr_c2ru_set_children.
LEMMA SetClearInv == ASSUME ToolsInv, SetClear PROVE ToolsInv'
<1>0. tool \in Commands /\ tool.cmd = "set" /\ tool.size <= ChildCt
  BY DEF ToolsInv, ToolTypeOK, SetClear, StageInv
<1>1. /\ UNCHANGED <<quiet, seen>> /\ child' = [n \in 1..ChildCt |-> Gone]
      /\ tool' = At_(IF tool.size = 0 THEN "done" ELSE "set", 0)
  BY DEF SetClear
<1>2. PICK a \in {"set", "done"} :
          /\ tool' = [tool EXCEPT !.at = a, !.i = 0]
          /\ a = "set" => tool.size # 0
  BY <1>1 DEF At_
<1>3. tool' \in Commands
  <2>1. 0 \in Nat
    OBVIOUS
  <2> QED
    BY <1>0, <1>2, <2>1 DEF Commands
<1>4. tool'.cmd = "set" /\ tool'.at = a /\ tool'.out = tool.out /\ tool'.list = tool.list
      /\ tool'.i = 0 /\ tool'.size = tool.size /\ (a = "set" => 0 < tool.size)
  <2>1. tool.size \in Nat
    BY <1>0 DEF Commands
  <2>2. a = "set" => 0 < tool.size
    BY <1>2, <2>1
  <2> QED
    BY <1>0, <1>2, <1>3, <2>2 DEF Commands
<1>5. Present(child') = {} /\ child' \in [1..ChildCt -> ToolValues \cup {Gone}]
  BY <1>1 DEF Present
<1>6. seen' \in SUBSET (1..ChildCt) /\ seen \subseteq seen'
  BY <1>1 DEF ToolsInv, ToolTypeOK
<1> QED
  BY <1>0, <1>1, <1>3, <1>4, <1>5, <1>6, SettingInv

\* "set" stores the next entry.
LEMMA SetEntryInv == ASSUME ToolsInv, NEW v \in ToolValues, SetEntry(v) PROVE ToolsInv'
<1>0. tool \in Commands /\ tool.cmd = "set" /\ tool.size <= ChildCt /\ tool.i < tool.size
  BY DEF ToolsInv, ToolTypeOK, SetEntry, StageInv
<1>4. tool.i + 1 \in 1..ChildCt
  BY <1>0, ToolAssumption DEF Commands
<1>1. /\ UNCHANGED quiet /\ Store(tool.i + 1, v) /\ tool' = Onward(tool, "set")
  BY DEF SetEntry
<1>2. /\ tool' \in Commands /\ tool'.at \in {"set", "done"} /\ tool'.cmd = "set"
      /\ tool'.out = tool.out /\ tool'.list = tool.list /\ tool'.size = tool.size
      /\ tool'.at = "set" => tool'.i < tool.size
  BY <1>0, <1>1, OnwardLemma
<1>3. /\ seen \subseteq seen' /\ seen' \in SUBSET (1..ChildCt)
      /\ child' \in [1..ChildCt -> ToolValues \cup {Gone}]
      /\ Present(child') \subseteq seen'
  BY <1>1, <1>4, StoreLemma
<1> QED
  BY <1>0, <1>1, <1>2, <1>3, SettingInv

\* Every step keeps the invariant.
LEMMA ToolsStep == ASSUME ToolsInv, [ToolsNext]_toolVars PROVE ToolsInv'
<1>1. ASSUME NEW cmd \in {"list", "export", "keys", "get"}, Begin(cmd, 0) PROVE ToolsInv'
  <2>1. 0 \in 0..ChildCt
    BY ToolAssumption
  <2> QED
    BY <1>1, <2>1, CommandBegins
<1>2. ASSUME NEW entries \in 0..ChildCt, Begin("set", entries) PROVE ToolsInv'
  BY <1>2, CommandBegins
<1>3. ASSUME Count PROVE ToolsInv'
  BY <1>3, CountKeeps
<1>4. ASSUME Children PROVE ToolsInv'
  BY <1>4, ChildrenInv
<1>5. ASSUME DumpType PROVE ToolsInv'
  BY <1>5, DumpTypeInv
<1>6. ASSUME DumpValue PROVE ToolsInv'
  BY <1>6, DumpValueInv
<1>7. ASSUME GetChild PROVE ToolsInv'
  BY <1>7, GetChildInv
<1>8. ASSUME GetEntry PROVE ToolsInv'
  BY <1>8, GetEntryInv
<1>9. ASSUME KeysCheck PROVE ToolsInv'
  BY <1>9, KeysCheckInv
<1>10. ASSUME KeysPrint PROVE ToolsInv'
  BY <1>10, KeysPrintInv
<1>11. ASSUME SetClear PROVE ToolsInv'
  BY <1>11, SetClearInv
<1>12. ASSUME NEW v \in ToolValues, SetEntry(v) PROVE ToolsInv'
  BY <1>12, SetEntryInv
<1>13. ASSUME NEW n \in 1..ChildCt, Remove(n) PROVE ToolsInv'
  <2>1. /\ UNCHANGED <<tool, seen>> /\ quiet' = FALSE /\ child' = [child EXCEPT ![n] = Gone]
    BY <1>13 DEF Remove
  <2>2. child \in [1..ChildCt -> ToolValues \cup {Gone}] /\ seen \in SUBSET (1..ChildCt) /\ Present(child) \subseteq seen
    BY DEF ToolsInv, ToolTypeOK, SeenInv
  <2>3. child' \in [1..ChildCt -> ToolValues \cup {Gone}] /\ Present(child') \subseteq seen
    BY <2>1, <2>2 DEF Present
  <2> QED
    BY <2>1, <2>2, <2>3, DisturbedInv
<1>14. ASSUME NEW n \in 1..ChildCt, WebGet(n) PROVE ToolsInv'
  BY <1>14, WebGetInv
<1>15. ASSUME NEW n \in 1..ChildCt, NEW v \in ToolValues, OtherSets(n, v) PROVE ToolsInv'
  BY <1>15, StoreLemma, DisturbedInv DEF OtherSets
<1>16. ASSUME NEW n \in 1..ChildCt, NEW t \in Types, NEW text \in Texts, CtlWrite(n, t, text)
       PROVE  ToolsInv'
  <2>1. PICK v \in ToolValues : Store(n, v)
    BY <1>16 DEF CtlWrite
  <2> QED
    BY <1>16, <2>1, StoreLemma, DisturbedInv DEF CtlWrite
<1>17. ASSUME NEW n \in 1..ChildCt, NEW t \in Types, NEW text \in Texts, WebPut(n, t, text)
       PROVE  ToolsInv'
  <2>1. CASE \E v \in ToolValues \cap WebParse(t, text) : Store(n, v) /\ quiet' = FALSE
    <3>1. PICK v \in ToolValues : Store(n, v) /\ quiet' = FALSE
      BY <2>1
    <3> QED
      BY <1>17, <3>1, StoreLemma, DisturbedInv DEF WebPut
  <2>2. CASE UNCHANGED <<child, tool, quiet, seen>>
    <3>1. Kids' = Kids
      BY <2>2, SteadyKids
    <3> QED
      BY <2>2, <3>1 DEF ToolsInv, ToolTypeOK, SeenInv, StageInv, QuietInv, TextInv, Present
  <2> QED
    BY <1>17, <2>1, <2>2 DEF WebPut
<1>18. ASSUME UNCHANGED toolVars PROVE ToolsInv'
  <2>1. UNCHANGED <<child, tool, quiet, seen>> /\ Kids' = Kids
    BY <1>18, SteadyKids DEF toolVars
  <2> QED
    BY <2>1 DEF ToolsInv, ToolTypeOK, SeenInv, StageInv, QuietInv, TextInv, Present
<1> QED
  BY <1>1, <1>2, <1>3, <1>4, <1>5, <1>6, <1>7, <1>8, <1>9, <1>10, <1>11, <1>12, <1>13, <1>14, <1>15,
     <1>16, <1>17, <1>18 DEF ToolsNext

\* The invariant of the tools.
THEOREM ToolsInvariant == ToolsSpec => []ToolsInv
<1> QED
  BY InitToolsInv, ToolsStep, PTL DEF ToolsSpec

\* What the invariant says about a listing that is complete.
LEMMA ListingsFromInv == ToolsInv => ListingsAgree
<1> SUFFICES ASSUME ToolsInv, tool.at = "done", tool.cmd \notin {"set", "webget"}
             PROVE  /\ \A j \in DOMAIN tool.out : tool.out[j].name \in seen
                    /\ tool.cmd \in {"list", "export"} =>
                          \A j, k \in DOMAIN tool.out : j < k => tool.out[j].name < tool.out[k].name
                    /\ quiet => [j \in DOMAIN tool.out |-> tool.out[j].name] = Kids
  BY DEF ListingsAgree
<1>1. /\ tool.out \in Seq(Lines) /\ tool.list \in Seq(1..ChildCt) /\ Kids \in Seq(1..ChildCt)
      /\ tool.cmd \in {"none", "list", "export", "keys", "get"}
  BY KidsLemma DEF ToolsInv, ToolTypeOK, Commands
<1>2. DOMAIN tool.out = 1..Len(tool.out)
  BY <1>1
<1>3. \A j \in DOMAIN tool.out : tool.out[j].name \in seen
  BY <1>2 DEF ToolsInv, SeenInv
<1>4. ASSUME tool.cmd = "export", NEW j \in 1..Len(tool.out), NEW k \in 1..Len(tool.out), j < k
      PROVE  tool.out[j].name < tool.out[k].name
  <2>1. Lists(tool.out, tool.list, Len(tool.list)) /\ Ascending(tool.list)
    BY <1>4 DEF ToolsInv, StageInv, SeenInv
  <2> QED
    BY <1>4, <2>1 DEF Lists, Ascending
<1>5. tool.cmd = "list" =>
          \A j, k \in 1..Len(tool.out) : j < k => tool.out[j].name < tool.out[k].name
  BY DEF ToolsInv, StageInv
<1>6. tool.cmd # "none"
  BY DEF ToolsInv, StageInv
<1>7. ASSUME quiet PROVE [j \in DOMAIN tool.out |-> tool.out[j].name] = Kids
  <2>1. Lists(tool.out, Kids, Len(Kids))
    BY <1>1, <1>6, <1>7 DEF ToolsInv, StageInv, QuietInv
  <2>2. Len(tool.out) = Len(Kids) /\ \A j \in 1..Len(Kids) : tool.out[j].name = Kids[j]
    BY <2>1 DEF Lists
  <2>3. Kids = [j \in 1..Len(Kids) |-> Kids[j]]
    BY <1>1
  <2> QED
    BY <1>2, <2>2, <2>3
<1> QED
  BY <1>2, <1>3, <1>4, <1>5, <1>7

\* A listing has what was there, in order, and when nobody else is at it, everything.
THEOREM ToolsList == ToolsSpec => []ListingsAgree
<1> QED
  BY ToolsInvariant, ListingsFromInv, PTL

\* What the invariant says about an export that is complete.
LEMMA ReplaysFromInv == ToolsInv => ExportReplays
<1> SUFFICES ASSUME ToolsInv, tool.at = "done", quiet, NEW j \in DOMAIN tool.out
             PROVE  LET line == tool.out[j]
                        v    == child[line.name]
                    IN  /\ tool.cmd = "export" /\ v \notin Lossy => Replayed(line) \cap ToolValues = {v}
                        /\ tool.cmd = "webget" /\ v \notin WebLossy => v \in WebParse(line.type, line.text)
  BY DEF ExportReplays
<1>1. j \in 1..Len(tool.out)
  BY DEF ToolsInv, ToolTypeOK, Commands
<1>2. PICK line, v : line = tool.out[j] /\ v = child[line.name]
  OBVIOUS
<1>3. ASSUME tool.cmd = "export", v \notin Lossy PROVE Replayed(line) \cap ToolValues = {v}
  <2>1. v \in ToolValues /\ line.type = v.type /\ line.text = Shown(v)
    BY <1>1, <1>2, <1>3 DEF ToolsInv, TextInv
  <2> QED
    BY <1>3, <2>1, ValueLemma DEF Replayed
<1>4. ASSUME tool.cmd = "webget", v \notin WebLossy PROVE v \in WebParse(line.type, line.text)
  <2>1. v \in ToolValues /\ line.type = v.type /\ line.text = WebShown(v) /\ WebShown(v) # "none"
    BY <1>1, <1>2, <1>4 DEF ToolsInv, TextInv
  <2> QED
    BY <1>4, <2>1, ValueLemma
<1> QED
  BY <1>2, <1>3, <1>4

\* What "nrregctl export" prints restores what it read, but for the values in Lossy.
THEOREM ToolsReplay == ToolsSpec => []ExportReplays
<1> QED
  BY ToolsInvariant, ReplaysFromInv, PTL

-----------------------------------------------------------------------------
(* Startup. *)
Plugins == DOMAIN HooksOf
HookNames == {"init", "register_logging", "register_stats"}
Stages == {"off", "registry", "services", "static", "load", "hooks", "done", "failed"}
AppRecords == [at : Stages, i : Nat, count : 0..DsoCt, type : 1..3, flags : FlagSets \cup {{}}, tries : Nat]

StartupTypeOK ==
    /\ app \in AppRecords
    /\ listed \in [0..(DsoCt - 1) -> Listings]
    /\ loaded \in Seq(Plugins)
    /\ called \in Seq(Plugins \X HookNames)

\* The call is the first one, and what it begins with.
First1 == app.tries = 1 /\ "plugin" \in app.flags
FirstInv ==
    /\ app.at = "off" <=> app.tries = 0
    /\ app.tries <= 1 /\ app.at \in {"off", "registry"} => regMode = "none"
    /\ app.tries <= 1 /\ app.at \in {"off", "registry", "services"} => loaded = <<>> /\ called = <<>>
    /\ app.tries = 1 /\ app.at \in {"services", "static", "load", "hooks", "done"} /\
          {"remote", "local"} \cap app.flags # {} => regOpen
    /\ app.at \in {"registry", "services", "static", "load"} => app.type = 1

\* The plugins whose hook of the jth type is to have been called.
Due(j) ==
    IF ~Requested(HookTypes[j]) THEN {}
    ELSE IF app.at = "done" \/ j < app.type THEN Having(HookTypes[j])
    ELSE IF j = app.type THEN {n \in Having(HookTypes[j]) : n <= app.i}
    ELSE {}

InitsFirst == \A j, k \in DOMAIN called : called[j][2] # "init" /\ j < k => called[k][2] # "init"

\* The hooks that were called so far.
CalledInv ==
    First1 /\ app.at \in {"static", "load", "hooks", "done"} =>
        /\ InOrder(CallsOf("init"), Callees, Having("init"), loaded)
        /\ InitsFirst
        /\ app.at \in {"static", "load"} => \A j \in DOMAIN called : called[j][2] = "init"
        /\ app.at \in {"hooks", "done"} =>
              \A j \in 1..2 : InOrder(CallsOf(HookTypes[j]), Callees, Due(j), loaded)

StaticsFirst == Len(loaded) >= Len(Statics) /\ \A j \in 1..Len(Statics) : loaded[j] = Statics[j]
NotAbsent == {n \in DOMAIN listed : listed[n] # "absent"}

\* The plugins that were loaded so far.
LoadedInv ==
    First1 =>
        /\ app.at = "static" => Len(loaded) = app.i /\ app.i <= Len(Statics) /\ \A j \in 1..app.i : loaded[j] = Statics[j]
        /\ app.at \in {"load", "hooks", "done"} => StaticsFirst
        /\ app.at = "load" => app.i <= app.count
        /\ app.at = "load" /\ steady =>
              /\ app.count = Cardinality(NotAbsent)
              /\ InOrder(Dynamics, loaded, {n \in ListedDsos : n < app.i}, listed)
        /\ app.at \in {"hooks", "done"} /\ steady /\ Gapless => InOrder(Dynamics, loaded, ListedDsos, listed)

StartupInv == StartupTypeOK /\ FirstInv /\ CalledInv /\ LoadedInv

-----------------------------------------------------------------------------
\* Nothing is in order.
LEMMA NoneInOrder == ASSUME NEW s, NEW u PROVE InOrder({}, s, {}, u)
<1> DEFINE f == [i \in {} |-> i]
<1>1. f \in [{} -> {}]
  OBVIOUS
<1> QED
  BY <1>1 DEF InOrder

\* What is in order stays so where the entries do not change.
LEMMA StillInOrder ==
    ASSUME NEW I, NEW s, NEW J, NEW u, NEW s1, NEW u1, InOrder(I, s, J, u),
           \A i \in I : s1[i] = s[i], \A j \in J : u1[j] = u[j]
    PROVE  InOrder(I, s1, J, u1)
<1>1. PICK f \in [I -> J] :
        /\ \A j \in J : \E i \in I : f[i] = j
        /\ \A i, k \in I : i < k => f[i] < f[k]
        /\ \A i \in I : s[i] = u[f[i]]
  BY DEF InOrder
<1>2. \A i \in I : s1[i] = u1[f[i]]
  BY <1>1
<1> QED
  BY <1>1, <1>2 DEF InOrder

\* One entry more on both sides.
LEMMA MoreInOrder ==
    ASSUME NEW I \in SUBSET Nat, NEW s, NEW J \in SUBSET Nat, NEW u, NEW s1, NEW u1, InOrder(I, s, J, u),
           \A i \in I : s1[i] = s[i], \A j \in J : u1[j] = u[j],
           NEW a \in Nat, NEW b \in Nat, \A i \in I : i < a, \A j \in J : j < b, s1[a] = u1[b]
    PROVE  InOrder(I \cup {a}, s1, J \cup {b}, u1)
<1>1. PICK f \in [I -> J] :
        /\ \A j \in J : \E i \in I : f[i] = j
        /\ \A i, k \in I : i < k => f[i] < f[k]
        /\ \A i \in I : s[i] = u[f[i]]
  BY DEF InOrder
<1>2. a \notin I /\ b \notin J
  OBVIOUS
<1> DEFINE g == [i \in I \cup {a} |-> IF i = a THEN b ELSE f[i]]
<1>3. g[a] = b /\ \A i \in I : g[i] = f[i]
  BY <1>2
<1>4. g \in [I \cup {a} -> J \cup {b}]
  BY <1>1, <1>2
<1> HIDE DEF g
<1>5. \A j \in J \cup {b} : \E i \in I \cup {a} : g[i] = j
  BY <1>1, <1>3
<1>6. \A i, k \in I \cup {a} : i < k => g[i] < g[k]
  <2> SUFFICES ASSUME NEW i \in I \cup {a}, NEW k \in I \cup {a}, i < k PROVE g[i] < g[k]
    OBVIOUS
  <2>1. i # a
    OBVIOUS
  <2>2. CASE k = a
    BY <1>1, <1>3, <2>1, <2>2
  <2>3. CASE k # a
    BY <1>1, <1>3, <2>1, <2>3
  <2> QED
    BY <2>2, <2>3
<1>7. \A i \in I \cup {a} : s1[i] = u1[g[i]]
  <2>1. \A i \in I : f[i] \in J
    BY <1>1
  <2>2. ASSUME NEW i \in I PROVE s1[i] = u1[g[i]]
    <3>1. g[i] = f[i] /\ f[i] \in J /\ s[i] = u[f[i]]
      BY <1>1, <1>3, <2>1
    <3>2. s1[i] = s[i] /\ u1[f[i]] = u[f[i]]
      BY <3>1
    <3> QED
      BY <3>1, <3>2
  <2> QED
    BY <1>3, <2>2
<1> QED
  BY <1>4, <1>5, <1>6, <1>7 DEF InOrder

\* Calling a hook.
LEMMA CallLemma ==
    ASSUME called \in Seq(Plugins \X HookNames), NEW p \in Plugins, NEW t \in HookNames,
           called' = Append(called, <<p, t>>)
    PROVE  /\ called' \in Seq(Plugins \X HookNames)
           /\ Len(called) + 1 \in Nat /\ DOMAIN called \subseteq Nat /\ \A j \in DOMAIN called : j < Len(called) + 1
           /\ DOMAIN called' = DOMAIN called \cup {Len(called) + 1}
           /\ \A j \in DOMAIN called : called'[j] = called[j] /\ Callees'[j] = Callees[j]
           /\ called'[Len(called) + 1] = <<p, t>> /\ Callees'[Len(called) + 1] = p
           /\ CallsOf(t)' = CallsOf(t) \cup {Len(called) + 1}
           /\ \A x : x # t => CallsOf(x)' = CallsOf(x)
<1>1. /\ called' \in Seq(Plugins \X HookNames)
      /\ Len(called) \in Nat /\ DOMAIN called = 1..Len(called) /\ DOMAIN called' = 1..(Len(called) + 1)
      /\ \A j \in DOMAIN called : called'[j] = called[j]
      /\ called'[Len(called) + 1] = <<p, t>>
  OBVIOUS
<1>2. DOMAIN called' = DOMAIN called \cup {Len(called) + 1} /\ Len(called) + 1 \notin DOMAIN called
  BY <1>1
<1>3. \A j \in DOMAIN called : Callees'[j] = Callees[j]
  BY <1>1, <1>2 DEF Callees
<1>4. Callees'[Len(called) + 1] = p
  BY <1>1, <1>2 DEF Callees
<1>5. <<p, t>>[2] = t
  OBVIOUS
<1>6. \A x : CallsOf(x)' = {j \in DOMAIN called : called[j][2] = x} \cup {j \in {Len(called) + 1} : t = x}
  BY <1>1, <1>2, <1>5 DEF CallsOf
<1> QED
  <2> HIDE DEF Callees
  <2>1. CallsOf(t)' = CallsOf(t) \cup {Len(called) + 1}
    BY <1>6 DEF CallsOf
  <2>2. \A x : x # t => CallsOf(x)' = CallsOf(x)
    BY <1>6 DEF CallsOf
  <2> QED
    BY <1>1, <1>2, <1>3, <1>4, <2>1, <2>2

\* Filling a slot.
LEMMA SlotLemma ==
    ASSUME loaded \in Seq(Plugins), NEW p \in Plugins, loaded' = Append(loaded, p)
    PROVE  /\ loaded' \in Seq(Plugins)
           /\ Len(loaded) \in Nat /\ DOMAIN loaded = 1..Len(loaded) /\ Len(loaded') = Len(loaded) + 1
           /\ DOMAIN loaded' = 1..(Len(loaded) + 1)
           /\ \A j \in DOMAIN loaded : loaded'[j] = loaded[j]
           /\ loaded'[Len(loaded) + 1] = p
           /\ \A t : Having(t)' = IF t \in HooksOf[p] THEN Having(t) \cup {Len(loaded) + 1} ELSE Having(t)
<1>1. /\ loaded' \in Seq(Plugins)
      /\ Len(loaded) \in Nat /\ DOMAIN loaded = 1..Len(loaded) /\ DOMAIN loaded' = 1..(Len(loaded) + 1)
      /\ \A j \in DOMAIN loaded : loaded'[j] = loaded[j]
      /\ loaded'[Len(loaded) + 1] = p /\ Len(loaded') = Len(loaded) + 1
  OBVIOUS
<1>2. DOMAIN loaded' = DOMAIN loaded \cup {Len(loaded) + 1}
  BY <1>1
<1>3. ASSUME NEW t
      PROVE  Having(t)' = IF t \in HooksOf[p] THEN Having(t) \cup {Len(loaded) + 1} ELSE Having(t)
  <2>1. Having(t)' = {j \in DOMAIN loaded : t \in HooksOf[loaded[j]]} \cup {j \in {Len(loaded) + 1} : t \in HooksOf[p]}
    BY <1>1, <1>2 DEF Having
  <2> QED
    BY <2>1 DEF Having
<1> QED
  BY <1>1, <1>3

\* The variables' types and the first call's beginnings depend on app alone.
LEMMA InitStartup == StartupInit => StartupInv
<1> SUFFICES ASSUME StartupInit PROVE StartupInv
  OBVIOUS
<1>1. StartupTypeOK
  <2>1. app \in AppRecords
    BY StartupAssumption DEF StartupInit, AppRecords, Stages
  <2> QED
    BY <2>1 DEF StartupInit, StartupTypeOK
<1>2. FirstInv /\ ~First1
  BY DEF StartupInit, FirstInv, First1
<1> QED
  BY <1>1, <1>2 DEF StartupInv, CalledInv, LoadedInv

-----------------------------------------------------------------------------
\* A step that only moves app on.
LEMMA AppGoesLemma ==
    ASSUME StartupTypeOK, NEW at \in Stages, AppGoes(at)
    PROVE  /\ app' \in AppRecords /\ app'.at = at /\ app'.i = 0
           /\ app'.count = app.count /\ app'.type = app.type /\ app'.flags = app.flags /\ app'.tries = app.tries
  BY DEF StartupTypeOK, AppGoes, AppRecords

\* nr_app_startup is called.
LEMMA BeginKeeps == ASSUME StartupInv, NEW flags \in FlagSets, AppBegin(flags) PROVE StartupInv'
<1>0. app \in AppRecords /\ app.tries \in Nat /\ "registry" \in Stages
  BY DEF StartupInv, StartupTypeOK, AppRecords, Stages
<1>1. /\ app' \in AppRecords /\ app'.at = "registry" /\ app'.i = 0 /\ app'.type = 1 /\ app'.tries = app.tries + 1
      /\ app.tries \in Nat
  <2>1. app' = [at |-> "registry", i |-> 0, count |-> app.count, type |-> 1, flags |-> flags, tries |-> app.tries + 1]
    BY <1>0 DEF AppBegin, AppRecords
  <2>2. app.count \in 0..DsoCt
    BY <1>0 DEF AppRecords
  <2> QED
    BY <1>0, <2>1, <2>2 DEF AppRecords
<1>2. StartupTypeOK'
  BY <1>1 DEF StartupInv, StartupTypeOK, AppBegin
<1>3. FirstInv'
  <2>1. app'.tries <= 1 => app.at = "off"
    BY <1>1 DEF StartupInv, FirstInv, AppBegin
  <2> QED
    BY <1>1, <2>1 DEF StartupInv, FirstInv, AppBegin
<1>4. CalledInv' /\ LoadedInv'
  BY <1>1 DEF CalledInv, LoadedInv
<1> QED
  BY <1>2, <1>3, <1>4 DEF StartupInv

\* The registry.
LEMMA RegistryInv == ASSUME StartupInv, AppRegistry PROVE StartupInv'
<1>1. PICK at \in {"services", "failed"} : AppGoes(at)
  BY DEF AppRegistry, OpenRegistry
<1>2. /\ app' \in AppRecords /\ app'.at = at
      /\ app'.type = app.type /\ app'.flags = app.flags /\ app'.tries = app.tries
  BY <1>1, AppGoesLemma DEF StartupInv, Stages
<1>3. StartupTypeOK'
  BY <1>2 DEF StartupInv, StartupTypeOK, AppRegistry
<1>4. app'.at = "services" /\ app'.tries = 1 /\ {"remote", "local"} \cap app'.flags # {} => regOpen'
  <2> SUFFICES ASSUME at = "services", app.tries = 1, {"remote", "local"} \cap app.flags # {} PROVE regOpen'
    BY <1>2
  <2>1. regMode = "none"
    BY DEF StartupInv, FirstInv, AppRegistry
  <2>2. ~AppGoes("failed")
    BY <1>2, AppGoesLemma DEF StartupInv, Stages
  <2>3. PICK mode \in {"remote", "local"} : OpenRegistry(mode)
    BY <2>2 DEF AppRegistry
  <2>4. PICK ok \in {TRUE, mode = "local"} : regOpen' = ok /\ AppGoes(IF ok THEN "services" ELSE "failed")
    BY <2>1, <2>3 DEF OpenRegistry
  <2>5. ok
    BY <2>2, <2>4
  <2> QED
    BY <2>4, <2>5, Zenon
<1>5. FirstInv'
  BY <1>2, <1>4 DEF StartupInv, FirstInv, AppRegistry
<1>6. CalledInv' /\ LoadedInv'
  BY <1>2 DEF CalledInv, LoadedInv
<1> QED
  BY <1>3, <1>5, <1>6 DEF StartupInv

\* Logging and statistics.
LEMMA ServicesInv == ASSUME StartupInv, AppServices PROVE StartupInv'
<1>1. PICK at \in {"static", "done", "failed"} : AppGoes(at) /\ (at = "done" => "plugin" \notin app.flags)
  BY DEF AppServices
<1>2. /\ app' \in AppRecords /\ app'.at = at /\ app'.i = 0
      /\ app'.type = app.type /\ app'.flags = app.flags /\ app'.tries = app.tries
  BY <1>1, AppGoesLemma DEF StartupInv, Stages
<1>3. StartupTypeOK'
  BY <1>2 DEF StartupInv, StartupTypeOK, AppServices
<1>5. FirstInv'
  BY <1>2 DEF StartupInv, FirstInv, AppServices
<1>6. First1' /\ app'.at \in {"static", "load", "hooks", "done"} => app'.at = "static" /\ loaded = <<>> /\ called = <<>>
  BY <1>1, <1>2 DEF First1, AppServices, StartupInv, FirstInv
<1>7. CalledInv'
  <2> SUFFICES ASSUME loaded' = <<>>, called' = <<>>, app'.at = "static"
               PROVE  /\ InOrder(CallsOf("init"), Callees, Having("init"), loaded)'
                      /\ InitsFirst' /\ \A j \in DOMAIN called' : called'[j][2] = "init"
    BY <1>6 DEF CalledInv, AppServices
  <2>1. DOMAIN called' = {} /\ DOMAIN loaded' = {}
    OBVIOUS
  <2>2. CallsOf("init")' = {} /\ Having("init")' = {}
    BY <2>1 DEF CallsOf, Having
  <2> QED
    BY <2>1, <2>2, NoneInOrder DEF InitsFirst
<1>8. LoadedInv'
  <2>1. First1' /\ app'.at = "static" => Len(loaded') = 0
    BY <1>6 DEF AppServices
  <2>2. Len(Statics) \in Nat
    BY StartupAssumption
  <2>3. \A j \in 1..0 : FALSE
    OBVIOUS
  <2> QED
    BY <1>2, <1>6, <2>1, <2>2, <2>3 DEF LoadedInv
<1> QED
  BY <1>3, <1>5, <1>7, <1>8 DEF StartupInv

-----------------------------------------------------------------------------
AllInits == \A j \in DOMAIN called : called[j][2] = "init"

\* nr_plugin_add: the new plugin is the last one, and its init hook the last call.
LEMMA AddLemma ==
    ASSUME StartupTypeOK, NEW p \in Plugins, AddPlugin(p)
    PROVE  /\ app' \in AppRecords /\ app'.i = app.i + 1 /\ app'.at = app.at
           /\ app'.count = app.count /\ app'.type = app.type /\ app'.flags = app.flags /\ app'.tries = app.tries
           /\ loaded' = Append(loaded, p)
           /\ loaded' \in Seq(Plugins) /\ called' \in Seq(Plugins \X HookNames)
           /\ AllInits => AllInits'
           /\ InOrder(CallsOf("init"), Callees, Having("init"), loaded)
                 => InOrder(CallsOf("init"), Callees, Having("init"), loaded)'
<1>1. /\ app' \in AppRecords /\ app'.i = app.i + 1 /\ app'.at = app.at
      /\ app'.count = app.count /\ app'.type = app.type /\ app'.flags = app.flags /\ app'.tries = app.tries
  <2>1. app \in AppRecords /\ app.i + 1 \in Nat
    BY DEF StartupTypeOK, AppRecords
  <2> QED
    BY <2>1 DEF AddPlugin, AppRecords
<1>2. /\ loaded' = Append(loaded, p)
      /\ called' = IF "init" \in HooksOf[p] THEN Append(called, <<p, "init">>) ELSE called
      /\ loaded \in Seq(Plugins) /\ called \in Seq(Plugins \X HookNames)
  BY DEF AddPlugin, StartupTypeOK
<1>3. /\ loaded' \in Seq(Plugins) /\ Len(loaded) \in Nat /\ DOMAIN loaded = 1..Len(loaded)
      /\ \A j \in DOMAIN loaded : loaded'[j] = loaded[j]
      /\ loaded'[Len(loaded) + 1] = p
      /\ Having("init")' = IF "init" \in HooksOf[p] THEN Having("init") \cup {Len(loaded) + 1} ELSE Having("init")
  BY <1>2, SlotLemma
<1>4. Having("init") \in SUBSET DOMAIN loaded
  BY DEF Having
<1>5. CASE "init" \in HooksOf[p]
  <2>1. called' = Append(called, <<p, "init">>) /\ "init" \in HookNames
    BY <1>2, <1>5 DEF HookNames
  <2>2. /\ called' \in Seq(Plugins \X HookNames)
        /\ Len(called) + 1 \in Nat /\ DOMAIN called \subseteq Nat /\ \A j \in DOMAIN called : j < Len(called) + 1
        /\ DOMAIN called' = DOMAIN called \cup {Len(called) + 1}
        /\ \A j \in DOMAIN called : called'[j] = called[j] /\ Callees'[j] = Callees[j]
        /\ called'[Len(called) + 1] = <<p, "init">> /\ Callees'[Len(called) + 1] = p
        /\ CallsOf("init")' = CallsOf("init") \cup {Len(called) + 1}
    BY <1>2, <2>1, CallLemma
  <2>3. AllInits => AllInits'
    <3>1. <<p, "init">>[2] = "init"
      OBVIOUS
    <3> QED
      BY <2>2, <3>1 DEF AllInits
  <2>4. CallsOf("init") \in SUBSET DOMAIN called
    BY DEF CallsOf
  <2>5. ASSUME InOrder(CallsOf("init"), Callees, Having("init"), loaded)
        PROVE  InOrder(CallsOf("init"), Callees, Having("init"), loaded)'
    <3> DEFINE I == CallsOf("init")
               J == Having("init")
               a == Len(called) + 1
               b == Len(loaded) + 1
    <3>1. I \in SUBSET Nat /\ J \in SUBSET Nat /\ a \in Nat /\ b \in Nat
      BY <1>3, <1>4, <2>2, <2>4
    <3>2. /\ \A i \in I : Callees'[i] = Callees[i] /\ i < a
          /\ \A j \in J : loaded'[j] = loaded[j] /\ j < b
          /\ Callees'[a] = loaded'[b]
      BY <1>3, <1>4, <2>2, <2>4
    <3>3. CallsOf("init")' = I \cup {a} /\ Having("init")' = J \cup {b}
      BY <1>3, <1>5, <2>2
    <3>4. InOrder(I, Callees, J, loaded)
      BY <2>5
    <3> HIDE DEF I, J, a, b
    <3> QED
      BY <3>1, <3>2, <3>3, <3>4, MoreInOrder
  <2> QED
    BY <1>1, <1>2, <1>3, <2>2, <2>3, <2>5
<1>6. CASE "init" \notin HooksOf[p]
  <2>1. called' = called /\ Having("init")' = Having("init")
    BY <1>2, <1>3, <1>6
  <2>2. CallsOf("init")' = CallsOf("init") /\ Callees' = Callees
    BY <2>1 DEF CallsOf, Callees
  <2>3. InOrder(CallsOf("init"), Callees, Having("init"), loaded)
           => InOrder(CallsOf("init"), Callees, Having("init"), loaded')
    BY <1>3, <1>4, StillInOrder
  <2>4. AllInits => AllInits'
    BY <2>1 DEF AllInits
  <2> QED
    BY <1>1, <1>2, <1>3, <2>1, <2>2, <2>3, <2>4
<1> QED
  BY <1>5, <1>6

\* When all calls are of init hooks, these come first.
LEMMA AllInitsLemma == AllInits => InitsFirst
  BY DEF AllInits, InitsFirst

\* A static plugin.
LEMMA StaticInv == ASSUME StartupInv, AppStatic PROVE StartupInv'
<1> DEFINE p == Statics[app.i + 1]
<1>1. /\ AddPlugin(p) /\ app.at = "static" /\ app.i \in Nat /\ app.i < Len(Statics) /\ Len(Statics) \in Nat
      /\ p \in Plugins /\ UNCHANGED <<regMode, regOpen, listed, steady>>
  <2>1. app.i \in Nat /\ Statics \in Seq(Plugins)
    BY StartupAssumption DEF StartupInv, StartupTypeOK, AppRecords, Plugins
  <2> QED
    BY <2>1 DEF AppStatic
<1> HIDE DEF p
<1>2. /\ app' \in AppRecords /\ app'.i = app.i + 1 /\ app'.at = app.at
      /\ app'.count = app.count /\ app'.type = app.type /\ app'.flags = app.flags /\ app'.tries = app.tries
      /\ loaded' = Append(loaded, p)
      /\ loaded' \in Seq(Plugins) /\ called' \in Seq(Plugins \X HookNames)
      /\ AllInits => AllInits'
      /\ InOrder(CallsOf("init"), Callees, Having("init"), loaded)
            => InOrder(CallsOf("init"), Callees, Having("init"), loaded)'
  BY <1>1, AddLemma DEF StartupInv
<1>3. StartupTypeOK'
  BY <1>1, <1>2 DEF StartupInv, StartupTypeOK
<1>4. FirstInv'
  BY <1>1, <1>2 DEF StartupInv, FirstInv
<1>5. CalledInv'
  <2> SUFFICES ASSUME First1' PROVE InOrder(CallsOf("init"), Callees, Having("init"), loaded)' /\ InitsFirst' /\ AllInits'
    BY <1>1, <1>2 DEF CalledInv, AllInits
  <2>1. First1
    BY <1>2 DEF First1
  <2>2. InOrder(CallsOf("init"), Callees, Having("init"), loaded) /\ AllInits
    BY <1>1, <2>1 DEF StartupInv, CalledInv, AllInits
  <2>3. AllInits' => InitsFirst'
    BY DEF AllInits, InitsFirst
  <2> QED
    BY <1>2, <2>2, <2>3
<1>6. LoadedInv'
  <2> SUFFICES ASSUME First1' PROVE Len(loaded') = app'.i /\ app'.i <= Len(Statics) /\ \A j \in 1..app'.i : loaded'[j] = Statics[j]
    BY <1>1, <1>2 DEF LoadedInv
  <2>1. First1 /\ loaded \in Seq(Plugins)
    BY <1>2 DEF First1, StartupInv, StartupTypeOK
  <2>2. Len(loaded) = app.i /\ \A j \in 1..app.i : loaded[j] = Statics[j]
    BY <1>1, <2>1 DEF StartupInv, LoadedInv
  <2>3. /\ DOMAIN loaded = 1..Len(loaded) /\ Len(loaded') = Len(loaded) + 1
        /\ \A j \in DOMAIN loaded : loaded'[j] = loaded[j]
        /\ loaded'[Len(loaded) + 1] = p
    BY <1>1, <1>2, <2>1, SlotLemma
  <2>4. \A j \in 1..(app.i + 1) : loaded'[j] = Statics[j]
    BY <1>1, <2>2, <2>3 DEF p
  <2> QED
    BY <1>1, <1>2, <2>2, <2>3, <2>4
<1> QED
  BY <1>3, <1>4, <1>5, <1>6 DEF StartupInv

\* The listed plugins are counted.
LEMMA CountInv == ASSUME StartupInv, AppCount PROVE StartupInv'
<1>1. NotAbsent \in SUBSET (0..(DsoCt - 1)) /\ DsoCt \in Nat
  BY StartupAssumption DEF NotAbsent, StartupInv, StartupTypeOK
<1>2. IsFiniteSet(0..(DsoCt - 1)) /\ Cardinality(0..(DsoCt - 1)) = DsoCt
  <2>1. 0 \in Int /\ DsoCt - 1 \in Int /\ (0 <= DsoCt - 1 \/ DsoCt = 0)
    BY <1>1
  <2> QED
    BY <1>1, <2>1, FS_Interval
<1>3. Cardinality(NotAbsent) \in 0..DsoCt
  <2>1. IsFiniteSet(NotAbsent) /\ Cardinality(NotAbsent) <= DsoCt
    BY <1>1, <1>2, FS_Subset
  <2> QED
    BY <1>1, <2>1, FS_CardinalityType
<1>4. PICK at \in {"load", "failed"} :
         app' = [app EXCEPT !.at = at, !.i = 0, !.count = Cardinality(NotAbsent)] /\ (at = "load" => regOpen)
  BY DEF AppCount, NotAbsent
<1>5. /\ app' \in AppRecords /\ app'.i = 0 /\ app'.at = at /\ app'.count = Cardinality(NotAbsent)
      /\ app'.type = app.type /\ app'.flags = app.flags /\ app'.tries = app.tries
  <2>1. app \in AppRecords
    BY DEF StartupInv, StartupTypeOK
  <2> DEFINE c == Cardinality(NotAbsent)
  <2>2. app' = [app EXCEPT !.at = at, !.i = 0, !.count = c] /\ c \in 0..DsoCt /\ at \in Stages
    BY <1>3, <1>4 DEF Stages
  <2> HIDE DEF c
  <2>3. app' \in AppRecords
    BY <2>1, <2>2 DEF AppRecords
  <2> QED
    BY <2>1, <2>2, <2>3 DEF AppRecords, c
<1>6. StartupTypeOK'
  BY <1>5 DEF StartupInv, StartupTypeOK, AppCount
<1>7. FirstInv'
  BY <1>5 DEF StartupInv, FirstInv, AppCount
<1>8. CalledInv'
  <2> SUFFICES ASSUME First1' PROVE InOrder(CallsOf("init"), Callees, Having("init"), loaded)' /\ InitsFirst' /\ AllInits'
    BY <1>5 DEF CalledInv, AllInits
  <2>1. First1
    BY <1>5 DEF First1
  <2>2. InOrder(CallsOf("init"), Callees, Having("init"), loaded) /\ AllInits /\ InitsFirst
    BY <2>1 DEF StartupInv, CalledInv, AllInits, AppCount
  <2>3. called' = called /\ loaded' = loaded
    BY DEF AppCount
  <2> QED
    BY <2>2, <2>3 DEF CallsOf, Callees, Having, AllInits, InitsFirst
<1>9. LoadedInv'
  <2> SUFFICES ASSUME First1', app'.at = "load"
               PROVE  StaticsFirst' /\ app'.i <= app'.count /\ app'.count = Cardinality(NotAbsent)'
                      /\ InOrder(Dynamics, loaded, {n \in ListedDsos : n < app.i}, listed)'
    BY <1>5 DEF LoadedInv
  <2>1. First1 /\ app.at = "static" /\ app.i = Len(Statics) /\ Len(Statics) \in Nat
    BY <1>5, StartupAssumption DEF First1, AppCount
  <2>2. Len(loaded) = Len(Statics) /\ \A j \in 1..Len(Statics) : loaded[j] = Statics[j]
    BY <2>1 DEF StartupInv, LoadedInv
  <2>3. called' = called /\ loaded' = loaded /\ listed' = listed
    BY DEF AppCount
  <2>4. StaticsFirst'
    BY <2>1, <2>2, <2>3 DEF StaticsFirst
  <2>5. app'.i <= app'.count
    BY <1>3, <1>5
  <2>6. NotAbsent' = NotAbsent
    BY <2>3 DEF NotAbsent
  <2>7. Dynamics' = {}
    <3>1. DOMAIN loaded = 1..Len(loaded)
      BY DEF StartupInv, StartupTypeOK
    <3> QED
      BY <2>1, <2>2, <2>3, <3>1 DEF Dynamics
  <2>8. {n \in ListedDsos : n < app.i}' = {}
    <3>1. DOMAIN listed' = 0..(DsoCt - 1)
      BY <1>6 DEF StartupTypeOK
    <3> QED
      BY <1>1, <1>5, <3>1 DEF ListedDsos
  <2>9. InOrder(Dynamics, loaded, {n \in ListedDsos : n < app.i}, listed)'
    BY <2>7, <2>8, NoneInOrder
  <2> QED
    BY <1>5, <2>4, <2>5, <2>6, <2>9
<1> QED
  BY <1>6, <1>7, <1>8, <1>9 DEF StartupInv

-----------------------------------------------------------------------------
\* nr_app_startup gives up.
LEMMA FailInv ==
    ASSUME StartupInv, app.at \in {"registry", "services", "static", "load"}, AppGoes("failed"),
           UNCHANGED <<regMode, regOpen, listed, loaded, called, steady>>
    PROVE  StartupInv'
<1>1. /\ app' \in AppRecords /\ app'.at = "failed" /\ app'.tries = app.tries
  BY AppGoesLemma DEF StartupInv, Stages
<1>2. StartupTypeOK' /\ FirstInv'
  BY <1>1 DEF StartupInv, StartupTypeOK, FirstInv
<1> QED
  BY <1>1, <1>2 DEF StartupInv, CalledInv, LoadedInv

\* The loading is over, and no hook but init has been called.
LEMMA HooksBegin ==
    ASSUME StartupInv, app.at = "load", AppGoes("hooks"),
           UNCHANGED <<regMode, regOpen, listed, loaded, called, steady>>,
           First1 /\ steady /\ Gapless => InOrder(Dynamics, loaded, ListedDsos, listed)
    PROVE  StartupInv'
<1>1. /\ app' \in AppRecords /\ app'.at = "hooks" /\ app'.i = 0
      /\ app'.type = app.type /\ app'.flags = app.flags /\ app'.tries = app.tries
  BY AppGoesLemma DEF StartupInv, Stages
<1>2. StartupTypeOK' /\ FirstInv'
  BY <1>1 DEF StartupInv, StartupTypeOK, FirstInv
<1>3. CallsOf("init")' = CallsOf("init") /\ Callees' = Callees /\ Having("init")' = Having("init") /\ (InitsFirst => InitsFirst')
  BY DEF CallsOf, Callees, Having, InitsFirst
<1>4. ASSUME First1', NEW j \in 1..2 PROVE InOrder(CallsOf(HookTypes[j]), Callees, Due(j), loaded)'
  <2>1. First1
    BY <1>1, <1>4 DEF First1
  <2>2. AllInits
    BY <2>1 DEF StartupInv, CalledInv, AllInits
  <2>3. HookTypes[j] # "init"
    BY DEF HookTypes
  <2>4. CallsOf(HookTypes[j])' = {}
    BY <2>2, <2>3 DEF CallsOf, AllInits
  <2>5. app'.type = 1
    BY <1>1 DEF StartupInv, FirstInv
  <2>6. DOMAIN loaded' = 1..Len(loaded')
    BY <1>2 DEF StartupTypeOK
  <2>7. {n \in Having(HookTypes[j])' : n <= 0} = {}
    BY <2>6 DEF Having
  <2>8. Due(j)' = {}
    BY <1>1, <2>5, <2>7 DEF Due
  <2> QED
    BY <2>4, <2>8, NoneInOrder
<1>5. CalledInv'
  <2> SUFFICES ASSUME First1' PROVE InOrder(CallsOf("init"), Callees, Having("init"), loaded)' /\ InitsFirst'
    BY <1>1, <1>4 DEF CalledInv
  <2>1. First1
    BY <1>1 DEF First1
  <2>2. InOrder(CallsOf("init"), Callees, Having("init"), loaded) /\ InitsFirst
    BY <2>1 DEF StartupInv, CalledInv
  <2> QED
    BY <1>3, <2>2
<1>6. LoadedInv'
  <2> SUFFICES ASSUME First1' PROVE StaticsFirst' /\ (steady' /\ Gapless' => InOrder(Dynamics, loaded, ListedDsos, listed)')
    BY <1>1 DEF LoadedInv
  <2>1. First1
    BY <1>1 DEF First1
  <2>2. StaticsFirst
    BY <2>1 DEF StartupInv, LoadedInv
  <2>3. StaticsFirst' /\ Gapless' = Gapless /\ Dynamics' = Dynamics /\ ListedDsos' = ListedDsos
    BY <2>2 DEF StaticsFirst, Gapless, Dynamics, ListedDsos
  <2> QED
    BY <2>1, <2>3
<1> QED
  BY <1>2, <1>5, <1>6 DEF StartupInv

\* A list without gaps that was counted: the numbers in use are those below the count.
LEMMA GaplessLemma ==
    ASSUME StartupTypeOK, Gapless, NEW n \in 0..(DsoCt - 1)
    PROVE  listed[n] # "absent" <=> n < Cardinality(NotAbsent)
<1>1. DsoCt \in Nat /\ DOMAIN listed = 0..(DsoCt - 1) /\ n \in Nat
  BY StartupAssumption DEF StartupTypeOK
<1>2. IsFiniteSet(NotAbsent)
  <2>1. 0 \in Int /\ DsoCt - 1 \in Int
    BY <1>1
  <2>2. IsFiniteSet(0..(DsoCt - 1))
    BY <2>1, FS_Interval
  <2>3. NotAbsent \in SUBSET (0..(DsoCt - 1))
    BY <1>1 DEF NotAbsent
  <2> QED
    BY <2>2, <2>3, FS_Subset
<1>3. Cardinality(NotAbsent) \in Nat
  BY <1>2, FS_CardinalityType
<1>4. ASSUME listed[n] = "absent" PROVE ~(n < Cardinality(NotAbsent))
  <2>1. NotAbsent \in SUBSET (0..(n - 1))
    BY <1>1, <1>4 DEF NotAbsent, Gapless
  <2>2. IsFiniteSet(0..(n - 1)) /\ Cardinality(0..(n - 1)) = n
    <3>1. 0 \in Int /\ n - 1 \in Int /\ (n = 0 => 0 > n - 1) /\ (n # 0 => ~(0 > n - 1) /\ (n - 1) - 0 + 1 = n)
      BY <1>1
    <3> QED
      BY <3>1, FS_Interval
  <2>3. Cardinality(NotAbsent) <= n
    BY <2>1, <2>2, FS_Subset
  <2> QED
    BY <1>1, <1>3, <2>3
<1>5. ASSUME listed[n] # "absent" PROVE n < Cardinality(NotAbsent)
  <2>1. (0..n) \in SUBSET NotAbsent
    <3> SUFFICES ASSUME NEW m \in 0..n PROVE m \in NotAbsent
      OBVIOUS
    <3>1. m \in DOMAIN listed /\ (m = n \/ n > m)
      BY <1>1
    <3>2. listed[m] # "absent"
      BY <1>1, <1>5, <3>1 DEF Gapless
    <3> QED
      BY <3>1, <3>2 DEF NotAbsent
  <2>2. Cardinality(0..n) = n + 1
    <3>1. 0 \in Int /\ n \in Int /\ ~(0 > n) /\ n - 0 + 1 = n + 1
      BY <1>1
    <3> QED
      BY <3>1, FS_Interval
  <2>3. Cardinality(0..n) <= Cardinality(NotAbsent)
    BY <1>2, <2>1, FS_Subset
  <2> QED
    BY <1>1, <1>3, <2>2, <2>3
<1> QED
  BY <1>4, <1>5

\* The end of the list.
LEMMA LoadedStep == ASSUME StartupInv, AppLoaded PROVE StartupInv'
<1>1. ASSUME First1, steady, Gapless PROVE InOrder(Dynamics, loaded, ListedDsos, listed)
  <2>1. /\ app.i \in Nat /\ app.i >= app.count /\ app.count = Cardinality(NotAbsent)
        /\ InOrder(Dynamics, loaded, {n \in ListedDsos : n < app.i}, listed)
    BY <1>1 DEF StartupInv, StartupTypeOK, AppRecords, LoadedInv, AppLoaded
  <2>2. app.count \in Nat /\ StartupTypeOK
    BY StartupAssumption DEF StartupInv, StartupTypeOK, AppRecords
  <2>3. ASSUME NEW n \in ListedDsos PROVE n < app.i
    <3>1. n \in 0..(DsoCt - 1) /\ listed[n] # "absent"
      BY <2>2, StartupAssumption DEF ListedDsos, StartupTypeOK
    <3>2. n < Cardinality(NotAbsent)
      BY <1>1, <2>2, <3>1, GaplessLemma
    <3> QED
      BY <2>1, <2>2, <3>1, <3>2
  <2>4. {n \in ListedDsos : n < app.i} = ListedDsos
    BY <2>3
  <2> QED
    BY <2>1, <2>4
<1> QED
  BY <1>1, HooksBegin DEF AppLoaded

\* One number.
LEMMA LoadInv == ASSUME StartupInv, AppLoad PROVE StartupInv'
<1>0. /\ app.at = "load" /\ app.i < app.count /\ app.i \in 0..(DsoCt - 1) /\ app.i \in Nat /\ app.count \in 0..DsoCt
      /\ UNCHANGED <<regMode, regOpen, listed, steady>> /\ DsoCt \in Nat /\ StartupTypeOK /\ app \in AppRecords
  BY StartupAssumption DEF AppLoad, StartupInv, StartupTypeOK, AppRecords
<1>1. CASE listed[app.i] = "absent"
  <2>1. AppGoes("hooks") /\ UNCHANGED <<loaded, called>>
    BY <1>1, StartupAssumption DEF AppLoad
  <2>2. ASSUME First1, steady, Gapless PROVE FALSE
    <3>1. app.count = Cardinality(NotAbsent)
      BY <1>0, <2>2 DEF StartupInv, LoadedInv
    <3>2. ~(app.i < Cardinality(NotAbsent))
      BY <1>0, <1>1, <2>2, GaplessLemma
    <3> QED
      BY <1>0, <3>1, <3>2
  <2> QED
    BY <1>0, <2>1, <2>2, HooksBegin
<1>2. CASE listed[app.i] = "int"
  <2>1. AppGoes("failed") /\ UNCHANGED <<loaded, called>>
    BY <1>2, StartupAssumption DEF AppLoad
  <2> QED
    BY <1>0, <2>1, FailInv
<1>3. CASE listed[app.i] = "bad"
  <2>1. app' = [app EXCEPT !.i = app.i + 1] /\ UNCHANGED <<loaded, called>>
    BY <1>3, StartupAssumption DEF AppLoad
  <2>2. /\ app' \in AppRecords /\ app'.i = app.i + 1 /\ app'.at = app.at /\ app'.count = app.count
        /\ app'.type = app.type /\ app'.flags = app.flags /\ app'.tries = app.tries
    BY <1>0, <2>1 DEF AppRecords
  <2>3. StartupTypeOK' /\ FirstInv'
    BY <1>0, <2>1, <2>2 DEF StartupInv, StartupTypeOK, FirstInv
  <2>4. First1' = First1
    BY <2>2 DEF First1
  <2>5. CalledInv'
    BY <1>0, <2>1, <2>2, <2>4 DEF StartupInv, CalledInv, CallsOf, Callees, Having, InitsFirst
  <2>6. LoadedInv'
    <3> SUFFICES ASSUME First1
                 PROVE  StaticsFirst' /\ app'.i <= app'.count /\
                        (steady => /\ app'.count = Cardinality(NotAbsent)'
                                   /\ InOrder(Dynamics, loaded, {n \in ListedDsos : n < app.i}, listed)')
      BY <1>0, <2>2, <2>4 DEF LoadedInv
    <3>1. StaticsFirst /\ (steady => /\ app.count = Cardinality(NotAbsent)
                                     /\ InOrder(Dynamics, loaded, {n \in ListedDsos : n < app.i}, listed))
      BY <1>0 DEF StartupInv, LoadedInv
    <3>2. StaticsFirst' /\ NotAbsent' = NotAbsent /\ Dynamics' = Dynamics /\ ListedDsos' = ListedDsos
      BY <1>0, <2>1, <3>1 DEF StaticsFirst, NotAbsent, Dynamics, ListedDsos
    <3>3. {n \in ListedDsos : n < app.i + 1} = {n \in ListedDsos : n < app.i}
      <4>1. app.i \notin ListedDsos /\ ListedDsos \subseteq Int
        BY <1>0, <1>3, StartupAssumption DEF ListedDsos, StartupTypeOK
      <4>2. ASSUME NEW n \in ListedDsos PROVE n < app.i + 1 <=> n < app.i
        <5>1. n \in Int /\ n # app.i /\ app.i \in Int
          BY <1>0, <4>1
        <5> QED
          BY <5>1
      <4> QED
        BY <4>2
    <3>4. app'.i <= app'.count
      BY <1>0, <2>2
    <3>5. {n \in ListedDsos : n < app.i}' = {n \in ListedDsos : n < app.i}
      BY <2>2, <3>2, <3>3
    <3> QED
      BY <1>0, <2>1, <2>2, <3>1, <3>2, <3>4, <3>5
  <2> QED
    BY <2>3, <2>5, <2>6 DEF StartupInv
<1>4. CASE listed[app.i] \in Dsos
  <2> DEFINE p == listed[app.i]
  <2>1. AddPlugin(p) /\ p \in Plugins
    BY <1>4, StartupAssumption DEF AppLoad, Plugins
  <2>2. /\ app' \in AppRecords /\ app'.i = app.i + 1 /\ app'.at = app.at
        /\ app'.count = app.count /\ app'.type = app.type /\ app'.flags = app.flags /\ app'.tries = app.tries
        /\ loaded' = Append(loaded, p)
        /\ loaded' \in Seq(Plugins) /\ called' \in Seq(Plugins \X HookNames)
        /\ AllInits => AllInits'
        /\ InOrder(CallsOf("init"), Callees, Having("init"), loaded)
              => InOrder(CallsOf("init"), Callees, Having("init"), loaded)'
    <3> HIDE DEF p
    <3> QED
      BY <1>0, <2>1, AddLemma
  <2>3. StartupTypeOK'
    BY <1>0, <2>2 DEF StartupInv, StartupTypeOK
  <2>4. FirstInv'
    BY <1>0, <2>2 DEF StartupInv, FirstInv
  <2>5. First1' = First1
    BY <2>2 DEF First1
  <2>6. CalledInv'
    <3> SUFFICES ASSUME First1 PROVE InOrder(CallsOf("init"), Callees, Having("init"), loaded)' /\ InitsFirst' /\ AllInits'
      BY <1>0, <2>2, <2>5 DEF CalledInv, AllInits
    <3>2. InOrder(CallsOf("init"), Callees, Having("init"), loaded) /\ AllInits
      BY <1>0 DEF StartupInv, CalledInv, AllInits
    <3>3. AllInits' => InitsFirst'
      BY DEF AllInits, InitsFirst
    <3> QED
      BY <2>2, <3>2, <3>3
  <2>7. LoadedInv'
    <3> SUFFICES ASSUME First1
                 PROVE  StaticsFirst' /\ app'.i <= app'.count /\
                        (steady => /\ app'.count = Cardinality(NotAbsent)'
                                   /\ InOrder(Dynamics, loaded, {n \in ListedDsos : n < app.i}, listed)')
      BY <1>0, <2>2, <2>5 DEF LoadedInv
    <3>1. StaticsFirst /\ (steady => /\ app.count = Cardinality(NotAbsent)
                                     /\ InOrder(Dynamics, loaded, {n \in ListedDsos : n < app.i}, listed))
      BY <1>0 DEF StartupInv, LoadedInv
    <3>2. /\ Len(loaded) \in Nat /\ DOMAIN loaded = 1..Len(loaded) /\ Len(loaded') = Len(loaded) + 1
          /\ DOMAIN loaded' = 1..(Len(loaded) + 1)
          /\ \A j \in DOMAIN loaded : loaded'[j] = loaded[j]
          /\ loaded'[Len(loaded) + 1] = p
      <4> HIDE DEF p
      <4>1. loaded \in Seq(Plugins)
        BY <1>0 DEF StartupTypeOK
      <4> QED
        BY <2>1, <2>2, <4>1, SlotLemma
    <3>3. StaticsFirst'
      <4>1. Len(Statics) \in Nat
        BY StartupAssumption
      <4> QED
        BY <3>1, <3>2, <4>1 DEF StaticsFirst
    <3>4. app'.i <= app'.count
      BY <1>0, <2>2
    <3>5. NotAbsent' = NotAbsent /\ ListedDsos' = ListedDsos
      BY <1>0 DEF NotAbsent, ListedDsos
    <3>6. ASSUME steady PROVE InOrder(Dynamics, loaded, {n \in ListedDsos : n < app.i}, listed)'
      <4> DEFINE I == Dynamics
                 J == {n \in ListedDsos : n < app.i}
                 a == Len(loaded) + 1
                 b == app.i
      <4>1. I \in SUBSET Nat /\ J \in SUBSET Nat /\ a \in Nat /\ b \in Nat
        BY <1>0, <3>2 DEF Dynamics, ListedDsos, StartupTypeOK
      <4>2. \A i \in I : loaded'[i] = loaded[i] /\ i < a
        BY <3>2 DEF Dynamics
      <4>3. \A j \in J : listed'[j] = listed[j] /\ j < b
        BY <1>0
      <4>4. Dynamics' = I \cup {a}
        <5>1. Len(Statics) \in Nat /\ Len(loaded) >= Len(Statics)
          BY <3>1, StartupAssumption DEF StaticsFirst
        <5>2. DOMAIN loaded' = DOMAIN loaded \cup {a} /\ a > Len(Statics)
          BY <3>2, <5>1
        <5> QED
          BY <5>2 DEF Dynamics
      <4>5. {n \in ListedDsos : n < app.i}' = J \cup {b}
        <5>1. app.i \in ListedDsos /\ ListedDsos \subseteq Int
          BY <1>0, <1>4 DEF ListedDsos, StartupTypeOK
        <5>2. {n \in ListedDsos : n < app.i + 1} = J \cup {b}
          <6>1. ASSUME NEW n \in ListedDsos PROVE n < app.i + 1 <=> (n < app.i \/ n = app.i)
            <7>1. n \in Int /\ app.i \in Int
              BY <1>0, <5>1
            <7> QED
              BY <7>1
          <6> QED
            BY <5>1, <6>1
        <5> QED
          BY <2>2, <3>5, <5>2
      <4>6. InOrder(I, loaded, J, listed) /\ loaded'[a] = listed'[b]
        BY <1>0, <3>1, <3>2, <3>6
      <4> HIDE DEF I, J, a, b
      <4>7. InOrder(I \cup {a}, loaded', J \cup {b}, listed')
        BY <4>1, <4>2, <4>3, <4>6, MoreInOrder
      <4> QED
        BY <4>4, <4>5, <4>7
    <3> QED
      BY <2>2, <3>1, <3>3, <3>4, <3>5, <3>6
  <2> QED
    BY <2>3, <2>4, <2>6, <2>7 DEF StartupInv
<1>5. listed[app.i] \in Dsos \cup {"absent", "int", "bad"}
  BY <1>0 DEF StartupTypeOK, Listings
<1> QED
  BY <1>1, <1>2, <1>3, <1>4, <1>5

-----------------------------------------------------------------------------
\* The types of hooks that nr_app_startup calls.
LEMMA HookTypesLemma ==
    /\ DOMAIN HookTypes = 1..2 /\ Len(HookTypes) = 2
    /\ \A j \in 1..2 : HookTypes[j] \in HookNames /\ HookTypes[j] # "init"
    /\ \A j, k \in 1..2 : HookTypes[j] = HookTypes[k] => j = k
  BY DEF HookTypes, HookNames

\* While hooks are called, the list of plugins stays.
LEMMA HooksLoaded ==
    ASSUME StartupInv, app.at = "hooks", app' \in AppRecords, app'.at \in {"hooks", "done"},
           app'.flags = app.flags, app'.tries = app.tries, called' \in Seq(Plugins \X HookNames),
           UNCHANGED <<regMode, regOpen, listed, loaded, steady>>
    PROVE  StartupTypeOK' /\ FirstInv' /\ LoadedInv'
<1>1. StartupTypeOK'
  BY DEF StartupInv, StartupTypeOK
<1>2. FirstInv'
  BY DEF StartupInv, FirstInv
<1>3. LoadedInv'
  <2> SUFFICES ASSUME First1' PROVE StaticsFirst' /\ (steady' /\ Gapless' => InOrder(Dynamics, loaded, ListedDsos, listed)')
    BY DEF LoadedInv
  <2>1. First1
    BY DEF First1
  <2>2. StaticsFirst /\ (steady /\ Gapless => InOrder(Dynamics, loaded, ListedDsos, listed))
    BY <2>1 DEF StartupInv, LoadedInv
  <2>3. StaticsFirst' /\ Gapless' = Gapless /\ Dynamics' = Dynamics /\ ListedDsos' = ListedDsos
    BY <2>2 DEF StaticsFirst, Gapless, Dynamics, ListedDsos
  <2> QED
    BY <2>2, <2>3
<1> QED
  BY <1>1, <1>2, <1>3

\* No hook is called, and the same ones are due.
LEMMA NoCall ==
    ASSUME StartupInv, app.at = "hooks", app' \in AppRecords, app'.at \in {"hooks", "done"},
           app'.flags = app.flags, app'.tries = app.tries,
           UNCHANGED <<regMode, regOpen, listed, loaded, called, steady>>,
           \A j \in 1..2 : Due(j)' = Due(j)
    PROVE  StartupInv'
<1>1. StartupTypeOK' /\ FirstInv' /\ LoadedInv'
  BY HooksLoaded DEF StartupInv, StartupTypeOK
<1>2. CalledInv'
  <2> SUFFICES ASSUME First1'
               PROVE  /\ InOrder(CallsOf("init"), Callees, Having("init"), loaded)'
                      /\ InitsFirst'
                      /\ \A j \in 1..2 : InOrder(CallsOf(HookTypes[j]), Callees, Due(j), loaded)'
    BY DEF CalledInv
  <2>1. First1
    BY DEF First1
  <2>2. /\ InOrder(CallsOf("init"), Callees, Having("init"), loaded)
        /\ InitsFirst
        /\ \A j \in 1..2 : InOrder(CallsOf(HookTypes[j]), Callees, Due(j), loaded)
    BY <2>1 DEF StartupInv, CalledInv
  <2>3. /\ \A t : CallsOf(t)' = CallsOf(t)
        /\ Callees' = Callees /\ Having("init")' = Having("init") /\ InitsFirst'
    BY <2>2 DEF CallsOf, Callees, Having, InitsFirst
  <2> QED
    BY <2>2, <2>3
<1> QED
  BY <1>1, <1>2 DEF StartupInv

\* A hook of one of the types, or the next type.
LEMMA HooksKeep == ASSUME StartupInv, AppHook PROVE StartupInv'
<1>a. PICK T \in 1..2 : T = app.type
  BY HookTypesLemma DEF AppHook, StartupInv, StartupTypeOK, AppRecords
<1> DEFINE t == HookTypes[T]
           more == Requested(t) /\ app.i < Len(loaded)
           p == loaded[app.i + 1]
           hit == more /\ t \in HooksOf[p]
<1>0. /\ app.at = "hooks" /\ T \in 1..2 /\ app.i \in Nat /\ app \in AppRecords
      /\ loaded \in Seq(Plugins) /\ Len(loaded) \in Nat /\ DOMAIN loaded = 1..Len(loaded)
      /\ called \in Seq(Plugins \X HookNames)
      /\ UNCHANGED <<regMode, regOpen, listed, loaded, steady>>
  BY HookTypesLemma DEF AppHook, StartupInv, StartupTypeOK, AppRecords
<1>1. called' = (IF hit THEN Append(called, <<p, t>>) ELSE called)
  BY <1>a DEF AppHook
<1>2. app' = IF more THEN [app EXCEPT !.i = app.i + 1] ELSE [app EXCEPT !.type = app.type + 1, !.i = 0]
  BY <1>a DEF AppHook
<1>3. t \in HookNames /\ t # "init" /\ \A j \in 1..2 : HookTypes[j] = t => j = T
  BY <1>0, HookTypesLemma
<1> HIDE DEF t
<1>4. CASE more
  <2>1. /\ app' \in AppRecords /\ app'.at = app.at /\ app'.i = app.i + 1
        /\ app'.type = app.type /\ app'.flags = app.flags /\ app'.tries = app.tries
    <3>1. app' = [app EXCEPT !.i = app.i + 1] /\ app \in AppRecords /\ app.i \in Nat
      BY <1>0, <1>2, <1>4, Zenon
    <3>2. app' \in AppRecords
      BY <3>1 DEF AppRecords
    <3> QED
      BY <3>1, <3>2 DEF AppRecords
  <2>2. p \in Plugins /\ app.i + 1 \in 1..Len(loaded) /\ app.i + 1 \in DOMAIN loaded
    <3>1. app.i + 1 \in 1..Len(loaded)
      BY <1>0, <1>4
    <3> QED
      BY <1>0, <3>1
  <2>3. \A x : Having(x)' = Having(x) /\ Having(x) \in SUBSET DOMAIN loaded
    BY <1>0 DEF Having
  <2>4. \A x : Requested(x)' = Requested(x)
    BY <2>1 DEF Requested
  <2>5. ASSUME NEW j \in 1..2, j # T PROVE Due(j)' = Due(j)
    <3>1. /\ app'.type = app.type /\ app'.at = "hooks" /\ app.at = "hooks" /\ j # app.type
          /\ Having(HookTypes[j])' = Having(HookTypes[j]) /\ Requested(HookTypes[j])' = Requested(HookTypes[j])
      BY <1>0, <1>a, <2>1, <2>3, <2>4, <2>5
    <3> QED
      BY <3>1 DEF Due
  <2>6. Due(T) = {n \in Having(t) : n <= app.i} /\ Due(T)' = {n \in Having(t) : n <= app.i + 1}
    <3>1. /\ Requested(t) /\ Requested(t)' /\ ~(T < app.type) /\ T = app.type /\ app'.type = T
          /\ app'.at = "hooks" /\ app.at = "hooks"
      BY <1>0, <1>a, <1>4, <2>1, <2>4
    <3> QED
      BY <1>0, <2>1, <2>3, <3>1 DEF Due, t
  <2>7. ASSUME NEW n \in Having(t) PROVE n <= app.i + 1 <=> (n <= app.i \/ n = app.i + 1)
    <3>1. n \in Int /\ app.i \in Int
      BY <1>0, <2>3
    <3> QED
      BY <3>1
  <2>8. CASE t \in HooksOf[p]
    <3>1. called' = Append(called, <<p, t>>)
      BY <1>1, <1>4, <2>8
    <3> DEFINE b == app.i + 1
    <3>2. Due(T)' = Due(T) \cup {b} /\ b \in Nat /\ Due(T) \in SUBSET Nat /\ \A j \in Due(T) : j < b
      <4>1. app.i + 1 \in Having(t)
        BY <2>2, <2>8 DEF Having
      <4>2. Due(T)' = Due(T) \cup {b}
        BY <2>6, <2>7, <4>1
      <4>3. Due(T) \in SUBSET Nat /\ \A j \in Due(T) : j < b
        BY <1>0, <2>3, <2>6
      <4> QED
        BY <1>0, <4>2, <4>3
    <3> DEFINE a == Len(called) + 1
    <3> HIDE DEF p
    <3>3. /\ called' \in Seq(Plugins \X HookNames)
          /\ a \in Nat /\ DOMAIN called \subseteq Nat /\ \A j \in DOMAIN called : j < a
          /\ DOMAIN called' = DOMAIN called \cup {a}
          /\ \A j \in DOMAIN called : called'[j] = called[j] /\ Callees'[j] = Callees[j]
          /\ called'[a] = <<p, t>> /\ Callees'[a] = p
          /\ CallsOf(t)' = CallsOf(t) \cup {a}
          /\ \A x : x # t => CallsOf(x)' = CallsOf(x)
      BY <1>0, <1>3, <2>2, <3>1, CallLemma
    <3> HIDE DEF a
    <3>4. StartupTypeOK' /\ FirstInv' /\ LoadedInv'
      BY <1>0, <2>1, <3>3, HooksLoaded
    <3>5. \A x : CallsOf(x) \in SUBSET DOMAIN called
      BY DEF CallsOf
    <3>6. CalledInv'
      <4> SUFFICES ASSUME First1'
                   PROVE  /\ InOrder(CallsOf("init"), Callees, Having("init"), loaded)'
                          /\ InitsFirst'
                          /\ \A j \in 1..2 : InOrder(CallsOf(HookTypes[j]), Callees, Due(j), loaded)'
        BY <1>0, <2>1 DEF CalledInv
      <4>1. First1
        BY <2>1 DEF First1
      <4>2. /\ InOrder(CallsOf("init"), Callees, Having("init"), loaded)
            /\ InitsFirst
            /\ \A j \in 1..2 : InOrder(CallsOf(HookTypes[j]), Callees, Due(j), loaded)
        BY <1>0, <4>1 DEF StartupInv, CalledInv
      <4>3. InOrder(CallsOf("init"), Callees, Having("init"), loaded)'
        <5>1. CallsOf("init")' = CallsOf("init") /\ Having("init")' = Having("init")
          BY <1>3, <2>3, <3>3
        <5>2. \A i \in CallsOf("init") : Callees'[i] = Callees[i]
          BY <3>3, <3>5
        <5>3. InOrder(CallsOf("init"), Callees', Having("init"), loaded)
          BY <4>2, <5>2, StillInOrder
        <5> QED
          BY <1>0, <5>1, <5>3
      <4>4. InitsFirst'
        <5> SUFFICES ASSUME NEW j \in DOMAIN called', NEW k \in DOMAIN called', called'[j][2] # "init", j < k
                     PROVE  called'[k][2] # "init"
          BY DEF InitsFirst
        <5>1. CASE k = a
          <6>1. <<p, t>>[2] = t
            OBVIOUS
          <6> QED
            BY <1>3, <3>3, <5>1, <6>1
        <5>2. CASE k # a
          <6>1. k \in DOMAIN called /\ k < a
            BY <3>3, <5>2
          <6>2. j # a
            BY <3>3, <6>1
          <6>3. j \in DOMAIN called
            BY <3>3, <6>2
          <6> QED
            BY <3>3, <4>2, <6>1, <6>3 DEF InitsFirst
        <5> QED
          BY <5>1, <5>2
      <4>5. ASSUME NEW j \in 1..2 PROVE InOrder(CallsOf(HookTypes[j]), Callees, Due(j), loaded)'
        <5>1. CASE j # T
          <6>1. HookTypes[j] # t
            BY <1>3, <5>1
          <6>2. CallsOf(HookTypes[j])' = CallsOf(HookTypes[j]) /\ Due(j)' = Due(j)
            BY <2>5, <3>3, <5>1, <6>1
          <6>3. \A i \in CallsOf(HookTypes[j]) : Callees'[i] = Callees[i]
            BY <3>3, <3>5
          <6>4. InOrder(CallsOf(HookTypes[j]), Callees', Due(j), loaded)
            BY <4>2, <6>3, StillInOrder
          <6> QED
            BY <1>0, <6>2, <6>4
        <5>2. CASE j = T
          <6>1. HookTypes[j] = t
            BY <5>2 DEF t
          <6> DEFINE I == CallsOf(t)
                     J == Due(T)
          <6>2. I \in SUBSET Nat /\ J \in SUBSET Nat /\ a \in Nat /\ b \in Nat
            BY <3>2, <3>3, <3>5
          <6>3. (\A i \in I : Callees'[i] = Callees[i] /\ i < a) /\ (\A i \in J : i < b)
            BY <3>2, <3>3, <3>5
          <6>4. InOrder(I, Callees, J, loaded)
            BY <4>2, <5>2, <6>1
          <6>5. Callees'[a] = loaded[b]
            BY <3>3 DEF p
          <6> HIDE DEF I, J, b
          <6>7. InOrder(I \cup {a}, Callees', J \cup {b}, loaded)
            BY <6>2, <6>3, <6>4, <6>5, MoreInOrder
          <6> QED
            BY <1>0, <3>2, <3>3, <5>2, <6>1, <6>7 DEF I, J, b
        <5> QED
          BY <5>1, <5>2
      <4> QED
        BY <4>3, <4>4, <4>5
    <3> QED
      BY <3>4, <3>6 DEF StartupInv
  <2>9. CASE t \notin HooksOf[p]
    <3>1. called' = called
      BY <1>1, <2>9
    <3>2. app.i + 1 \notin Having(t)
      BY <2>9 DEF Having
    <3>3. Due(T)' = Due(T)
      BY <2>6, <2>7, <3>2
    <3>4. \A j \in 1..2 : Due(j)' = Due(j)
      <4> SUFFICES ASSUME NEW j \in 1..2 PROVE Due(j)' = Due(j)
        OBVIOUS
      <4> QED
        BY <2>5, <3>3
    <3> QED
      BY <1>0, <2>1, <3>1, <3>4, NoCall
  <2> QED
    BY <2>8, <2>9
<1>5. CASE ~more
  <2>1. app.type + 1 \in 1..3 /\ app.type \in 1..2
    BY <1>0, <1>a
  <2>2. /\ app' \in AppRecords /\ app'.at = app.at /\ app'.i = 0
        /\ app'.type = app.type + 1 /\ app'.flags = app.flags /\ app'.tries = app.tries
    <3>1. app' = [app EXCEPT !.type = app.type + 1, !.i = 0]
      BY <1>2, <1>5
    <3> QED
      BY <1>0, <2>1, <3>1 DEF AppRecords
  <2>3. \A x : Having(x)' = Having(x) /\ Having(x) \in SUBSET DOMAIN loaded
    BY <1>0 DEF Having
  <2>4. \A x : Requested(x)' = Requested(x)
    BY <2>2 DEF Requested
  <2>5. ASSUME NEW j \in 1..2 PROVE Due(j)' = Due(j)
    <3>0. app.at = "hooks" /\ app'.at = "hooks"
      BY <1>0, <2>2
    <3>1. CASE ~Requested(HookTypes[j])
      BY <2>4, <3>1 DEF Due
    <3>2. CASE Requested(HookTypes[j]) /\ j < app.type
      <4>1. j < app.type + 1
        BY <2>1, <3>2
      <4> QED
        BY <2>2, <2>3, <2>4, <3>2, <4>1 DEF Due
    <3>3. CASE Requested(HookTypes[j]) /\ j = app.type
      <4>1. j < app.type + 1 /\ ~(j < app.type)
        BY <2>1, <3>3
      <4>2. ~(app.i < Len(loaded))
        BY <1>a, <1>5, <3>3 DEF t
      <4>3. \A n \in Having(HookTypes[j]) : n <= app.i
        BY <1>0, <2>3, <4>2
      <4>4. {n \in Having(HookTypes[j]) : n <= app.i} = Having(HookTypes[j])
        BY <4>3
      <4>5. Due(j) = Having(HookTypes[j])
        BY <3>0, <3>3, <4>1, <4>4 DEF Due
      <4>6. Due(j)' = Having(HookTypes[j])
        BY <2>2, <2>3, <2>4, <3>3, <4>1 DEF Due
      <4> QED
        BY <4>5, <4>6
    <3>4. CASE Requested(HookTypes[j]) /\ app.type < j
      <4>1. ~(j < app.type) /\ j # app.type /\ ~(j < app.type + 1)
        BY <2>1, <3>4
      <4>2. Due(j) = {}
        BY <3>0, <4>1 DEF Due
      <4>3. {n \in Having(HookTypes[j]) : n <= 0} = {}
        BY <1>0, <2>3
      <4>4. Due(j)' = {}
        BY <2>2, <2>3, <3>0, <4>1, <4>3 DEF Due
      <4> QED
        BY <4>2, <4>4
    <3> QED
      BY <2>1, <3>1, <3>2, <3>3, <3>4
  <2>6. called' = called
    BY <1>1, <1>5
  <2> QED
    BY <1>0, <2>2, <2>5, <2>6, NoCall
<1> QED
  BY <1>4, <1>5

\* nr_app_startup is done.
LEMMA DoneInv == ASSUME StartupInv, AppDone PROVE StartupInv'
<1>1. /\ app' \in AppRecords /\ app'.at = "done" /\ app'.i = 0
      /\ app'.type = app.type /\ app'.flags = app.flags /\ app'.tries = app.tries
  BY AppGoesLemma DEF StartupInv, Stages, AppDone
<1>2. app.type = 3 /\ app.at = "hooks" /\ UNCHANGED <<regMode, regOpen, listed, loaded, called, steady>>
  BY HookTypesLemma DEF AppDone, StartupInv, StartupTypeOK, AppRecords
<1>3. ASSUME NEW j \in 1..2 PROVE Due(j)' = Due(j)
  <2>1. j < app.type
    BY <1>2
  <2>2. Having(HookTypes[j])' = Having(HookTypes[j]) /\ Requested(HookTypes[j])' = Requested(HookTypes[j])
    BY <1>1, <1>2 DEF Having, Requested
  <2> QED
    BY <1>1, <1>2, <2>1, <2>2 DEF Due
<1> QED
  BY <1>1, <1>2, <1>3, NoCall

\* Another program writes the list.
LEMMA OtherInv == ASSUME StartupInv, NEW n \in 0..(DsoCt - 1), NEW v \in Listings, OtherLists(n, v) PROVE StartupInv'
<1>1. /\ app' = app /\ regMode' = regMode /\ regOpen' = regOpen /\ loaded' = loaded /\ called' = called
      /\ listed' = [listed EXCEPT ![n] = v] /\ steady' = FALSE
  BY DEF OtherLists
<1>2. StartupTypeOK'
  BY <1>1 DEF StartupInv, StartupTypeOK
<1>3. FirstInv' /\ CalledInv'
  BY <1>1 DEF StartupInv, FirstInv, CalledInv, First1, CallsOf, Callees, Having, InitsFirst, Due, Requested
<1>4. LoadedInv'
  BY <1>1 DEF StartupInv, LoadedInv, First1, StaticsFirst
<1> QED
  BY <1>2, <1>3, <1>4 DEF StartupInv

\* A step that changes nothing.
LEMMA StillStartup == ASSUME StartupInv, UNCHANGED startupVars PROVE StartupInv'
<1>1. UNCHANGED <<app, regMode, regOpen, listed, loaded, called, steady>>
  BY DEF startupVars
<1>2. StartupTypeOK' /\ FirstInv'
  BY <1>1 DEF StartupInv, StartupTypeOK, FirstInv
<1>3. CalledInv'
  BY <1>1 DEF StartupInv, CalledInv, First1, CallsOf, Callees, Having, InitsFirst, Due, Requested
<1>4. LoadedInv'
  BY <1>1 DEF StartupInv, LoadedInv, First1, StaticsFirst, NotAbsent, Dynamics, ListedDsos, Gapless
<1> QED
  BY <1>2, <1>3, <1>4 DEF StartupInv

-----------------------------------------------------------------------------
\* What nr_app_startup has done at each of its stages (share/nr_startup.c), for any plugins,
\* flags and lists.
THEOREM StartupInvariant == StartupSpec => []StartupInv
<1>1. StartupInit => StartupInv
  BY InitStartup
<1>2. StartupInv /\ [StartupNext]_startupVars => StartupInv'
  <2> SUFFICES ASSUME StartupInv, [StartupNext]_startupVars PROVE StartupInv'
    OBVIOUS
  <2>1. CASE UNCHANGED startupVars
    BY <2>1, StillStartup
  <2>2. CASE \E flags \in FlagSets : AppBegin(flags)
    BY <2>2, BeginKeeps
  <2>3. CASE AppRegistry
    BY <2>3, RegistryInv
  <2>4. CASE AppServices
    BY <2>4, ServicesInv
  <2>5. CASE AppStatic
    BY <2>5, StaticInv
  <2>6. CASE AppCount
    BY <2>6, CountInv
  <2>7. CASE AppLoad
    BY <2>7, LoadInv
  <2>8. CASE AppLoaded
    BY <2>8, LoadedStep
  <2>9. CASE AppHook
    BY <2>9, HooksKeep
  <2>10. CASE AppDone
    BY <2>10, DoneInv
  <2>11. CASE \E n \in 0..(DsoCt - 1), v \in Listings : OtherLists(n, v)
    BY <2>11, OtherInv
  <2> QED
    BY <2>1, <2>2, <2>3, <2>4, <2>5, <2>6, <2>7, <2>8, <2>9, <2>10, <2>11 DEF StartupNext
<1> QED
  BY <1>1, <1>2, PTL DEF StartupSpec

\* When the first call of nr_app_startup succeeds, the registry is open, every plugin has had
\* its hooks, once, in order and init first, and no plugin that can be loaded is missing.
THEOREM StartupDone == StartupSpec => []StartupComplete
<1>1. StartupInv => StartupComplete
  <2> SUFFICES ASSUME StartupInv, app.at = "done", app.tries = 1
               PROVE  /\ {"remote", "local"} \cap app.flags # {} => regOpen
                      /\ "plugin" \in app.flags =>
                           /\ InOrder(CallsOf("init"), Callees, Having("init"), loaded)
                           /\ InitsFirst
                           /\ \A j \in DOMAIN HookTypes :
                                 InOrder(CallsOf(HookTypes[j]), Callees,
                                         IF Requested(HookTypes[j]) THEN Having(HookTypes[j]) ELSE {}, loaded)
                           /\ steady /\ Gapless =>
                                 /\ Len(loaded) >= Len(Statics) /\ \A j \in DOMAIN Statics : loaded[j] = Statics[j]
                                 /\ InOrder(Dynamics, loaded, ListedDsos, listed)
    BY DEF StartupComplete, InitsFirst
  <2>1. {"remote", "local"} \cap app.flags # {} => regOpen
    BY DEF StartupInv, FirstInv
  <2>2. ASSUME "plugin" \in app.flags PROVE First1
    BY <2>2 DEF First1
  <2>3. DOMAIN Statics = 1..Len(Statics)
    BY StartupAssumption
  <2>4. \A j \in 1..2 : Due(j) = IF Requested(HookTypes[j]) THEN Having(HookTypes[j]) ELSE {}
    BY DEF Due
  <2>5. First1 => /\ InOrder(CallsOf("init"), Callees, Having("init"), loaded)
                  /\ InitsFirst
                  /\ \A j \in 1..2 : InOrder(CallsOf(HookTypes[j]), Callees, Due(j), loaded)
    BY DEF StartupInv, CalledInv
  <2>6. First1 => StaticsFirst /\ (steady /\ Gapless => InOrder(Dynamics, loaded, ListedDsos, listed))
    BY DEF StartupInv, LoadedInv
  <2> QED
    BY <2>1, <2>2, <2>3, <2>4, <2>5, <2>6, HookTypesLemma DEF StaticsFirst
<1> QED
  BY <1>1, StartupInvariant, PTL

=============================================================================
