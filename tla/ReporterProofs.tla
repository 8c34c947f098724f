--------------------------- MODULE ReporterProofs ---------------------------
(***************************************************************************)
(* Proofs about MetricRegistry and Reporter, for any threads, call sites,  *)
(* names and metrics.                                                      *)
(***************************************************************************)
EXTENDS Reporter, TLAPS

PCs == {"idle", "once", "find", "create", "unlock", "assign", "initialized", "use"}
ThreadState == [pc : PCs, site : Site \cup {Null}, ret : Metric \cup {Null}]

RegistryType ==
    /\ mutex \in [Kind -> Thread \cup {Null}]
    /\ metrics \in [Kind -> [Name -> Metric \cup {Null}]]
    /\ allocated \in SUBSET Metric
    /\ once \in [Site -> {"uninitialized", "initializing", "initialized"}]
    /\ var \in [Site -> Metric \cup {Null}]
    /\ th \in [Thread -> ThreadState]
    /\ registry \in BOOLEAN

\* The thread that runs the initialiser of its site.
Initializing(t) == th[t].pc \in {"find", "create", "unlock", "assign", "initialized"}

\* What thread t knows at each step of a macro.
MacroOf(t) ==
    /\ th[t].pc # "idle" => th[t].site \in Site /\ registry
    /\ Initializing(t) => once[th[t].site] = "initializing"
    /\ th[t].pc \in {"create", "unlock"} => mutex[KindOf(t)] = t
    /\ th[t].pc = "create" => metrics[KindOf(t)][NameOf(t)] = Null
    /\ th[t].pc \in {"unlock", "assign", "initialized"} =>
           th[t].ret # Null /\ th[t].ret = metrics[KindOf(t)][NameOf(t)]
    /\ th[t].pc = "initialized" => var[th[t].site] = th[t].ret
    /\ th[t].pc = "use" => once[th[t].site] = "initialized"

Macros == \A t \in Thread : MacroOf(t)

\* One thread at a time initialises a site.
OneInitializer ==
    \A t, u \in Thread : Initializing(t) /\ Initializing(u) /\ th[t].site = th[u].site => t = u

SiteOf(s) ==
    /\ once[s] = "initialized" => var[s] # Null
    /\ var[s] # Null => var[s] = metrics[SiteKind[s]][SiteName[s]]

Sites == \A s \in Site : SiteOf(s)

\* The metrics of the maps exist as long as the registry does.
MetricsExist == registry => \A k \in Kind, n \in Name : metrics[k][n] \in allocated \cup {Null}

RegistryInv == RegistryType /\ Macros /\ OneInitializer /\ Sites /\ MetricsExist

-----------------------------------------------------------------------------

\* How the reporter's state, stream, timer and threads go together.
Loop ==
    /\ reporter \in {"graphite", "console"}
    /\ TypeOK
    /\ lpc # "idle" => loop = "running" /\ writes < MaxWrites
    /\ loop = "running" => running /\ object = "whole"
    /\ stream = "connecting" => state = "CONNECTING"
    /\ writes > 0 => state = "CONNECTED"
    /\ state = "CONNECTED" /\ object = "whole" => stream = "open"
    /\ lpc \in Kind \cup {"write"} /\ reporter = "graphite" => state = "CONNECTED"
    /\ lpc = "write" => reporter = "graphite"
    /\ object # "gone" => registry

\* What the report lacks is in the maps it has not copied yet.
Collected ==
    /\ lpc = "counter" => due \subseteq report \cup ToMap("counter") \cup ToMap("timer") \cup ToMap("meter")
    /\ lpc = "timer" => due \subseteq report \cup ToMap("timer") \cup ToMap("meter")
    /\ lpc = "meter" => due \subseteq report \cup ToMap("meter")
    /\ lpc \in {"write", "printed"} => due \subseteq report
    /\ registry => report \subseteq allocated

ReporterInv == RegistryInv /\ Loop /\ Collected

-----------------------------------------------------------------------------
(* The registry *)

\* The site of a running macro, and its kind and name.
LEMMA SiteOfMacro ==
    ASSUME RegistryInv, NEW t \in Thread, th[t].pc # "idle"
    PROVE  /\ th[t].site \in Site /\ KindOf(t) \in Kind /\ NameOf(t) \in Name /\ registry
           /\ metrics[KindOf(t)][NameOf(t)] \in Metric \cup {Null}
  <1>1. th[t].site \in Site /\ registry
    BY DEF RegistryInv, Macros, MacroOf
  <1>2. KindOf(t) \in Kind /\ NameOf(t) \in Name
    BY <1>1, SiteAssumption DEF KindOf, NameOf
  <1> QED  BY <1>1, <1>2 DEF RegistryInv, RegistryType

\* A macro entered for a site.
LEMMA EnterStep ==
    ASSUME RegistryInv, NEW t \in Thread, NEW s \in Site, Enter(t, s)
    PROVE  RegistryInv'
  <1> USE NullAssumption DEF RegistryInv
  <1> DEFINE e == [Idle EXCEPT !.site = s, !.pc = "once"]
  <1>1. registry /\ th[t].pc = "idle" /\ th' = [th EXCEPT ![t] = e]
        /\ UNCHANGED <<mutex, metrics, allocated, once, var, registry>>
    BY DEF Enter
  <1>2. e.pc = "once" /\ e.site = s /\ e \in ThreadState
    BY DEF Idle, ThreadState, PCs
  <1> HIDE DEF e
  <1>3. /\ th'[t].pc = "once" /\ th'[t].site = s
        /\ \A u \in Thread : u # t => th'[u] = th[u]
    BY <1>1, <1>2 DEF RegistryType
  <1>4. Macros'
    BY <1>1, <1>3 DEF Macros, MacroOf, Initializing, KindOf, NameOf
  <1>5. OneInitializer'
    BY <1>1, <1>3 DEF OneInitializer, Initializing
  <1>6. Sites' /\ MetricsExist'
    BY <1>1 DEF Sites, SiteOf, MetricsExist
  <1>7. RegistryType'
    BY <1>1, <1>2 DEF RegistryType
  <1> QED  BY <1>4, <1>5, <1>6, <1>7

\* The step of a thread leaves what the others know, if it changes no static and
\* no mutex of theirs and only adds to the maps.
LEMMA OthersKnow ==
    ASSUME RegistryInv, NEW t \in Thread, NEW u \in Thread, u # t,
           th'[u] = th[u], registry' = registry,
           Initializing(u) => once'[th[u].site] = once[th[u].site] /\ var'[th[u].site] = var[th[u].site],
           th[u].pc = "use" => once'[th[u].site] = once[th[u].site],
           th[u].pc \in {"create", "unlock"} =>
               /\ mutex'[KindOf(u)] = mutex[KindOf(u)]
               /\ metrics'[KindOf(u)][NameOf(u)] = metrics[KindOf(u)][NameOf(u)],
           th[u].pc \in {"assign", "initialized"} => metrics'[KindOf(u)][NameOf(u)] = metrics[KindOf(u)][NameOf(u)]
    PROVE  MacroOf(u)'
  <1>1. MacroOf(u)
    BY DEF RegistryInv, Macros
  <1>2. KindOf(u)' = KindOf(u) /\ NameOf(u)' = NameOf(u) /\ (Initializing(u)' <=> Initializing(u))
    BY DEF KindOf, NameOf, Initializing
  <1>3. th[u].pc = "initialized" => Initializing(u)
    BY DEF Initializing
  <1> QED  BY <1>1, <1>2, <1>3 DEF MacroOf

\* STATIC_DEFINE_ONCE decides who initialises.
LEMMA OnceStep ==
    ASSUME RegistryInv, NEW t \in Thread, Once(t)
    PROVE  RegistryInv'
  <1> USE NullAssumption DEF RegistryInv
  <1> DEFINE s == th[t].site
  <1>1. s \in Site
    BY SiteOfMacro DEF Once
  <1>2. /\ th[t].pc = "once" /\ once[s] # "initializing"
        /\ once' = [once EXCEPT ![s] = IF @ = "uninitialized" THEN "initializing" ELSE @]
        /\ th' = [th EXCEPT ![t].pc = IF once[s] = "uninitialized" THEN "find" ELSE "use"]
        /\ UNCHANGED <<mutex, metrics, allocated, var, registry>>
    BY DEF Once
  <1>3. RegistryType'
    BY <1>1, <1>2 DEF RegistryType, ThreadState, PCs
  <1>4. /\ th'[t].pc = (IF once[s] = "uninitialized" THEN "find" ELSE "use")
        /\ th'[t].site = s /\ th'[t].ret = th[t].ret
        /\ \A u \in Thread : u # t => th'[u] = th[u]
    BY <1>2 DEF RegistryType, ThreadState
  <1>5. /\ once'[s] = (IF once[s] = "uninitialized" THEN "initializing" ELSE once[s])
        /\ \A x \in Site : x # s => once'[x] = once[x]
    BY <1>1, <1>2 DEF RegistryType
  <1>6. \A u \in Thread : Initializing(u) \/ th[u].pc = "use" => th[u].site \in Site /\ once'[th[u].site] = once[th[u].site]
    <2> SUFFICES ASSUME NEW u \in Thread, Initializing(u) \/ th[u].pc = "use"
                 PROVE  th[u].site \in Site /\ once'[th[u].site] = once[th[u].site]
      OBVIOUS
    <2>1. th[u].site \in Site /\ once[th[u].site] \in {"initializing", "initialized"}
      BY DEF Macros, MacroOf, Initializing
    <2> QED  BY <1>2, <1>5, <2>1
  <1> HIDE DEF s
  <1>7. MacroOf(t)'
    <2>1. CASE once[s] = "uninitialized"
      BY <1>1, <1>2, <1>4, <1>5, <2>1 DEF Macros, MacroOf, Initializing
    <2>2. CASE once[s] = "initialized"
      BY <1>1, <1>2, <1>4, <1>5, <2>2 DEF Macros, MacroOf, Initializing
    <2>3. once[s] \in {"uninitialized", "initialized"}
      BY <1>1, <1>2 DEF RegistryType
    <2> QED  BY <2>1, <2>2, <2>3
  <1>8. \A u \in Thread : u # t => MacroOf(u)'
    BY <1>2, <1>4, <1>6, OthersKnow
  <1>9. Macros'
    BY <1>7, <1>8 DEF Macros
  <1>10. OneInitializer'
    <2>1. ASSUME NEW u \in Thread, u # t, Initializing(u), Initializing(t)' PROVE th[u].site # s
      <3>1. once[th[u].site] = "initializing"
        BY <2>1 DEF Macros, MacroOf
      <3> QED  BY <1>2, <3>1
    <2>2. \A u \in Thread : u # t => (Initializing(u)' <=> Initializing(u)) /\ th'[u].site = th[u].site
      BY <1>4 DEF Initializing
    <2> QED  BY <1>4, <2>1, <2>2 DEF OneInitializer
  <1>11. Sites'
    BY <1>2, <1>5 DEF Sites, SiteOf
  <1>12. MetricsExist'
    BY <1>2 DEF MetricsExist
  <1> QED  BY <1>3, <1>9, <1>10, <1>11, <1>12

\* The mutex taken and the map searched.
LEMMA FindStep ==
    ASSUME RegistryInv, NEW t \in Thread, Find(t)
    PROVE  RegistryInv'
  <1> USE NullAssumption DEF RegistryInv
  <1> DEFINE k == KindOf(t)
             m == metrics[KindOf(t)][NameOf(t)]
  <1>1. th[t].site \in Site /\ k \in Kind /\ m \in Metric \cup {Null} /\ th[t].pc = "find" /\ mutex[k] = Null
    BY SiteOfMacro DEF Find, Free
  <1>2. /\ mutex' = [mutex EXCEPT ![k] = t]
        /\ th' = [th EXCEPT ![t].ret = m, ![t].pc = IF m = Null THEN "create" ELSE "unlock"]
        /\ UNCHANGED <<metrics, allocated, once, var, registry>>
    BY DEF Find
  <1>3. /\ th'[t].pc = (IF m = Null THEN "create" ELSE "unlock")
        /\ th'[t].site = th[t].site /\ th'[t].ret = m
        /\ \A u \in Thread : u # t => th'[u] = th[u]
    BY <1>2 DEF RegistryType, ThreadState
  <1>4. mutex'[k] = t /\ \A j \in Kind : j # k => mutex'[j] = mutex[j]
    BY SMTT(40), <1>1, <1>2 DEF RegistryType
  <1>5. KindOf(t)' = k /\ metrics'[KindOf(t)'][NameOf(t)'] = m
    BY <1>2, <1>3 DEF KindOf, NameOf
  <1> HIDE DEF k, m
  <1>6. RegistryType'
    BY <1>1, <1>2 DEF RegistryType, ThreadState, PCs
  <1>7. MacroOf(t)'
    BY <1>1, <1>2, <1>3, <1>4, <1>5 DEF Macros, MacroOf, Initializing
  <1>8. \A u \in Thread : u # t => MacroOf(u)'
    <2> SUFFICES ASSUME NEW u \in Thread, u # t PROVE MacroOf(u)'
      OBVIOUS
    <2>1. th[u].pc \in {"create", "unlock"} => KindOf(u) \in Kind /\ KindOf(u) # k
      <3>1. th[u].pc \in {"create", "unlock"} => mutex[KindOf(u)] = u /\ th[u].site \in Site
        BY DEF Macros, MacroOf
      <3> QED  BY <1>1, <3>1, SiteAssumption DEF KindOf
    <2> QED  BY <1>2, <1>3, <1>4, <2>1, OthersKnow
  <1>9. Macros'
    BY <1>7, <1>8 DEF Macros
  <1>10. OneInitializer'
    BY <1>1, <1>3 DEF OneInitializer, Initializing
  <1>11. Sites' /\ MetricsExist'
    BY <1>2 DEF Sites, SiteOf, MetricsExist
  <1> QED  BY <1>6, <1>9, <1>10, <1>11

\* A metric made and inserted under the mutex.
LEMMA CreateStep ==
    ASSUME RegistryInv, NEW t \in Thread, Create(t)
    PROVE  RegistryInv'
  <1> USE NullAssumption DEF RegistryInv
  <1> DEFINE k == KindOf(t)
             n == NameOf(t)
  <1>1. PICK m \in Metric \ allocated :
           /\ allocated' = allocated \cup {m}
           /\ metrics' = [metrics EXCEPT ![k][n] = m]
           /\ th' = [th EXCEPT ![t].ret = m, ![t].pc = "unlock"]
    BY DEF Create
  <1>2. /\ th[t].pc = "create" /\ UNCHANGED <<mutex, once, var, registry>>
        /\ th[t].site \in Site /\ k \in Kind /\ n \in Name
    BY SiteOfMacro DEF Create
  <1>3. mutex[k] = t /\ metrics[k][n] = Null
    BY <1>2 DEF Macros, MacroOf
  <1>4. /\ th'[t].pc = "unlock" /\ th'[t].site = th[t].site /\ th'[t].ret = m
        /\ \A u \in Thread : u # t => th'[u] = th[u]
    BY <1>1 DEF RegistryType, ThreadState
  <1>5. \A j \in Kind, l \in Name : metrics'[j][l] = IF j = k /\ l = n THEN m ELSE metrics[j][l]
    BY <1>1, <1>2 DEF RegistryType
  <1>6. KindOf(t)' = k /\ NameOf(t)' = n /\ m # Null
    BY <1>4 DEF KindOf, NameOf
  <1> HIDE DEF k, n
  <1>7. RegistryType'
    <2>1. th' \in [Thread -> ThreadState]
      BY ZenonT(60), <1>1 DEF RegistryType, ThreadState, PCs
    <2>2. metrics' \in [Kind -> [Name -> Metric \cup {Null}]]
      BY <1>1, <1>2 DEF RegistryType
    <2> QED  BY <1>1, <1>2, <2>1, <2>2 DEF RegistryType
  <1>8. MacroOf(t)'
    BY <1>2, <1>3, <1>4, <1>5, <1>6 DEF Macros, MacroOf, Initializing
  <1>9. \A u \in Thread : u # t => MacroOf(u)'
    <2> SUFFICES ASSUME NEW u \in Thread, u # t PROVE MacroOf(u)'
      OBVIOUS
    <2>1. th[u].pc \in {"create", "unlock", "assign", "initialized"} => KindOf(u) \in Kind /\ NameOf(u) \in Name
      BY SiteOfMacro
    <2>2. th[u].pc \in {"create", "unlock"} => KindOf(u) # k
      BY <1>3 DEF Macros, MacroOf
    <2>3. th[u].pc \in {"assign", "initialized"} => metrics[KindOf(u)][NameOf(u)] # Null
      BY DEF Macros, MacroOf
    <2>4. th[u].pc \in {"create", "unlock"} => metrics'[KindOf(u)][NameOf(u)] = metrics[KindOf(u)][NameOf(u)]
      BY <1>5, <2>1, <2>2
    <2>5. th[u].pc \in {"assign", "initialized"} => metrics'[KindOf(u)][NameOf(u)] = metrics[KindOf(u)][NameOf(u)]
      BY <1>3, <1>5, <2>1, <2>3
    <2> QED  BY <1>2, <1>4, <2>4, <2>5, OthersKnow
  <1>10. Macros'
    BY <1>8, <1>9 DEF Macros
  <1>11. OneInitializer'
    BY <1>2, <1>4 DEF OneInitializer, Initializing
  <1>12. Sites'
    <2> SUFFICES ASSUME NEW s \in Site PROVE SiteOf(s)'
      BY DEF Sites
    <2>1. SiteOf(s) /\ SiteKind[s] \in Kind /\ SiteName[s] \in Name
      BY SiteAssumption DEF Sites
    <2> QED  BY <1>2, <1>3, <1>5, <2>1 DEF SiteOf
  <1>13. MetricsExist'
    BY <1>1, <1>2, <1>5 DEF MetricsExist
  <1> QED  BY <1>7, <1>10, <1>11, <1>12, <1>13

\* The mutex released.
LEMMA UnlockStep ==
    ASSUME RegistryInv, NEW t \in Thread, Unlock(t)
    PROVE  RegistryInv'
  <1> USE NullAssumption DEF RegistryInv
  <1> DEFINE k == KindOf(t)
  <1>1. th[t].site \in Site /\ k \in Kind /\ th[t].pc = "unlock"
    BY SiteOfMacro DEF Unlock
  <1>2. /\ mutex' = [mutex EXCEPT ![k] = Null] /\ th' = [th EXCEPT ![t].pc = "assign"]
        /\ UNCHANGED <<metrics, allocated, once, var, registry>>
    BY DEF Unlock
  <1>3. /\ th'[t].pc = "assign" /\ th'[t].site = th[t].site /\ th'[t].ret = th[t].ret
        /\ \A u \in Thread : u # t => th'[u] = th[u]
    BY <1>2 DEF RegistryType, ThreadState
  <1>4. mutex[k] = t /\ \A j \in Kind : j # k => mutex'[j] = mutex[j]
    BY <1>1, <1>2 DEF RegistryType, Macros, MacroOf
  <1>5. KindOf(t)' = k /\ NameOf(t)' = NameOf(t)
    BY <1>3 DEF KindOf, NameOf
  <1> HIDE DEF k
  <1>6. RegistryType'
    BY ZenonT(60), <1>1, <1>2 DEF RegistryType, ThreadState, PCs
  <1>7. MacroOf(t)'
    BY <1>1, <1>2, <1>3, <1>5 DEF k, Macros, MacroOf, Initializing
  <1>8. \A u \in Thread : u # t => MacroOf(u)'
    <2> SUFFICES ASSUME NEW u \in Thread, u # t PROVE MacroOf(u)'
      OBVIOUS
    <2>1. th[u].pc \in {"create", "unlock"} => KindOf(u) \in Kind /\ KindOf(u) # k
      <3>1. th[u].pc \in {"create", "unlock"} => mutex[KindOf(u)] = u /\ th[u].site \in Site
        BY DEF Macros, MacroOf
      <3> QED  BY <1>4, <3>1, SiteAssumption DEF KindOf
    <2> QED  BY <1>2, <1>3, <1>4, <2>1, OthersKnow
  <1>9. Macros'
    BY <1>7, <1>8 DEF Macros
  <1>10. OneInitializer'
    BY <1>1, <1>3 DEF OneInitializer, Initializing
  <1>11. Sites' /\ MetricsExist'
    BY <1>2 DEF Sites, SiteOf, MetricsExist
  <1> QED  BY <1>6, <1>9, <1>10, <1>11

\* The static assigned.
LEMMA AssignStep ==
    ASSUME RegistryInv, NEW t \in Thread, Assign(t)
    PROVE  RegistryInv'
  <1> USE NullAssumption DEF RegistryInv
  <1> DEFINE s == th[t].site
             r == th[t].ret
  <1>1. s \in Site /\ th[t].pc = "assign" /\ r # Null /\ r = metrics[SiteKind[s]][SiteName[s]]
    <2>1. th[t].pc = "assign"
      BY DEF Assign
    <2> QED  BY <2>1 DEF Macros, MacroOf, KindOf, NameOf
  <1>2. /\ var' = [var EXCEPT ![s] = r] /\ th' = [th EXCEPT ![t].pc = "initialized"]
        /\ UNCHANGED <<mutex, metrics, allocated, once, registry>>
    BY DEF Assign
  <1>3. /\ th'[t].pc = "initialized" /\ th'[t].site = s /\ th'[t].ret = r
        /\ \A u \in Thread : u # t => th'[u] = th[u]
    BY <1>2 DEF RegistryType, ThreadState
  <1>4. \A x \in Site : var'[x] = IF x = s THEN r ELSE var[x]
    BY <1>2 DEF RegistryType
  <1>5. KindOf(t)' = KindOf(t) /\ NameOf(t)' = NameOf(t)
    BY <1>3 DEF KindOf, NameOf
  <1>6. RegistryType'
    <2>1. r \in Metric \cup {Null}
      BY DEF RegistryType, ThreadState
    <2> HIDE DEF r, s
    <2> QED  BY ZenonT(60), <1>1, <1>2, <2>1 DEF RegistryType, ThreadState, PCs
  <1>7. MacroOf(t)'
    BY <1>1, <1>2, <1>3, <1>4, <1>5 DEF Macros, MacroOf, Initializing
  <1>8. \A u \in Thread : u # t => MacroOf(u)'
    <2> SUFFICES ASSUME NEW u \in Thread, u # t PROVE MacroOf(u)'
      OBVIOUS
    <2>1. Initializing(u) => th[u].site \in Site /\ th[u].site # s
      BY <1>1 DEF Macros, MacroOf, OneInitializer, Initializing
    <2>2. Initializing(u) => var'[th[u].site] = var[th[u].site]
      BY <1>4, <2>1
    <2> QED  BY <1>2, <1>3, <2>2, OthersKnow
  <1>9. Macros'
    BY <1>7, <1>8 DEF Macros
  <1>10. OneInitializer'
    BY SMTT(40), <1>1, <1>3 DEF OneInitializer, Initializing
  <1>11. Sites' /\ MetricsExist'
    BY <1>1, <1>2, <1>4 DEF Sites, SiteOf, MetricsExist
  <1> QED  BY <1>6, <1>9, <1>10, <1>11

\* The site initialised.
LEMMA InitializedStep ==
    ASSUME RegistryInv, NEW t \in Thread, Initialized(t)
    PROVE  RegistryInv'
  <1> USE NullAssumption DEF RegistryInv
  <1> DEFINE s == th[t].site
  <1>1. s \in Site /\ th[t].pc = "initialized" /\ var[s] # Null
    <2>1. th[t].pc = "initialized"
      BY DEF Initialized
    <2> QED  BY <2>1 DEF Macros, MacroOf
  <1>2. /\ once' = [once EXCEPT ![s] = "initialized"] /\ th' = [th EXCEPT ![t].pc = "use"]
        /\ UNCHANGED <<mutex, metrics, allocated, var, registry>>
    BY DEF Initialized
  <1>3. /\ th'[t].pc = "use" /\ th'[t].site = s /\ th'[t].ret = th[t].ret
        /\ \A u \in Thread : u # t => th'[u] = th[u]
    BY <1>2 DEF RegistryType, ThreadState
  <1>4. \A x \in Site : once'[x] = IF x = s THEN "initialized" ELSE once[x]
    BY <1>2 DEF RegistryType
  <1>5. RegistryType'
    <2> HIDE DEF s
    <2> QED  BY ZenonT(60), <1>1, <1>2 DEF RegistryType, ThreadState, PCs
  <1>6. MacroOf(t)'
    BY <1>1, <1>2, <1>3, <1>4 DEF Macros, MacroOf, Initializing
  <1>7. \A u \in Thread : u # t => MacroOf(u)'
    <2> SUFFICES ASSUME NEW u \in Thread, u # t PROVE MacroOf(u)'
      OBVIOUS
    <2>1. Initializing(u) => th[u].site \in Site /\ th[u].site # s
      BY <1>1 DEF Macros, MacroOf, OneInitializer, Initializing
    <2>2. th[u].pc = "use" => th[u].site \in Site /\ once[th[u].site] = "initialized"
      BY DEF Macros, MacroOf
    <2>3. /\ Initializing(u) => once'[th[u].site] = once[th[u].site]
          /\ th[u].pc = "use" => once'[th[u].site] = once[th[u].site]
      BY <1>4, <2>1, <2>2
    <2> QED  BY <1>2, <1>3, <2>3, OthersKnow
  <1>8. Macros'
    BY <1>6, <1>7 DEF Macros
  <1>9. OneInitializer'
    BY <1>1, <1>3 DEF OneInitializer, Initializing
  <1>10. Sites' /\ MetricsExist'
    BY <1>1, <1>2, <1>4 DEF Sites, SiteOf, MetricsExist
  <1> QED  BY <1>5, <1>8, <1>9, <1>10

\* The metric updated through the static.
LEMMA UseStep ==
    ASSUME RegistryInv, NEW t \in Thread, Use(t)
    PROVE  RegistryInv'
  <1> USE NullAssumption DEF RegistryInv
  <1>1. /\ th' = [th EXCEPT ![t] = Idle] /\ UNCHANGED <<mutex, metrics, allocated, once, var, registry>>
    BY DEF Use
  <1>2. th'[t].pc = "idle" /\ \A u \in Thread : u # t => th'[u] = th[u]
    BY <1>1 DEF RegistryType, Idle
  <1>3. RegistryType'
    BY <1>1 DEF RegistryType, ThreadState, PCs, Idle
  <1>4. MacroOf(t)'
    BY <1>2 DEF MacroOf, Initializing
  <1>5. \A u \in Thread : u # t => MacroOf(u)'
    BY <1>1, <1>2, OthersKnow
  <1>6. Macros' /\ OneInitializer'
    BY <1>2, <1>4, <1>5 DEF Macros, OneInitializer, Initializing
  <1>7. Sites' /\ MetricsExist'
    BY <1>1 DEF Sites, SiteOf, MetricsExist
  <1> QED  BY <1>3, <1>6, <1>7

\* The registry destroyed, when no macro runs.
LEMMA DestroyRegistryStep ==
    ASSUME RegistryInv, DestroyRegistry
    PROVE  RegistryInv'
  <1> USE NullAssumption DEF RegistryInv
  <1>1. /\ (\A t \in Thread : th[t].pc = "idle") /\ ~registry' /\ allocated' \subseteq allocated
        /\ UNCHANGED <<mutex, metrics, once, var, th>>
    BY DEF DestroyRegistry
  <1>2. RegistryType'
    BY <1>1 DEF RegistryType, DestroyRegistry
  <1>3. Macros' /\ OneInitializer'
    BY <1>1 DEF Macros, MacroOf, OneInitializer, Initializing
  <1>4. Sites' /\ MetricsExist'
    BY <1>1 DEF Sites, SiteOf, MetricsExist
  <1> QED  BY <1>2, <1>3, <1>4

\* The registry and the call sites agree at the start.
LEMMA RegistryInitially == RegistryInit => RegistryInv
  <1> SUFFICES ASSUME RegistryInit PROVE RegistryInv
    OBVIOUS
  <1>1. RegistryType
    BY DEF RegistryInit, RegistryType, ThreadState, PCs, Idle
  <1>2. \A t \in Thread : th[t].pc = "idle"
    BY DEF RegistryInit, Idle
  <1>3. Macros /\ OneInitializer
    BY <1>2 DEF Macros, MacroOf, OneInitializer, Initializing
  <1>4. Sites /\ MetricsExist
    BY DEF RegistryInit, Sites, SiteOf, MetricsExist
  <1> QED  BY <1>1, <1>3, <1>4 DEF RegistryInv

\* They keep agreeing, whatever the reporter does.
LEMMA RegistryStep == RegistryInv /\ [Next]_vars => RegistryInv'
  <1> SUFFICES ASSUME RegistryInv, [Next]_vars PROVE RegistryInv'
    OBVIOUS
  <1>1. CASE UNCHANGED registryVars
    BY <1>1 DEF registryVars, RegistryInv, RegistryType, Macros, MacroOf, Initializing, KindOf, NameOf,
                OneInitializer, Sites, SiteOf, MetricsExist
  <1>2. CASE RegistryNext
    BY <1>2, EnterStep, OnceStep, FindStep, CreateStep, UnlockStep, AssignStep, InitializedStep, UseStep
       DEF RegistryNext, MacroStep
  <1>3. CASE DestroyRegistry
    BY <1>3, DestroyRegistryStep
  <1>4. UNCHANGED registryVars \/ RegistryNext \/ DestroyRegistry
    BY DEF Next, vars, Start, Stop, Join, Destroy, RunPosted, Expired, Reports, ReportConnects, ReportBegins,
           WriteMetrics, PrintMetrics, Gather, Write, Printed, Connected, ConnectComplete, ConnectError,
           Written, WriteComplete, WriteError, LoopEnds
  <1> QED  BY <1>1, <1>2, <1>3, <1>4

\* Every call site uses the one metric the registry has under its kind and name,
\* for any number of threads and sites racing to their first use.
THEOREM SitesAlwaysAgree == Spec => []SitesAgree
  <1>1. Init => RegistryInv
    BY RegistryInitially DEF Init
  <1>2. RegistryInv => SitesAgree
    BY DEF RegistryInv, Macros, MacroOf, Sites, SiteOf, SitesAgree
  <1> QED  BY <1>1, <1>2, RegistryStep, PTL DEF Spec

-----------------------------------------------------------------------------
(* The reporter *)

\* The state of the connection, the timer and the two threads stay together.
LEMMA LoopStep ==
    ASSUME StopsFirst, ReporterInv, RegistryInv', Next
    PROVE  Loop'
  <1> USE ReporterAssumption DEF ReporterInv, Loop, TypeOK, registryVars
  <1>0. /\ th' \in [Thread -> [pc : {"idle", "once", "find", "create", "unlock", "assign", "initialized", "use"},
                                site : Site \cup {Null}, ret : Metric \cup {Null}]]
        /\ \A k \in Kind : ToMap(k) \subseteq Metric
        /\ {var[s] : s \in Site} \ {Null} \subseteq Metric
    <2>1. RegistryType /\ RegistryType'
      BY DEF RegistryInv
    <2> QED  BY <2>1 DEF RegistryType, ThreadState, PCs, ToMap, Range
  <1> USE <1>0
  <1>1. CASE Start
    BY <1>1 DEF Start
  <1>2. CASE Stop
    BY ZenonT(60), <1>2 DEF Stop, StopBody
  <1>3. CASE Join
    BY ZenonT(60), <1>3 DEF Join
  <1>4. CASE Destroy
    <2>0. loop # "running" /\ main = "idle"
      BY <1>4 DEF Destroy
    <2>1. TypeOK'
      <3>1. timer' = FALSE /\ main' = "join" /\ posted' = posted
        BY <1>4, <2>0 DEF Destroy, StopBody
      <3>2. /\ UNCHANGED <<state, running, loop, lpc, report, due>> /\ writes' = 0 /\ object' = "half"
            /\ stream' \in {"none", "closed"}
        BY <1>4 DEF Destroy
      <3>3. posted = "none"
        BY <2>0
      <3>4. timer' \in BOOLEAN /\ running' \in BOOLEAN
        BY <3>1, <3>2, Zenon
      <3> QED  BY <3>1, <3>2, <3>3, <3>4
    <2> QED  BY <1>4, <2>1 DEF Destroy, StopBody
  <1>5. CASE RunPosted
    BY <1>5 DEF RunPosted, Idling, Registered
  <1>6. CASE Expired
    <2>1. TypeOK'
      BY <1>6 DEF Expired, Idling, Kind
    <2> QED  BY <1>6, <2>1 DEF Expired, Idling, Kind
  <1>7. CASE ReportConnects
    <2>1. TypeOK'
      BY <1>7 DEF ReportConnects, Kind
    <2> QED  BY <1>7, <2>1 DEF ReportConnects, Kind
  <1>8. CASE ReportBegins
    <2>1. TypeOK'
      BY <1>8 DEF ReportBegins, Kind
    <2> QED  BY <1>8, <2>1 DEF ReportBegins, Kind
  <1>9. CASE WriteMetrics
    BY <1>9 DEF WriteMetrics, Gather, Following, Kind
  <1>10. CASE PrintMetrics
    BY <1>10 DEF PrintMetrics, Gather, Following, Kind
  <1>11. CASE Write
    BY <1>11 DEF Write, Reported
  <1>12. CASE Printed
    <2>1. TypeOK'
      BY <1>12 DEF Printed, Reported, Kind
    <2> QED  BY <1>12, <2>1 DEF Printed, Reported, Kind
  <1>13. CASE ConnectComplete
    BY <1>13 DEF ConnectComplete, Idling
  <1>14. CASE ConnectError
    BY <1>14 DEF ConnectError, Idling, Failed
  <1>15. CASE WriteComplete
    BY <1>15 DEF WriteComplete, Idling
  <1>16. CASE WriteError
    <2>1. TypeOK'
      BY <1>16 DEF WriteError, Idling, Failed, Kind
    <2> QED  BY <1>16, <2>1 DEF WriteError, Idling, Failed, Kind
  <1>17. CASE LoopEnds
    BY <1>17 DEF LoopEnds, Idling
  <1>18. CASE RegistryNext /\ UNCHANGED reporterVars
    <2>1. UNCHANGED registry
      BY <1>18 DEF RegistryNext, MacroStep, Enter, Once, Find, Create, Unlock, Assign, Initialized, Use
    <2> QED  BY <1>18, <2>1 DEF reporterVars
  <1>19. CASE object = "gone" /\ DestroyRegistry /\ UNCHANGED reporterVars
    BY <1>19 DEF reporterVars
  <1> QED
    BY <1>1, <1>2, <1>3, <1>4, <1>5, <1>6, <1>7, <1>8, <1>9, <1>10, <1>11, <1>12, <1>13, <1>14, <1>15, <1>16, <1>17, <1>18, <1>19 DEF Next, Reports, Connected, Written

\* The maps only grow: an entry is written once, where there was none.
LEMMA MapsGrow ==
    ASSUME RegistryInv, RegistryInv', RegistryNext
    PROVE  /\ \A k \in Kind : ToMap(k) \subseteq ToMap(k)'
           /\ allocated \subseteq allocated' /\ UNCHANGED registry
  <1>1. PICK t \in Thread : MacroStep(t) \/ \E s \in Site : Enter(t, s)
    BY DEF RegistryNext
  <1>2. CASE Create(t)
    <2>1. th[t].pc = "create" /\ allocated \subseteq allocated' /\ UNCHANGED registry
      BY <1>2 DEF Create
    <2>2. KindOf(t) \in Kind /\ NameOf(t) \in Name /\ metrics[KindOf(t)][NameOf(t)] = Null
      BY <2>1, SiteOfMacro DEF RegistryInv, Macros, MacroOf
    <2>3. PICK m : metrics' = [metrics EXCEPT ![KindOf(t)][NameOf(t)] = m]
      BY <1>2 DEF Create
    <2>4. \A k \in Kind, n \in Name : metrics[k][n] # Null => metrics'[k][n] = metrics[k][n]
      BY <2>2, <2>3 DEF RegistryInv, RegistryType
    <2>5. /\ \A k \in Kind : DOMAIN metrics[k] = Name
          /\ \A k \in Kind : DOMAIN metrics'[k] = Name
      BY DEF RegistryInv, RegistryType
    <2>6. ASSUME NEW k \in Kind PROVE ToMap(k) \subseteq ToMap(k)'
      BY <2>4, <2>5 DEF ToMap, Range
    <2> QED  BY <2>1, <2>6
  <1>3. CASE ~Create(t)
    <2>1. UNCHANGED <<metrics, allocated, registry>>
      BY <1>1, <1>3 DEF MacroStep, Enter, Once, Find, Unlock, Assign, Initialized, Use
    <2> QED  BY <2>1 DEF ToMap
  <1> QED  BY <1>2, <1>3

\* What a report collects: each map as it is when its turn comes.
LEMMA CollectedStep ==
    ASSUME StopsFirst, ReporterInv, RegistryInv', Loop', Next
    PROVE  Collected'
  <1> USE DEF ReporterInv, registryVars
  <1>1. \A s \in Site : var[s] # Null => var[s] \in ToMap("counter") \cup ToMap("timer") \cup ToMap("meter")
    <2> SUFFICES ASSUME NEW s \in Site, var[s] # Null
                 PROVE  \E k \in Kind : var[s] \in ToMap(k)
      BY DEF Kind
    <2>1. /\ SiteKind[s] \in Kind /\ SiteName[s] \in Name
          /\ var[s] = metrics[SiteKind[s]][SiteName[s]]
      BY SiteAssumption DEF RegistryInv, Sites, SiteOf
    <2>2. DOMAIN metrics[SiteKind[s]] = Name
      BY <2>1 DEF RegistryInv, RegistryType
    <2> QED  BY <2>1, <2>2 DEF ToMap, Range
  <1>2. registry => \A k \in Kind : ToMap(k) \subseteq allocated
    BY DEF RegistryInv, RegistryType, MetricsExist, ToMap, Range
  <1>3. ASSUME UNCHANGED <<report, due, registryVars>>,
               lpc' = lpc \/ lpc' \in {"idle", "report"}
        PROVE  Collected'
    BY <1>3 DEF Collected, ToMap
  <1>4. CASE Start \/ Stop \/ Join \/ Destroy \/ RunPosted \/ Expired \/ Connected \/ Written \/ LoopEnds \/ ReportConnects
    BY <1>3, <1>4 DEF Start, Stop, Join, Destroy, RunPosted, Expired, ReportConnects, Connected, ConnectComplete,
                      ConnectError, Written, WriteComplete, WriteError, LoopEnds
  <1>5. CASE Write \/ Printed
    BY <1>5 DEF Write, Printed, Reported, Collected
  <1>6. CASE ReportBegins
    <2>1. lpc' = "counter" /\ report' = {} /\ due' = {var[s] : s \in Site} \ {Null} /\ UNCHANGED registryVars
      BY <1>6 DEF ReportBegins
    <2> QED  BY <1>1, <2>1 DEF Collected, ToMap
  <1>7. CASE WriteMetrics \/ PrintMetrics
    <2>1. PICK last \in {"write", "printed"} : Gather(Following(lpc, last))
      BY <1>7 DEF WriteMetrics, PrintMetrics
    <2>2. /\ lpc \in Kind /\ report' = report \cup ToMap(lpc) /\ lpc' = Following(lpc, last)
          /\ UNCHANGED registryVars /\ UNCHANGED due
      BY <2>1 DEF Gather
    <2>3. registry' => report' \subseteq allocated'
      BY <1>2, <2>2 DEF Collected
    <2>4. \A k : ToMap(k)' = ToMap(k)
      BY <2>2 DEF ToMap
    <2>5. CASE lpc = "counter"
      <3>1. lpc' = "timer"
        BY <2>2, <2>5 DEF Following
      <3> QED  BY <2>2, <2>3, <2>4, <2>5, <3>1 DEF Collected
    <2>6. CASE lpc = "timer"
      <3>1. lpc' = "meter"
        BY <2>2, <2>6 DEF Following
      <3> QED  BY <2>2, <2>3, <2>4, <2>6, <3>1 DEF Collected
    <2>7. CASE lpc = "meter"
      <3>1. lpc' = last
        BY <2>2, <2>7 DEF Following
      <3> QED  BY <2>2, <2>3, <2>7, <3>1 DEF Collected
    <2> QED  BY <2>2, <2>5, <2>6, <2>7 DEF Kind
  <1>8. CASE RegistryNext /\ UNCHANGED reporterVars
    <2>1. /\ ToMap("counter") \subseteq ToMap("counter")' /\ ToMap("timer") \subseteq ToMap("timer")'
          /\ ToMap("meter") \subseteq ToMap("meter")' /\ allocated \subseteq allocated' /\ UNCHANGED registry
      BY <1>8, MapsGrow DEF Kind
    <2>2. UNCHANGED <<lpc, report, due>>
      BY <1>8 DEF reporterVars
    <2> QED  BY <2>1, <2>2 DEF Collected
  <1>9. CASE object = "gone" /\ DestroyRegistry /\ UNCHANGED reporterVars
    <2>1. UNCHANGED <<lpc, report, due, metrics>> /\ ~registry'
      BY <1>9 DEF reporterVars, DestroyRegistry
    <2> QED  BY <2>1 DEF Collected, ToMap
  <1> QED  BY <1>4, <1>5, <1>6, <1>7, <1>8, <1>9 DEF Next, Reports

\* The reporter's invariant holds before it is started.
LEMMA ReporterInitially == Init => ReporterInv
  <1> SUFFICES ASSUME Init PROVE ReporterInv
    OBVIOUS
  <1>1. RegistryInv
    BY RegistryInitially DEF Init
  <1>2. th \in [Thread -> [pc : {"idle", "once", "find", "create", "unlock", "assign", "initialized", "use"},
                           site : Site \cup {Null}, ret : Metric \cup {Null}]]
    BY <1>1 DEF RegistryInv, RegistryType, ThreadState, PCs
  <1>3. Loop
    <2>1. running \in BOOLEAN /\ timer \in BOOLEAN
      BY Zenon DEF Init
    <2>2. TypeOK
      BY <1>2, <2>1, ReporterAssumption DEF Init, TypeOK
    <2>3. registry
      BY DEF Init, RegistryInit
    <2> QED  BY <2>2, <2>3 DEF Init, Loop, Kind
  <1>4. Collected
    BY DEF Init, Collected
  <1> QED  BY <1>1, <1>3, <1>4 DEF ReporterInv

\* Every step keeps it, if the client stops the reporter before destroying it.
LEMMA ReporterStep ==
    ASSUME StopsFirst
    PROVE  ReporterInv /\ [Next]_vars => ReporterInv'
  <1> SUFFICES ASSUME ReporterInv, [Next]_vars PROVE ReporterInv'
    OBVIOUS
  <1>1. RegistryInv'
    BY RegistryStep DEF ReporterInv
  <1>2. CASE Next
    <2>1. Loop'
      BY <1>1, <1>2, LoopStep
    <2> QED  BY <1>1, <1>2, <2>1, CollectedStep DEF ReporterInv
  <1>3. CASE UNCHANGED vars
    BY <1>1, <1>3 DEF ReporterInv, Loop, TypeOK, Collected, ToMap, vars, registryVars, reporterVars
  <1> QED  BY <1>2, <1>3

\* The asserts of connect and of the callbacks hold, and a report writes to an
\* open stream: for any number of restarts and any bound on pending writes.
THEOREM AssertsAlwaysHold ==
    ASSUME StopsFirst
    PROVE  Spec => []AssertsHold
  <1>1. ReporterInv => AssertsHold
    BY DEF ReporterInv, Loop, AssertsHold, TypeOK, Kind
  <1> QED  BY <1>1, ReporterInitially, ReporterStep, PTL DEF Spec

\* A report has every metric a call site had bound when it began, although the
\* maps are copied one by one while sites go on binding.
THEOREM ReportsComplete ==
    ASSUME StopsFirst
    PROVE  Spec => []ReportComplete
  <1>1. ReporterInv => ReportComplete
    BY DEF ReporterInv, Loop, Collected, ReportComplete
  <1> QED  BY <1>1, ReporterInitially, ReporterStep, PTL DEF Spec

=============================================================================
