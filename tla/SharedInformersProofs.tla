------------------------ MODULE SharedInformersProofs ------------------------
(***************************************************************************)
(* However many goroutines share the factory, they are given one informer  *)
(* and it is run once; and whatever the informers do meanwhile, the users  *)
(* of the typed client do not undo each other's changes.                   *)
(***************************************************************************)
EXTENDS SharedInformers, TypedClientProofs, FiniteSetTheorems

Critical == {"look", "insert", "check", "run", "collect"}

(***************************************************************************)
(* What the mutex gives: the goroutine that holds it is the only one       *)
(* between its lock and its return, and what it found out about the        *)
(* informer there is still so.                                             *)
(***************************************************************************)
Mutex == \A t \in Threads : step[t] \in Critical => lock = t
FoundStill ==
    \A t \in Threads :
        /\ step[t] = "insert" => informer = None
        /\ step[t] = "run" => informer # None /\ ~started

(***************************************************************************)
(* Nothing is handed out but the informer of the factory, and it is run    *)
(* from the moment it is marked as started.                                *)
(***************************************************************************)
Shared == \A t \in Threads : handed[t] \in {None, informer}
RunOnce ==
    /\ started => informer # None
    /\ \A i \in Informers : runs[i] = IF started /\ i = informer THEN 1 ELSE 0

Typed ==
    /\ next \in [Threads -> Nat \ {0}]
    /\ step \in [Threads -> Critical \cup {"call", "wait"}]
    /\ informer \in Nat \cup {None}
    /\ handed \in [Threads -> Nat \cup {None}]
    /\ runs \in [Informers -> Nat]
    /\ made \in Nat
    /\ started \in BOOLEAN

Inv == Typed /\ Mutex /\ FoundStill /\ Shared /\ RunOnce

LEMMA InvInit == ASSUME Init PROVE Inv
<1>1. Typed
  <2>1. next \in [Threads -> Nat \ {0}]
    BY DEF Init
  <2>2. step \in [Threads -> Critical \cup {"call", "wait"}]
    BY DEF Init
  <2>3. informer \in Nat \cup {None} /\ made \in Nat /\ started \in BOOLEAN
    BY DEF Init
  <2>4. handed \in [Threads -> Nat \cup {None}]
    BY DEF Init
  <2>5. runs \in [Informers -> Nat]
    BY DEF Init
  <2>. QED BY <2>1, <2>2, <2>3, <2>4, <2>5 DEF Typed
<1>2. Mutex /\ FoundStill
  BY DEF Init, Mutex, FoundStill, Critical
<1>3. Shared
  BY DEF Init, Shared
<1>4. RunOnce
  BY DEF Init, RunOnce
<1>. QED BY <1>1, <1>2, <1>3, <1>4 DEF Inv

LEMMA InvOneInformer == ASSUME Inv PROVE OneInformer
<1>1. {handed[t] : t \in Threads} \ {None} \subseteq {informer}
  BY DEF Inv, Shared
<1>2. IsFiniteSet({informer}) /\ Cardinality({informer}) = 1
  BY FS_Singleton
<1>3. Cardinality({handed[t] : t \in Threads} \ {None}) <= 1
  BY <1>1, <1>2, FS_Subset
<1>4. \A i \in Informers : runs[i] <= 1
  BY DEF Inv, RunOnce
<1>. QED BY <1>3, <1>4 DEF OneInformer

(***************************************************************************)
(* The calls of the factory, one by one.                                   *)
(***************************************************************************)
LEMMA LockInv == ASSUME Inv, NEW t \in Threads, Lock(t) PROVE Inv'
<1>1. Program[t][next[t]] \in Calls
  BY FactoryAssumption DEF Lock, Inv, Typed
<1>2. step' = [step EXCEPT ![t] = FirstStep[Program[t][next[t]]]]
  BY DEF Lock, Goto
<1>3. step'[t] \in {"look", "check", "collect"}
  BY <1>1, <1>2 DEF Inv, Typed, FirstStep, Calls
<1>4. \A u \in Threads \ {t} : step'[u] = step[u]
  BY <1>2 DEF Inv, Typed
<1>5. \A u \in Threads : step[u] \notin Critical
  BY FactoryAssumption DEF Lock, Inv, Mutex
<1>6. UNCHANGED <<next, handed, runs, made, started, informer>> /\ lock' = t
  BY DEF Lock, outside, informerVars
<1>7. Typed'
  BY <1>2, <1>3, <1>6 DEF Inv, Typed, Critical
<1>8. Mutex' /\ FoundStill'
  BY <1>3, <1>4, <1>5, <1>6 DEF Mutex, FoundStill, Critical
<1>9. Shared' /\ RunOnce'
  BY <1>6 DEF Inv, Shared, RunOnce
<1>. QED BY <1>7, <1>8, <1>9 DEF Inv

(***************************************************************************)
(* A goroutine in the critical section moves on or returns: the others are *)
(* outside of it.                                                          *)
(***************************************************************************)
LEMMA Alone ==
    ASSUME Inv, NEW t \in Threads, step[t] \in Critical
    PROVE  \A u \in Threads \ {t} : step[u] \notin Critical
<1>. QED BY DEF Inv, Mutex

LEMMA LookUpInv == ASSUME Inv, NEW t \in Threads, LookUp(t) PROVE Inv'
<1>1. \A u \in Threads \ {t} : step[u] \notin Critical
  BY Alone DEF LookUp, Critical
<1>2. UNCHANGED <<runs, made, started, informer>>
  BY DEF LookUp, outside, informerVars
<1>3. CASE informer # None
  <2>1. /\ step' = [step EXCEPT ![t] = "call"]
        /\ next' = [next EXCEPT ![t] = @ + 1]
        /\ handed' = [handed EXCEPT ![t] = informer]
    BY <1>3 DEF LookUp, Return, Done, Goto
  <2>. QED BY <1>1, <1>2, <2>1 DEF Inv, Typed, Mutex, FoundStill, Shared, RunOnce, Critical
<1>4. CASE informer = None
  <2>1. /\ step' = [step EXCEPT ![t] = "insert"]
        /\ UNCHANGED <<lock, next, handed>>
    BY <1>4 DEF LookUp, Goto
  <2>2. lock = t
    BY DEF LookUp, Inv, Mutex, Critical
  <2>. QED BY <1>1, <1>2, <1>4, <2>1, <2>2 DEF Inv, Typed, Mutex, FoundStill, Shared, RunOnce, Critical
<1>. QED BY <1>3, <1>4

\* The informer is made while there is none, so that nobody was handed another one.
LEMMA InsertInv == ASSUME Inv, NEW t \in Threads, Insert(t) PROVE Inv'
<1>1. \A u \in Threads \ {t} : step[u] \notin Critical
  BY Alone DEF Insert, Critical
<1>2. informer = None /\ ~started
  BY DEF Insert, Inv, FoundStill, RunOnce
<1>3. \A u \in Threads : handed[u] = None
  BY <1>2 DEF Inv, Shared
<1>4. /\ UNCHANGED <<runs, started>>
      /\ made' = made + 1 /\ informer' = made + 1
      /\ handed' = [handed EXCEPT ![t] = made + 1]
      /\ step' = [step EXCEPT ![t] = "call"]
      /\ next' = [next EXCEPT ![t] = @ + 1]
  BY DEF Insert, Return, Done, Goto, outside, informerVars
<1>5. Typed'
  BY <1>4 DEF Inv, Typed
<1>6. Mutex' /\ FoundStill'
  BY <1>1, <1>4 DEF Inv, Typed, Mutex, FoundStill, Critical
<1>7. Shared'
  BY <1>3, <1>4 DEF Inv, Typed, Shared
<1>8. RunOnce'
  BY <1>2, <1>4 DEF Inv, RunOnce
<1>. QED BY <1>5, <1>6, <1>7, <1>8 DEF Inv

LEMMA CheckInv == ASSUME Inv, NEW t \in Threads, Check(t) PROVE Inv'
<1>1. \A u \in Threads \ {t} : step[u] \notin Critical
  BY Alone DEF Check, Critical
<1>2. UNCHANGED <<runs, made, started, informer, handed>>
  BY DEF Check, outside, informerVars
<1>3. CASE informer # None /\ ~started
  <2>1. /\ step' = [step EXCEPT ![t] = "run"]
        /\ UNCHANGED <<lock, next>>
    BY <1>3 DEF Check, Goto
  <2>2. lock = t
    BY DEF Check, Inv, Mutex, Critical
  <2>. QED BY <1>1, <1>2, <1>3, <2>1, <2>2 DEF Inv, Typed, Mutex, FoundStill, Shared, RunOnce, Critical
<1>4. CASE ~(informer # None /\ ~started)
  <2>1. /\ step' = [step EXCEPT ![t] = "call"]
        /\ next' = [next EXCEPT ![t] = @ + 1]
    BY <1>4 DEF Check, Return, Done, Goto
  <2>. QED BY <1>1, <1>2, <2>1 DEF Inv, Typed, Mutex, FoundStill, Shared, RunOnce, Critical
<1>. QED BY <1>3, <1>4

\* The informer is run while it is not marked as started, and marked at the same time.
LEMMA RunInv == ASSUME Inv, NEW t \in Threads, Run(t) PROVE Inv'
<1>1. \A u \in Threads \ {t} : step[u] \notin Critical
  BY Alone DEF Run, Critical
<1>2. informer # None /\ ~started
  BY DEF Run, Inv, FoundStill
<1>3. /\ UNCHANGED <<made, informer, handed>>
      /\ started' = TRUE
      /\ runs' = [runs EXCEPT ![informer] = @ + 1]
      /\ step' = [step EXCEPT ![t] = "call"]
      /\ next' = [next EXCEPT ![t] = @ + 1]
  BY DEF Run, Return, Done, Goto
<1>4. Typed'
  <2>1. runs' \in [Informers -> Nat]
    <3>1. CASE informer \in Informers
      BY <1>3, <3>1 DEF Inv, Typed
    <3>2. CASE informer \notin Informers
      BY <1>3, <3>2 DEF Inv, Typed
    <3>. QED BY <3>1, <3>2
  <2>2. next' \in [Threads -> Nat \ {0}] /\ step' \in [Threads -> Critical \cup {"call", "wait"}]
    BY <1>3 DEF Inv, Typed
  <2>. QED BY <1>3, <2>1, <2>2 DEF Inv, Typed
<1>5. Mutex' /\ FoundStill' /\ Shared'
  BY <1>1, <1>3 DEF Inv, Typed, Mutex, FoundStill, Shared, Critical
<1>6. RunOnce'
  BY <1>2, <1>3 DEF Inv, Typed, RunOnce
<1>. QED BY <1>4, <1>5, <1>6 DEF Inv

LEMMA CollectInv == ASSUME Inv, NEW t \in Threads, Collect(t) PROVE Inv'
<1>1. \A u \in Threads \ {t} : step[u] \notin Critical
  BY Alone DEF Collect, Critical
<1>2. /\ UNCHANGED <<runs, made, started, informer, handed, next>>
      /\ step' = [step EXCEPT ![t] = "wait"]
  BY DEF Collect, Goto, outside, informerVars
<1>. QED BY <1>1, <1>2 DEF Inv, Typed, Mutex, FoundStill, Shared, RunOnce, Critical

LEMMA WaitInv == ASSUME Inv, NEW t \in Threads, Wait(t) PROVE Inv'
<1>1. /\ UNCHANGED <<runs, made, started, informer, handed, lock>>
      /\ step' = [step EXCEPT ![t] = "call"]
      /\ next' = [next EXCEPT ![t] = @ + 1]
  BY DEF Wait, Done, Goto, outside, informerVars, factoryVars
<1>. QED BY <1>1 DEF Inv, Typed, Mutex, FoundStill, Shared, RunOnce, Critical

(***************************************************************************)
(* Reflectors, users and disruptions do not touch the factory.             *)
(***************************************************************************)
LEMMA OutsideInv ==
    ASSUME Inv, UNCHANGED <<factoryVars, next, step, handed, runs>>
    PROVE  Inv'
<1>. QED BY DEF Inv, Typed, Mutex, FoundStill, Shared, RunOnce, factoryVars

LEMMA NextInv == ASSUME Inv, [Next]_vars PROVE Inv'
<1>1. ASSUME NEW t \in Threads, Call(t) PROVE Inv'
  BY <1>1, LockInv, LookUpInv, InsertInv, CheckInv, RunInv, CollectInv, WaitInv DEF Call
<1>2. ASSUME NEW i \in Informers, Reflect(i) \/ Break(i) PROVE Inv'
  BY <1>2, OutsideInv DEF Reflect, ListAndWatch, Process, Break, inside, threadVars
<1>3. ASSUME NEW u \in Users, UseClient(u) PROVE Inv'
  BY <1>3, OutsideInv DEF UseClient, threadVars, informerVars
<1>4. CASE Stop
  BY <1>4, OutsideInv DEF Stop, threadVars, informerVars
<1>5. CASE UNCHANGED vars
  BY <1>5, OutsideInv DEF vars, threadVars, informerVars
<1>. QED BY <1>1, <1>2, <1>3, <1>4, <1>5 DEF Next

(***************************************************************************)
(* OneInformer holds for any number of goroutines, whatever calls they     *)
(* make and in whatever order (InformerFor and Start of factory.go).       *)
(***************************************************************************)
THEOREM OneInformerHolds == Spec => []OneInformer
<1>1. Inv /\ [Next]_vars => Inv'
  BY NextInv
<1>. QED BY <1>1, InvInit, InvOneInformer, PTL DEF Spec

----------------------------------------------------------------------------
(***************************************************************************)
(* The objects and the copies of them change by the methods of the typed   *)
(* client only.                                                            *)
(***************************************************************************)
LEMMA ClientSteps ==
    ASSUME [Next]_vars
    PROVE  (\E u \in Users : Use(u) \/ GetObject(u)) \/ UNCHANGED clientVars
<1>1. ASSUME NEW t \in Threads, Call(t) PROVE UNCHANGED clientVars
  BY <1>1 DEF Call, Lock, LookUp, Insert, Check, Run, Collect, Wait, outside
<1>2. ASSUME NEW i \in Informers, Reflect(i) \/ Break(i) PROVE UNCHANGED clientVars
  BY <1>2 DEF Reflect, ListAndWatch, Process, Break, inside
<1>3. CASE Stop \/ UNCHANGED vars
  BY <1>3 DEF Stop, vars
<1>. QED BY <1>1, <1>2, <1>3 DEF Next, UseClient

LEMMA ClientInvariant == Spec => []ClientInv
<1>1. Init => ClientInv
  BY ClientInitInv DEF Init
<1>2. ClientInv /\ [Next]_vars => ClientInv'
  BY ClientStep, ClientSteps
<1>. QED BY <1>1, <1>2, PTL DEF Spec

(***************************************************************************)
(* A status is made by the methods for the status and a spec by the        *)
(* others, for any number of users and objects (Update and UpdateStatus of *)
(* jobflow.go).                                                            *)
(***************************************************************************)
THEOREM SpecAndStatusApartHolds == Spec => []SpecAndStatusApart
<1>1. ClientInv => SpecAndStatusApart
  BY DEF ClientInv
<1>. QED BY <1>1, ClientInvariant, PTL

(***************************************************************************)
(* An update replaces only what its sender has read, whoever else writes   *)
(* in between (the object goes out with the resourceVersion it came with). *)
(***************************************************************************)
THEOREM NoLostUpdateHolds == Spec => NoLostUpdate
<1>1. ClientInv /\ [Next]_vars => [ReplacesOnlyWhatIsRead]_clientVars
  BY ClientStep, ClientSteps
<1>. QED BY <1>1, ClientInvariant, PTL DEF Spec, NoLostUpdate, ReplacesOnlyWhatIsRead

----------------------------------------------------------------------------
(***************************************************************************)
(* The one informer has a place among the informers, and a goroutine waits *)
(* for none but it.                                                        *)
(***************************************************************************)
Place ==
    /\ informer \in Informers \cup {None}
    /\ informer = None => made = 0
    /\ lock \in Threads \cup {None}
    /\ waits \in [Threads -> SUBSET Informers]
    /\ \A t \in Threads :
          /\ lock = t <=> step[t] \in Critical
          /\ next[t] \in 1 .. Len(Program[t]) + 1
          /\ step[t] # "call" => next[t] <= Len(Program[t])
          /\ waits[t] # {} => waits[t] = {informer}

LEMMA PlaceInit == ASSUME Init PROVE Place
<1>1. \A t \in Threads : Len(Program[t]) \in Nat
  BY FactoryAssumption
<1>. QED BY <1>1, FactoryAssumption DEF Init, Place, Critical

LEMMA ThreadsCounted == ASSUME NEW t \in Threads PROVE 1 \in Informers
<1>1. IsFiniteSet({t}) /\ Cardinality({t}) = 1
  BY FS_Singleton
<1>2. Cardinality(Threads) \in Nat /\ 1 <= Cardinality(Threads)
  BY <1>1, InformersAssumption, FS_CardinalityType, FS_Subset
<1>. QED BY <1>2 DEF Informers

LEMMA CallPlace ==
    ASSUME Inv, Place, NEW t \in Threads, Call(t) PROVE Place'
<1>1. Program[t] \in Seq(Calls) /\ Len(Program[t]) \in Nat /\ t # None
  BY FactoryAssumption
<1>2. CASE Lock(t)
  <2>1. Program[t][next[t]] \in Calls
    BY <1>1, <1>2 DEF Lock, Inv, Typed
  <2>2. step' = [step EXCEPT ![t] = FirstStep[Program[t][next[t]]]]
    BY <1>2 DEF Lock, Goto
  <2>3. step'[t] \in {"look", "check", "collect"}
    BY <2>1, <2>2 DEF Inv, Typed, FirstStep, Calls
  <2>4. \A u \in Threads \ {t} : step'[u] = step[u]
    BY <2>2 DEF Inv, Typed
  <2>. QED BY <1>1, <1>2, <2>3, <2>4, FactoryAssumption DEF Lock, Place, Critical
<1>3. ASSUME Return(t), UNCHANGED <<informer, made, waits>>, step[t] \in Critical PROVE Place'
  <2>1. /\ lock' = None
        /\ step' = [step EXCEPT ![t] = "call"]
        /\ next' = [next EXCEPT ![t] = @ + 1]
    BY <1>3 DEF Return, Done, Goto
  <2>2. next[t] <= Len(Program[t]) /\ \A u \in Threads \ {t} : step[u] \notin Critical
    BY <1>3, Alone DEF Place, Critical
  <2>3. /\ step'[t] = "call" /\ next'[t] = next[t] + 1
        /\ \A u \in Threads \ {t} : step'[u] = step[u] /\ next'[u] = next[u]
    BY <2>1 DEF Inv, Typed
  <2>4. next'[t] \in 1 .. Len(Program[t]) + 1
    BY <1>1, <2>2, <2>3 DEF Inv, Typed
  <2>5. \A u \in Threads : lock' = u <=> step'[u] \in Critical
    BY <2>1, <2>2, <2>3, FactoryAssumption DEF Critical
  <2>. QED BY <1>3, <2>1, <2>3, <2>4, <2>5 DEF Place
<1>4. ASSUME NEW s \in {"insert", "run"}, Goto(t, s), step[t] \in Critical,
             UNCHANGED <<lock, next, informer, made, waits>>
      PROVE  Place'
  BY <1>1, <1>4 DEF Goto, Place, Inv, Typed, Critical
<1>5. CASE LookUp(t)
  BY <1>3, <1>4, <1>5 DEF LookUp, Critical
<1>6. CASE Insert(t)
  <2>1. informer = None /\ made = 0 /\ 1 \in Informers
    BY <1>6, ThreadsCounted DEF Insert, Inv, FoundStill, Place
  <2>2. /\ lock' = None /\ made' = 1 /\ informer' = 1
        /\ step' = [step EXCEPT ![t] = "call"]
        /\ next' = [next EXCEPT ![t] = @ + 1]
        /\ waits' = waits
    BY <1>6, <2>1 DEF Insert, Return, Done, Goto
  <2>3. next[t] <= Len(Program[t]) /\ \A u \in Threads \ {t} : step[u] \notin Critical
    BY <1>6, Alone DEF Insert, Place, Critical
  <2>4. \A u \in Threads : waits[u] = {}
    BY <2>1, InformersAssumption DEF Place
  <2>. QED BY <1>1, <2>1, <2>2, <2>3, <2>4, InformersAssumption, FactoryAssumption
           DEF Place, Inv, Typed, Critical
<1>7. CASE Check(t)
  BY <1>3, <1>4, <1>7 DEF Check, Critical
<1>8. CASE Run(t)
  BY <1>3, <1>8 DEF Run, Critical
<1>9. CASE Collect(t)
  <2>1. /\ lock' = None /\ step' = [step EXCEPT ![t] = "wait"]
        /\ waits' = [waits EXCEPT ![t] = IF started THEN {informer} ELSE {}]
        /\ UNCHANGED <<informer, made, next>>
    BY <1>9 DEF Collect, Goto
  <2>2. next[t] <= Len(Program[t]) /\ \A u \in Threads \ {t} : step[u] \notin Critical
    BY <1>9, Alone DEF Collect, Place, Critical
  <2>3. started => informer \in Informers
    BY DEF Place, Inv, RunOnce
  <2>4. step'[t] = "wait" /\ \A u \in Threads \ {t} : step'[u] = step[u]
    BY <2>1 DEF Inv, Typed
  <2>5. \A u \in Threads : lock' = u <=> step'[u] \in Critical
    BY <2>1, <2>2, <2>4, FactoryAssumption DEF Critical
  <2>6. waits' \in [Threads -> SUBSET Informers] /\ \A u \in Threads : waits'[u] # {} => waits'[u] = {informer}
    BY <2>1, <2>3 DEF Place
  <2>7. \A u \in Threads : step'[u] # "call" => next'[u] <= Len(Program[u])
    BY <2>1, <2>2, <2>4 DEF Place
  <2>. QED BY <2>1, <2>5, <2>6, <2>7 DEF Place
<1>10. CASE Wait(t)
  <2>1. /\ UNCHANGED <<lock, informer, made, waits>>
        /\ step' = [step EXCEPT ![t] = "call"]
        /\ next' = [next EXCEPT ![t] = @ + 1]
    BY <1>10 DEF Wait, Done, Goto, factoryVars
  <2>2. next[t] <= Len(Program[t]) /\ step[t] = "wait"
    BY <1>10 DEF Wait, Place
  <2>3. /\ step'[t] = "call" /\ next'[t] = next[t] + 1
        /\ \A u \in Threads \ {t} : step'[u] = step[u] /\ next'[u] = next[u]
    BY <2>1 DEF Inv, Typed
  <2>4. next'[t] \in 1 .. Len(Program[t]) + 1
    BY <1>1, <2>2, <2>3 DEF Inv, Typed
  <2>5. \A u \in Threads : lock' = u <=> step'[u] \in Critical
    BY <2>1, <2>2, <2>3 DEF Place, Critical
  <2>. QED BY <2>1, <2>3, <2>4, <2>5 DEF Place
<1>. QED BY <1>2, <1>5, <1>6, <1>7, <1>8, <1>9, <1>10 DEF Call

LEMMA NextPlace == ASSUME Inv, Place, [Next]_vars PROVE Place'
<1>1. ASSUME UNCHANGED <<factoryVars, threadVars>> PROVE Place'
  BY <1>1 DEF Place, factoryVars, threadVars
<1>2. ASSUME NEW i \in Informers, Reflect(i) \/ Break(i) PROVE Place'
  BY <1>1, <1>2 DEF Reflect, ListAndWatch, Process, Break, inside
<1>3. ASSUME NEW u \in Users, UseClient(u) PROVE Place'
  BY <1>1, <1>3 DEF UseClient
<1>4. CASE Stop \/ UNCHANGED vars
  BY <1>1, <1>4 DEF Stop, vars
<1>. QED BY <1>2, <1>3, <1>4, CallPlace DEF Next

(***************************************************************************)
(* What an informer is sent and stores.                                    *)
(***************************************************************************)
Message ==
    [type : {"replace", "change"}, content : UNION {[ks -> Object \cup {None}] : ks \in SUBSET Keys}]

ReflectorType ==
    /\ phase \in [Informers -> {"new", "list", "watch"}]
    /\ queue \in [Informers -> Seq(Message)]
    /\ store \in [Informers -> [Keys -> Object \cup {None}]]
    /\ synced \in [Informers -> BOOLEAN]
    /\ ranAt \in [Informers -> Nat]

Idle == \A i \in Informers : runs[i] = 0 => phase[i] = "new" /\ queue[i] = <<>> /\ ~synced[i]

(***************************************************************************)
(* An object that has not changed since the informer was run is the one    *)
(* every message about it carries, and the one in the store once a list    *)
(* has been stored; nothing that is not selected is ever sent.             *)
(***************************************************************************)
Settled(i, k) == Selects(ListFunc, k, objects[k]) /\ objects[k].rv <= ranAt[i]
Elements(s) == {s[n] : n \in 1 .. Len(s)}

Truthful(i, m) ==
    /\ m.type = "replace" => DOMAIN m.content = Keys
    /\ \A k \in DOMAIN m.content :
          /\ m.content[k] # None => Selects(ListFunc, k, m.content[k])
          /\ Settled(i, k) => m.content[k] = objects[k]
Stored(i) ==
    \A k \in Keys :
       /\ store[i][k] # None => Selects(ListFunc, k, store[i][k])
       /\ synced[i] /\ Settled(i, k) => store[i][k] = objects[k]

Seen == \A i \in Informers : ranAt[i] <= revision /\ Stored(i) /\ \A m \in Elements(queue[i]) : Truthful(i, m)
Waited ==
    /\ sawSync \in [Threads -> BOOLEAN]
    /\ \A t \in Threads : sawSync[t] => informer \in Informers /\ synced[informer]

SeenInv == ReflectorType /\ Idle /\ Seen /\ Waited

LEMMA ElementsOf ==
    ASSUME NEW S, NEW s \in Seq(S)
    PROVE  /\ Elements(s) \subseteq S
           /\ \A e \in S : Append(s, e) \in Seq(S) /\ Elements(Append(s, e)) \subseteq Elements(s) \cup {e}
           /\ s # <<>> => /\ Head(s) \in Elements(s)
                          /\ Tail(s) \in Seq(S) /\ Elements(Tail(s)) \subseteq Elements(s)
           /\ \A n \in 0 .. Len(s) : SubSeq(s, 1, n) \in Seq(S) /\ Elements(SubSeq(s, 1, n)) \subseteq Elements(s)
<1>1. Elements(s) \subseteq S
  BY DEF Elements
<1>2. ASSUME NEW e \in S
      PROVE  Append(s, e) \in Seq(S) /\ Elements(Append(s, e)) \subseteq Elements(s) \cup {e}
  BY DEF Elements
<1>3. ASSUME s # <<>>
      PROVE  /\ Head(s) \in Elements(s)
             /\ Tail(s) \in Seq(S) /\ Elements(Tail(s)) \subseteq Elements(s)
  <2>1. Len(s) \in Nat /\ 1 \in 1 .. Len(s) /\ Head(s) = s[1]
    BY <1>3
  <2>2. Tail(s) \in Seq(S) /\ Len(Tail(s)) = Len(s) - 1
        /\ \A n \in 1 .. Len(s) - 1 : Tail(s)[n] = s[n + 1] /\ n + 1 \in 1 .. Len(s)
    BY <1>3, <2>1
  <2>. QED BY <2>1, <2>2 DEF Elements
<1>4. ASSUME NEW n \in 0 .. Len(s)
      PROVE  SubSeq(s, 1, n) \in Seq(S) /\ Elements(SubSeq(s, 1, n)) \subseteq Elements(s)
  <2>1. Len(s) \in Nat /\ n \in Nat
    OBVIOUS
  <2>2. Len(SubSeq(s, 1, n)) = n /\ \A m \in 1 .. n : SubSeq(s, 1, n)[m] = s[m] /\ m \in 1 .. Len(s)
    BY <2>1
  <2>3. SubSeq(s, 1, n) \in Seq(S)
    BY <2>1
  <2>. QED BY <2>2, <2>3 DEF Elements
<1>. QED BY <1>1, <1>2, <1>3, <1>4

LEMMA ContentOf ==
    ASSUME NEW m \in Message
    PROVE  /\ m.type \in {"replace", "change"} /\ DOMAIN m.content \subseteq Keys
           /\ \A k \in DOMAIN m.content : m.content[k] \in Object \cup {None}
<1>. QED BY DEF Message

LEMMA MakesMessage ==
    ASSUME NEW type \in {"replace", "change"}, NEW ks \in SUBSET Keys,
           NEW content \in [ks -> Object \cup {None}]
    PROVE  [type |-> type, content |-> content] \in Message
<1>. QED BY DEF Message

(***************************************************************************)
(* List and watch select the same objects.                                 *)
(***************************************************************************)
LEMMA SameSelection == ListFunc = WatchFunc
<1>. QED BY DEF ListFunc, WatchFunc, List, Watch

(***************************************************************************)
(* A method of the client that changes an object gives it a new version.   *)
(***************************************************************************)
LEMMA NewVersions ==
    ASSUME ClientInv, NEW u \in Users, Use(u)
    PROVE  /\ revision' = revision + 1 /\ revision \in Nat
           /\ objects' \in [Keys -> Object \cup {None}]
           /\ \A k \in Keys : \/ objects'[k] \in {objects[k], None}
                              \/ objects'[k].rv = revision + 1
<1>1. revision \in Nat /\ objects' \in [Keys -> Object \cup {None}]
  BY ClientAssumption, ClientStep DEF ClientInv
<1>2. ASSUME NEW request, Handle(request), request.body \in Object
      PROVE  \A k \in Keys : objects'[k] = objects[k] \/ objects'[k].rv = revision + 1
  <2>1. KeyOf(request) \in Keys /\ objects[KeyOf(request)] \in Object
    BY <1>2 DEF Handle, Accepts, ClientInv
  <2>2. Replaced(objects[KeyOf(request)], request).rv = revision + 1
    BY <1>2, <2>1 DEF Replaced, Object
  <2>. QED BY <1>2, <2>1, <2>2 DEF Handle, Change, ClientInv
<1>3. revision' = revision + 1 /\ revision < MaxRevision
  BY DEF Use, CreateObject, Update, UpdateStatus, Patch, DeleteObject, DeleteAll, Handle, Change
<1>4. CASE CreateObject(u)
  <2>1. PICK k \in Keys, labelled \in BOOLEAN :
          objects' = [objects EXCEPT ![k] = [rv |-> revision + 1, labelled |-> labelled,
                                             spec |-> Stamp("Create"), status |-> None]]
    BY <1>4 DEF CreateObject, Change
  <2>2. objects'[k].rv = revision + 1 /\ \A j \in Keys \ {k} : objects'[j] = objects[j]
    BY <2>1 DEF ClientInv
  <2>. QED BY <1>1, <1>3, <2>2
<1>5. CASE Update(u)
  <2>1. \A labelled \in BOOLEAN : Edited(u, "Update", labelled) \in Object
    BY <1>3, <1>5, EditedType DEF Update, Methods
  <2>. QED BY <1>1, <1>2, <1>3, <1>5, <2>1 DEF Update, Put
<1>6. CASE UpdateStatus(u)
  <2>1. \A labelled \in BOOLEAN : Edited(u, "UpdateStatus", labelled) \in Object
    BY <1>3, <1>6, EditedType DEF UpdateStatus, Methods
  <2>. QED BY <1>1, <1>2, <1>3, <1>6, <2>1 DEF UpdateStatus, PutStatus
<1>7. CASE Patch(u)
  <2>1. PICK k \in Keys :
          /\ objects[k] # None
          /\ \/ objects' = [objects EXCEPT ![k].spec = Stamp("Patch"), ![k].rv = revision + 1]
             \/ objects' = [objects EXCEPT ![k].status = Stamp("PatchStatus"), ![k].rv = revision + 1]
    BY <1>7 DEF Patch, Change
  <2>2. objects[k] \in Object /\ \A j \in Keys \ {k} : objects'[j] = objects[j]
    BY <2>1 DEF ClientInv
  <2>3. objects'[k].rv = revision + 1
    BY <2>1, <2>2 DEF ClientInv, Object
  <2>. QED BY <1>1, <1>3, <2>2, <2>3
<1>8. CASE DeleteObject(u) \/ DeleteAll(u)
  BY <1>1, <1>3, <1>8 DEF DeleteObject, DeleteAll, Change, ClientInv
<1>. QED BY <1>1, <1>3, <1>4, <1>5, <1>6, <1>7, <1>8 DEF Use


LEMMA SeenInit == ASSUME Init PROVE SeenInv
<1>1. ReflectorType
  <2>1. Nothing \in [Keys -> Object \cup {None}] /\ <<>> \in Seq(Message)
    BY DEF Nothing
  <2>. QED BY <2>1 DEF Init, ReflectorType
<1>2. Idle /\ Waited
  BY DEF Init, Idle, Waited
<1>3. revision = 1 /\ Elements(<<>>) = {}
  BY DEF Init, ClientInit, Elements
<1>4. Seen
  BY <1>3 DEF Init, Seen, Stored, Nothing
<1>. QED BY <1>1, <1>2, <1>4 DEF SeenInv

(***************************************************************************)
(* A step that touches neither the objects nor an informer.                *)
(***************************************************************************)
LEMMA OutsideSeen ==
    ASSUME SeenInv, UNCHANGED <<clientVars, informerVars>>, Waited' PROVE SeenInv'
<1>1. ReflectorType' /\ Idle'
  BY DEF SeenInv, ReflectorType, Idle, informerVars, reflectorVars
<1>2. Seen'
  BY DEF SeenInv, Seen, Stored, Truthful, Settled, clientVars, informerVars, reflectorVars
<1>. QED BY <1>1, <1>2 DEF SeenInv

LEMMA CallSeen ==
    ASSUME Inv, Place, ClientInv, SeenInv, NEW t \in Threads, Call(t) PROVE SeenInv'
<1>1. CASE Lock(t) \/ LookUp(t) \/ Insert(t) \/ Check(t) \/ Collect(t)
  <2>1. UNCHANGED outside /\ sawSync' = sawSync /\ (informer # None => informer' = informer)
    BY <1>1 DEF Lock, LookUp, Insert, Check, Collect, Inv, FoundStill
  <2>2. UNCHANGED <<clientVars, informerVars>>
    BY <2>1 DEF outside
  <2>3. Waited'
    BY <2>1, InformersAssumption DEF SeenInv, Waited, outside, informerVars, reflectorVars
  <2>. QED BY <2>2, <2>3, OutsideSeen
<1>2. CASE Wait(t)
  <2>1. UNCHANGED outside /\ informer' = informer
        /\ sawSync' = [sawSync EXCEPT ![t] = waits[t] # {} /\ AllSynced(waits[t])]
    BY <1>2 DEF Wait, factoryVars
  <2>2. UNCHANGED <<clientVars, informerVars>>
    BY <2>1 DEF outside
  <2>3. waits[t] # {} /\ AllSynced(waits[t]) => informer \in Informers /\ synced[informer]
    BY DEF Place, AllSynced
  <2>4. Waited'
    <3>1. (waits[t] # {} /\ AllSynced(waits[t])) \in BOOLEAN
      BY DEF AllSynced
    <3>2. sawSync' \in [Threads -> BOOLEAN]
      BY <2>1, <3>1 DEF SeenInv, Waited
    <3>3. \A u \in Threads : sawSync'[u] => sawSync[u] \/ (waits[t] # {} /\ AllSynced(waits[t]))
      BY <2>1 DEF SeenInv, Waited
    <3>4. UNCHANGED <<informer, synced>>
      BY <2>1 DEF outside, informerVars, reflectorVars
    <3>. QED BY <2>3, <3>2, <3>3, <3>4 DEF SeenInv, Waited
  <2>. QED BY <2>2, <2>4, OutsideSeen
<1>3. CASE Run(t)
  <2>1. /\ informer \in Informers /\ runs[informer] = 0
        /\ phase[informer] = "new" /\ queue[informer] = <<>> /\ ~synced[informer]
    BY <1>3 DEF Run, Inv, FoundStill, RunOnce, Place, SeenInv, Idle
  <2>2. /\ UNCHANGED <<clientVars, informer, sawSync, queue, store, synced>>
        /\ runs' = [runs EXCEPT ![informer] = @ + 1]
        /\ phase' = [phase EXCEPT ![informer] = "list"]
        /\ ranAt' = [ranAt EXCEPT ![informer] = revision]
    BY <1>3, <2>1 DEF Run
  <2>3. revision \in Nat
    BY ClientAssumption DEF ClientInv
  <2>4. ReflectorType' /\ Waited'
    BY <2>1, <2>2, <2>3 DEF SeenInv, ReflectorType, Waited
  <2>5. Idle'
    BY <2>1, <2>2 DEF SeenInv, ReflectorType, Idle, Inv, Typed
  <2>6. ASSUME NEW i \in Informers
        PROVE  ranAt'[i] <= revision' /\ Stored(i)' /\ \A m \in Elements(queue'[i]) : Truthful(i, m)'
    <3>1. CASE i = informer
      <4>1. Elements(queue'[i]) = {}
        BY <2>1, <2>2, <3>1 DEF Elements
      <4>2. ranAt'[i] <= revision' /\ ~synced'[i]
        BY <2>1, <2>2, <2>3, <3>1 DEF SeenInv, ReflectorType, clientVars
      <4>3. Stored(i)'
        BY <2>2, <4>2 DEF SeenInv, Seen, Stored
      <4>. QED BY <4>1, <4>2, <4>3
    <3>2. CASE i # informer
      <4>1. ranAt'[i] = ranAt[i]
        BY <2>2, <3>2 DEF SeenInv, ReflectorType
      <4>. QED BY <2>2, <4>1 DEF SeenInv, Seen, Stored, Truthful, Settled, clientVars
    <3>. QED BY <3>1, <3>2
  <2>. QED BY <2>4, <2>5, <2>6 DEF SeenInv, Seen
<1>. QED BY <1>1, <1>2, <1>3 DEF Call

(***************************************************************************)
(* A step of one informer that leaves the others and the objects alone.    *)
(***************************************************************************)
LEMMA OneInformerSeen ==
    ASSUME SeenInv, UNCHANGED <<clientVars, ranAt, runs, informer, sawSync>>,
           NEW i \in Informers, runs[i] # 0, ReflectorType',
           \A j \in Informers \ {i} :
              UNCHANGED <<phase[j], queue[j], store[j], synced[j]>>,
           synced[i] => synced'[i],
           Stored(i)', \A m \in Elements(queue'[i]) : Truthful(i, m)
    PROVE  SeenInv'
<1>1. Idle' /\ Waited'
  BY DEF SeenInv, Idle, Waited
<1>2. ASSUME NEW j \in Informers, NEW m PROVE Truthful(j, m)' <=> Truthful(j, m)
  BY DEF Truthful, Settled, clientVars
<1>3. ASSUME NEW j \in Informers
      PROVE  ranAt'[j] <= revision' /\ Stored(j)' /\ \A m \in Elements(queue'[j]) : Truthful(j, m)'
  <2>1. CASE j = i
    BY <1>2, <2>1 DEF SeenInv, Seen, clientVars
  <2>2. CASE j # i
    <3>1. Stored(j)'
      BY <2>2 DEF SeenInv, Seen, Stored, Settled, clientVars
    <3>. QED BY <1>2, <2>2, <3>1 DEF SeenInv, Seen, clientVars
  <2>. QED BY <2>1, <2>2
<1>. QED BY <1>1, <1>3 DEF SeenInv, Seen

LEMMA ReflectSeen ==
    ASSUME ClientInv, SeenInv, NEW i \in Informers, Reflect(i) \/ Break(i) PROVE SeenInv'
<1>. USE DEF SeenInv
<1>1. /\ UNCHANGED <<clientVars, ranAt, runs, informer, sawSync>>
  BY DEF Reflect, ListAndWatch, Process, Break, inside, factoryVars, threadVars
<1>2. queue[i] \in Seq(Message) /\ runs[i] # 0
  BY DEF Reflect, ListAndWatch, Process, Break, ReflectorType, Idle
<1>3. CASE ListAndWatch(i)
  <2> DEFINE m == [type |-> "replace", content |-> Listed]
  <2>1. Listed \in [Keys -> Object \cup {None}]
    BY DEF Listed, ClientInv
  <2>2. m \in Message
    BY <2>1, MakesMessage
  <2>3. Truthful(i, m)
    BY <2>1 DEF Listed, Truthful, Settled
  <2>4. /\ queue' = [queue EXCEPT ![i] = Append(@, m)] /\ UNCHANGED <<store, synced>>
        /\ phase' = [phase EXCEPT ![i] = "watch"]
    BY <1>3 DEF ListAndWatch
  <2>. HIDE DEF m
  <2>5. queue'[i] = Append(queue[i], m) /\ queue'[i] \in Seq(Message)
        /\ Elements(queue'[i]) \subseteq Elements(queue[i]) \cup {m}
    BY <1>2, <2>2, <2>4, ElementsOf DEF ReflectorType
  <2>6. ReflectorType'
    BY <1>1, <2>4, <2>5 DEF ReflectorType
  <2>7. \A k \in Elements(queue'[i]) : Truthful(i, k)
    BY <2>3, <2>5 DEF Seen
  <2>8. Stored(i)'
    BY <1>1, <2>4 DEF Seen, Stored, Settled, clientVars
  <2>9. \A j \in Informers \ {i} : UNCHANGED <<phase[j], queue[j], store[j], synced[j]>>
    BY <2>4 DEF ReflectorType
  <2>. QED BY <1>1, <1>2, <2>4, <2>6, <2>7, <2>8, <2>9, OneInformerSeen
<1>4. CASE Process(i)
  <2> DEFINE m == Head(queue[i])
             new == [k \in Keys |-> IF k \in DOMAIN m.content THEN m.content[k] ELSE store[i][k]]
  <2>1. m \in Message /\ m \in Elements(queue[i]) /\ Tail(queue[i]) \in Seq(Message)
        /\ Elements(Tail(queue[i])) \subseteq Elements(queue[i])
    BY <1>2, <1>4, ElementsOf DEF Process
  <2>2. Truthful(i, m)
    BY <2>1 DEF Seen
  <2>3. /\ store' = [store EXCEPT ![i] = new]
        /\ synced' = [synced EXCEPT ![i] = @ \/ m.type = "replace"]
        /\ queue' = [queue EXCEPT ![i] = Tail(@)] /\ phase' = phase
    BY <1>4 DEF Process, ReflectorType
  <2>4. new \in [Keys -> Object \cup {None}]
    BY <2>1, ContentOf DEF ReflectorType
  <2>5. /\ \A k \in Keys : new[k] = IF k \in DOMAIN m.content THEN m.content[k] ELSE store[i][k]
    OBVIOUS
  <2>. HIDE DEF m, new
  <2>6. /\ store'[i] = new /\ synced'[i] = (synced[i] \/ m.type = "replace")
        /\ queue'[i] = Tail(queue[i])
        /\ \A j \in Informers \ {i} : UNCHANGED <<phase[j], queue[j], store[j], synced[j]>>
    BY <2>3 DEF ReflectorType
  <2>7. ReflectorType'
    BY <1>1, <2>1, <2>3, <2>4, <2>6 DEF ReflectorType
  <2>8. ASSUME NEW k \in Keys
        PROVE  /\ new[k] # None => Selects(ListFunc, k, new[k])
               /\ (synced[i] \/ m.type = "replace") /\ Settled(i, k) => new[k] = objects[k]
    BY <2>2, <2>5, <2>8 DEF Truthful, Seen, Stored
  <2>9. Stored(i)'
    BY <1>1, <2>6, <2>8 DEF Stored, Settled, clientVars
  <2>10. \A k \in Elements(queue'[i]) : Truthful(i, k)
    BY <2>1, <2>6 DEF Seen
  <2>. QED BY <1>1, <1>2, <2>6, <2>7, <2>9, <2>10, OneInformerSeen
<1>5. CASE Break(i)
  <2>1. PICK n \in 0 .. Len(queue[i]) : queue' = [queue EXCEPT ![i] = SubSeq(@, 1, n)]
    BY <1>5 DEF Break
  <2>2. /\ UNCHANGED <<store, synced>> /\ phase' = [phase EXCEPT ![i] = "list"]
    BY <1>5 DEF Break
  <2>3. queue'[i] = SubSeq(queue[i], 1, n) /\ queue'[i] \in Seq(Message)
        /\ Elements(queue'[i]) \subseteq Elements(queue[i])
    BY <1>2, <2>1, ElementsOf DEF ReflectorType
  <2>4. ReflectorType'
    BY <1>1, <2>1, <2>2, <2>3 DEF ReflectorType
  <2>5. \A j \in Informers \ {i} : UNCHANGED <<phase[j], queue[j], store[j], synced[j]>>
    BY <2>1, <2>2 DEF ReflectorType
  <2>6. Stored(i)'
    BY <1>1, <2>2 DEF Seen, Stored, Settled, clientVars
  <2>7. \A k \in Elements(queue'[i]) : Truthful(i, k)
    BY <2>3 DEF Seen
  <2>. QED BY <1>1, <1>2, <2>2, <2>4, <2>5, <2>6, <2>7, OneInformerSeen
<1>. QED BY <1>3, <1>4, <1>5 DEF Reflect


(***************************************************************************)
(* What the watch is sent of a change of the objects.                      *)
(***************************************************************************)
LEMMA UseSeen ==
    ASSUME ClientInv, SeenInv, NEW u \in Users, UseClient(u) PROVE SeenInv'
<1>1. CASE GetObject(u) /\ UNCHANGED <<factoryVars, threadVars, informerVars, disruptionVars>>
  <2>1. UNCHANGED <<objects, revision, informerVars, informer, sawSync>>
    BY <1>1 DEF GetObject, factoryVars, threadVars
  <2>2. ReflectorType' /\ Idle' /\ Waited'
    BY <2>1 DEF SeenInv, ReflectorType, Idle, Waited, informerVars, reflectorVars
  <2>3. Seen'
    BY <2>1 DEF SeenInv, Seen, Stored, Truthful, Settled, informerVars, reflectorVars
  <2>. QED BY <2>2, <2>3 DEF SeenInv
<1>2. CASE /\ Use(u) /\ Notify(objects')
           /\ UNCHANGED <<factoryVars, threadVars, phase, store, synced, runs, ranAt, disruptionVars>>
  <2> DEFINE ks == EventsOf(objects')
             m == Event(objects', ks)
  <2>1. /\ UNCHANGED <<informer, sawSync, phase, store, synced, runs, ranAt>>
        /\ queue' = [i \in Informers |->
               IF phase[i] = "watch" /\ ks # {} THEN Append(queue[i], m) ELSE queue[i]]
    BY <1>2 DEF Notify, factoryVars, threadVars
  <2>2. /\ revision' = revision + 1 /\ revision \in Nat
        /\ objects' \in [Keys -> Object \cup {None}]
        /\ \A k \in Keys : \/ objects'[k] \in {objects[k], None}
                           \/ objects'[k].rv = revision + 1
    BY <1>2, NewVersions
  <2>3. ks \in SUBSET Keys /\ \A k \in ks : objects'[k] # objects[k]
    BY DEF EventsOf
  <2>4. /\ m.type = "change" /\ DOMAIN m.content = ks
        /\ \A k \in ks : m.content[k] = IF Selects(ListFunc, k, objects'[k]) THEN objects'[k] ELSE None
    BY SameSelection DEF Event
  <2>5. m \in Message
    <3>1. m.content \in [ks -> Object \cup {None}]
      BY <2>2, <2>3, <2>4 DEF Event
    <3>. QED BY <2>3, <3>1, MakesMessage DEF Event
  <2>. HIDE DEF ks, m
  <2>6. ASSUME NEW i \in Informers
        PROVE  queue'[i] \in Seq(Message) /\ Elements(queue'[i]) \subseteq Elements(queue[i]) \cup {m}
    BY <2>1, <2>5, ElementsOf DEF SeenInv, ReflectorType
  <2>7. ReflectorType'
    <3>1. queue' \in [Informers -> Seq(Message)]
      BY <2>1, <2>6
    <3>. QED BY <2>1, <3>1 DEF SeenInv, ReflectorType
  <2>8. Idle' /\ Waited'
    BY <2>1 DEF SeenInv, Idle, Waited
  \* What is settled after the change was so before, and has not changed.
  <2>9. ASSUME NEW i \in Informers, NEW k \in Keys, Settled(i, k)'
        PROVE  objects'[k] = objects[k] /\ Settled(i, k)
    <3>1. objects'[k] # None /\ objects'[k].rv <= ranAt[i] /\ Selects(ListFunc, k, objects'[k])
      BY <2>1, <2>9 DEF Settled, Selects
    <3>2. ranAt[i] \in Nat /\ ranAt[i] <= revision
      BY DEF SeenInv, ReflectorType, Seen
    <3>3. objects'[k] = objects[k]
      BY <2>2, <3>1, <3>2
    <3>. QED BY <3>1, <3>3 DEF Settled
  <2>10. ASSUME NEW i \in Informers
         PROVE  ranAt'[i] <= revision' /\ Stored(i)' /\ \A n \in Elements(queue'[i]) : Truthful(i, n)'
    <3>1. ranAt'[i] <= revision'
      BY <2>1, <2>2 DEF SeenInv, ReflectorType, Seen
    <3>2. Stored(i)'
      BY <2>1, <2>9 DEF SeenInv, Seen, Stored
    <3>3. ASSUME NEW n \in Elements(queue'[i]) PROVE Truthful(i, n)'
      <4>1. CASE n \in Elements(queue[i])
        <5>1. n \in Message /\ DOMAIN n.content \subseteq Keys
          BY <4>1, ElementsOf, ContentOf DEF SeenInv, ReflectorType
        <5>2. Truthful(i, n)
          BY <4>1 DEF SeenInv, Seen
        <5>. QED BY <2>9, <5>1, <5>2 DEF Truthful
      <4>2. CASE n = m
        <5>1. \A k \in ks : ~Settled(i, k)'
          BY <2>3, <2>9
        <5>. QED BY <2>4, <4>2, <5>1 DEF Truthful
      <4>. QED BY <2>6, <4>1, <4>2
    <3>. QED BY <3>1, <3>2, <3>3
  <2>. QED BY <2>7, <2>8, <2>10 DEF SeenInv, Seen
<1>. QED BY <1>1, <1>2 DEF UseClient

LEMMA NextSeen ==
    ASSUME Inv, Place, ClientInv, SeenInv, [Next]_vars PROVE SeenInv'
<1>1. CASE Stop \/ UNCHANGED vars
  <2>1. UNCHANGED <<clientVars, informerVars>> /\ Waited'
    BY <1>1 DEF Stop, vars, factoryVars, threadVars, informerVars, reflectorVars, SeenInv, Waited
  <2>. QED BY <2>1, OutsideSeen
<1>. QED BY <1>1, CallSeen, ReflectSeen, UseSeen DEF Next

LEMMA FactoryInvariant == Spec => [](Inv /\ Place /\ ClientInv /\ SeenInv)
<1>1. Init => Inv /\ Place /\ ClientInv /\ SeenInv
  BY InvInit, PlaceInit, SeenInit, ClientInitInv DEF Init
<1>2. Inv /\ Place /\ ClientInv /\ SeenInv /\ [Next]_vars => (Inv /\ Place /\ ClientInv /\ SeenInv)'
  BY NextInv, NextPlace, NextSeen, ClientStep, ClientSteps
<1>. QED BY <1>1, <1>2, PTL DEF Spec

(***************************************************************************)
(* The factory, its callers, the informers and the client stay well        *)
(* formed: the mutex is held by the goroutine between its lock and its     *)
(* return, and what is started was made (sharedInformerFactory).           *)
(***************************************************************************)
THEOREM TypeInvariant == Spec => []TypeOK
<1>1. Inv /\ Place /\ ClientInv /\ SeenInv => TypeOK
  <2> SUFFICES ASSUME Inv, Place, ClientInv, SeenInv PROVE TypeOK
    OBVIOUS
  <2>1. ClientTypeOK
    BY DEF ClientInv, CopiesCurrent, Held, ClientTypeOK
  <2>2. \A t \in Threads : handed[t] \in Informers \cup {None} /\ waits[t] \subseteq Informers
    BY DEF Inv, Shared, Place
  <2>. QED BY <2>1, <2>2 DEF Inv, RunOnce, Place, Critical, SeenInv, ReflectorType, TypeOK
<1>. QED BY <1>1, FactoryInvariant, PTL

(***************************************************************************)
(* The lister shows what the options select and nothing else, whatever     *)
(* users do to the labels and however often the watch breaks               *)
(* (NewFilteredJobFlowInformer).                                           *)
(***************************************************************************)
THEOREM OnlySelectedHolds == Spec => []OnlySelected
<1>1. SeenInv => OnlySelected
  BY DEF SeenInv, Seen, Stored, OnlySelected, ListerList
<1>. QED BY <1>1, FactoryInvariant, PTL

(***************************************************************************)
(* Once WaitForCacheSync has answered true the lister has every object     *)
(* that was there when the informer was started and is the same still      *)
(* (WaitForCacheSync and Start of factory.go, and the lister).             *)
(***************************************************************************)
THEOREM SyncedMeansSeenHolds == Spec => []SyncedMeansSeen
<1>1. Inv /\ SeenInv => SyncedMeansSeen
  <2> SUFFICES ASSUME Inv, SeenInv,
                      NEW t \in Threads, sawSync[t], handed[t] # None, NEW k \in Keys,
                      Selects(ListFunc, k, objects[k]), objects[k].rv <= ranAt[handed[t]]
               PROVE  ListerGet(handed[t], k[1], k[2]) = objects[k]
    BY DEF SyncedMeansSeen
  <2>1. handed[t] = informer /\ informer \in Informers /\ synced[informer]
    BY DEF Inv, Shared, SeenInv, Waited
  <2>2. store[informer][k] = objects[k]
    BY <2>1 DEF SeenInv, Seen, Stored, Settled
  <2>3. k = <<k[1], k[2]>>
    BY ClientAssumption
  <2>. QED BY <2>1, <2>2, <2>3 DEF ListerGet
<1>. QED BY <1>1, FactoryInvariant, PTL

==============================================================================
