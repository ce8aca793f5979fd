--------------------------- MODULE SharedInformers ---------------------------
(***************************************************************************)
(* The generated shared informer factory, the JobFlow informer it makes    *)
(* and the lister on top of it (pkg/client/informers, pkg/client/listers), *)
(* used by several goroutines while others change the objects through the  *)
(* typed client.  The clientset has one group, so the factory's maps from  *)
(* types to informers have one entry at the most.                          *)
(***************************************************************************)
EXTENDS TypedClient, Sequences, FiniteSets
LOCAL INSTANCE SequencesExt

CONSTANTS
    Threads,           \* the goroutines that share the factory
    Program,           \* Program[t]: the calls t makes, in order
    Options,           \* what the factory is made with, in order
    MaxBreaks          \* how often the watch breaks or the informers are stopped

Calls == {"InformerFor", "ForResource", "Start", "WaitForCacheSync"}

\* An option sets one field of the factory; the last one that sets a field counts.
WithNamespace(namespace) == [option |-> "namespace", namespace |-> namespace]
WithTweakListOptions(selector) == [option |-> "tweakListOptions", selector |-> selector]

Apply(factory, o) ==
    IF o.option = "namespace" THEN [factory EXCEPT !.namespace = o.namespace]
                              ELSE [factory EXCEPT !.selector = o.selector]
Factory == FoldLeft(Apply, [namespace |-> All, selector |-> BOOLEAN], Options)

ASSUME FactoryAssumption ==
    /\ Program \in [Threads -> Seq(Calls)]
    /\ Options \in Seq([option : {"namespace"}, namespace : STRING]
                         \cup [option : {"tweakListOptions"}, selector : SUBSET BOOLEAN])
    /\ MaxBreaks \in Nat
    /\ None \notin Threads

Informers == 1 .. Cardinality(Threads)

ASSUME InformersAssumption == IsFiniteSet(Threads) /\ None \notin Informers

VARIABLES
    lock,       \* factory: who holds the mutex
    informer,   \* factory: its informer, or None
    started,    \* factory: startedInformers
    made,       \* how many informers newFunc has made
    next,       \* thread |-> which call of its program it makes
    step,       \* thread |-> the point that call is at
    handed,     \* thread |-> the informer it was given
    waits,      \* thread |-> the informers WaitForCacheSync waits for
    sawSync,    \* thread |-> whether WaitForCacheSync answered true
    runs,       \* informer |-> how often it was run
    phase,      \* informer |-> what its reflector does
    queue,      \* informer |-> what it has been sent and has not yet stored
    store,      \* informer |-> its indexer: key |-> object
    synced,     \* informer |-> HasSynced
    ranAt,      \* history: the revision the server was at when it was run
    stopped,    \* stopCh
    breaks      \* how many disruptions are left

factoryVars == <<lock, informer, started, made>>
threadVars == <<next, step, handed, waits, sawSync>>
reflectorVars == <<phase, queue, store, synced>>
informerVars == <<reflectorVars, runs, ranAt>>
disruptionVars == <<stopped, breaks>>
vars == <<clientVars, factoryVars, threadVars, informerVars, disruptionVars>>

\* What a call of the factory leaves alone, and what a reflector does.
outside == <<clientVars, informerVars, disruptionVars>>
inside == <<clientVars, factoryVars, threadVars, runs, ranAt, stopped>>

Nothing == [k \in Keys |-> None]

TypeOK ==
    /\ ClientTypeOK
    /\ lock \in Threads \cup {None}
    /\ informer \in Informers \cup {None}
    /\ started => informer # None
    /\ \A t \in Threads :
          /\ next[t] \in 1 .. Len(Program[t]) + 1
          /\ lock = t <=> step[t] \in {"look", "insert", "check", "run", "collect"}
          /\ handed[t] \in Informers \cup {None}
          /\ waits[t] \subseteq Informers
    /\ store \in [Informers -> [Keys -> Object \cup {None}]]

Init ==
    /\ ClientInit
    /\ lock = None /\ informer = None /\ started = FALSE /\ made = 0
    /\ next = [t \in Threads |-> 1]
    /\ step = [t \in Threads |-> "call"]
    /\ handed = [t \in Threads |-> None]
    /\ waits = [t \in Threads |-> {}]
    /\ sawSync = [t \in Threads |-> FALSE]
    /\ runs = [i \in Informers |-> 0]
    /\ phase = [i \in Informers |-> "new"]
    /\ queue = [i \in Informers |-> <<>>]
    /\ store = [i \in Informers |-> Nothing]
    /\ synced = [i \in Informers |-> FALSE]
    /\ ranAt = [i \in Informers |-> 0]
    /\ stopped = FALSE
    /\ breaks = MaxBreaks

(***************************************************************************)
(* The calls of the factory.  Each takes the mutex and gives it back on    *)
(* every way out.                                                          *)
(***************************************************************************)
Goto(t, s) == step' = [step EXCEPT ![t] = s]
\* ForResource finds the informer of a resource through InformerFor.
FirstStep == [InformerFor |-> "look", ForResource |-> "look",
              Start |-> "check", WaitForCacheSync |-> "collect"]

Lock_Free(t) ==   \* mutant
    /\ step[t] = "call" /\ next[t] <= Len(Program[t])
    /\ lock' = t
    /\ Goto(t, FirstStep[Program[t][next[t]]])
    /\ UNCHANGED <<outside, informer, started, made, next, handed, waits, sawSync>>

Lock(t) ==
    /\ step[t] = "call" /\ next[t] <= Len(Program[t])
    /\ lock = None
    /\ lock' = t
    /\ Goto(t, FirstStep[Program[t][next[t]]])
    /\ UNCHANGED <<outside, informer, started, made, next, handed, waits, sawSync>>

Done(t) ==
    /\ Goto(t, "call")
    /\ next' = [next EXCEPT ![t] = @ + 1]

Return(t) == lock' = None /\ Done(t)

\* InformerFor: one lookup, and a new informer when there is none.
LookUp_KeepsLock(t) ==   \* mutant
    /\ step[t] = "look"
    /\ IF informer # None
         THEN Done(t) /\ handed' = [handed EXCEPT ![t] = informer] /\ UNCHANGED lock
         ELSE Goto(t, "insert") /\ UNCHANGED <<lock, next, handed>>
    /\ UNCHANGED <<outside, informer, started, made, waits, sawSync>>

LookUp(t) ==
    /\ step[t] = "look"
    /\ IF informer # None
         THEN Return(t) /\ handed' = [handed EXCEPT ![t] = informer]
         ELSE Goto(t, "insert") /\ UNCHANGED <<lock, next, handed>>
    /\ UNCHANGED <<outside, informer, started, made, waits, sawSync>>

Insert(t) ==
    /\ step[t] = "insert"
    /\ made' = made + 1
    /\ informer' = made + 1
    /\ handed' = [handed EXCEPT ![t] = made + 1]
    /\ Return(t)
    /\ UNCHANGED <<outside, started, waits, sawSync>>

\* Start: every informer that was not started yet is run.
Check(t) ==
    /\ step[t] = "check"
    /\ IF informer # None /\ ~started
         THEN Goto(t, "run") /\ UNCHANGED <<lock, next>>
         ELSE Return(t)
    /\ UNCHANGED <<outside, informer, started, made, handed, waits, sawSync>>

Run(t) ==
    /\ step[t] = "run"
    /\ started' = TRUE
    /\ runs' = [runs EXCEPT ![informer] = @ + 1]
    /\ phase' = [phase EXCEPT ![informer] = IF @ = "new" THEN "list" ELSE @]
    /\ ranAt' = [ranAt EXCEPT ![informer] = revision]
    /\ Return(t)
    /\ UNCHANGED <<clientVars, informer, made, handed, waits, sawSync, queue, store, synced, disruptionVars>>

\* WaitForCacheSync: the started informers, and then without the mutex their caches.
Collect(t) ==
    /\ step[t] = "collect"
    /\ waits' = [waits EXCEPT ![t] = IF started THEN {informer} ELSE {}]
    /\ lock' = None
    /\ Goto(t, "wait")
    /\ UNCHANGED <<outside, informer, started, made, next, handed, sawSync>>

AllSynced_Listed(ids) == \A i \in ids : phase[i] = "watch"   \* mutant
AllSynced(ids) == \A i \in ids : synced[i]

Wait(t) ==
    /\ step[t] = "wait"
    /\ AllSynced(waits[t]) \/ stopped
    /\ sawSync' = [sawSync EXCEPT ![t] = waits[t] # {} /\ AllSynced(waits[t])]
    /\ Done(t)
    /\ UNCHANGED <<outside, factoryVars, handed, waits>>

(***************************************************************************)
(* The informer: its reflector lists, then watches from what it listed,    *)
(* and what it receives is stored in order.                                *)
(***************************************************************************)
ListFunc == List(Factory.namespace, Factory.selector)
WatchFunc_NoTweak == Watch(Factory.namespace, BOOLEAN)   \* mutant
WatchFunc == Watch(Factory.namespace, Factory.selector)

Listed == [k \in Keys |-> IF Selects(ListFunc, k, objects[k]) THEN objects[k] ELSE None]

ListAndWatch(i) ==
    /\ phase[i] = "list" /\ ~stopped
    /\ phase' = [phase EXCEPT ![i] = "watch"]
    /\ queue' = [queue EXCEPT ![i] = Append(@, [type |-> "replace", content |-> Listed])]
    /\ UNCHANGED <<inside, store, synced, breaks>>

\* What a watch is sent of a change: the object, or its removal from the selection.
EventsOf(new) ==
    {k \in Keys : new[k] # objects[k]
                    /\ (Selects(WatchFunc, k, objects[k]) \/ Selects(WatchFunc, k, new[k]))}
Event(new, ks) ==
    [type |-> "change",
     content |-> [k \in ks |-> IF Selects(WatchFunc, k, new[k]) THEN new[k] ELSE None]]

Notify(new) ==
    queue' = [i \in Informers |->
        IF phase[i] = "watch" /\ EventsOf(new) # {}
          THEN Append(queue[i], Event(new, EventsOf(new))) ELSE queue[i]]

Process(i) ==
    /\ queue[i] # <<>> /\ ~stopped
    /\ LET head == Head(queue[i])
       IN  /\ store' = [store EXCEPT ![i] =
                  [k \in Keys |-> IF k \in DOMAIN head.content THEN head.content[k] ELSE @[k]]]
           /\ synced' = [synced EXCEPT ![i] = @ \/ head.type = "replace"]
    /\ queue' = [queue EXCEPT ![i] = Tail(@)]
    /\ UNCHANGED <<inside, phase, breaks>>

\* The connection breaks: some of what was sent is lost, and the reflector lists again.
Break(i) ==
    /\ phase[i] = "watch" /\ breaks > 0
    /\ breaks' = breaks - 1
    /\ phase' = [phase EXCEPT ![i] = "list"]
    /\ \E n \in 0 .. Len(queue[i]) : queue' = [queue EXCEPT ![i] = SubSeq(@, 1, n)]
    /\ UNCHANGED <<inside, store, synced>>

Stop ==
    /\ ~stopped /\ breaks > 0
    /\ breaks' = breaks - 1
    /\ stopped' = TRUE
    /\ UNCHANGED <<clientVars, factoryVars, threadVars, informerVars>>

UseClient(u) ==
    \/ /\ Use(u)
       /\ Notify(objects')
       /\ UNCHANGED <<factoryVars, threadVars, phase, store, synced, runs, ranAt, disruptionVars>>
    \/ /\ GetObject(u)
       /\ UNCHANGED <<factoryVars, threadVars, informerVars, disruptionVars>>

Call(t) == Lock(t) \/ LookUp(t) \/ Insert(t) \/ Check(t) \/ Run(t) \/ Collect(t) \/ Wait(t)
Reflect(i) == ListAndWatch(i) \/ Process(i)

Next ==
    \/ \E t \in Threads : Call(t)
    \/ \E i \in Informers : Reflect(i) \/ Break(i)
    \/ \E u \in Users : UseClient(u)
    \/ Stop

Spec == Init /\ [][Next]_vars

\* Goroutines that can run do run; users need do nothing and connections need not break.
Fairness ==
    /\ \A t \in Threads : WF_vars(Call(t))
    /\ \A i \in Informers : WF_vars(ListAndWatch(i)) /\ WF_vars(Process(i))
FairSpec == Spec /\ Fairness

(***************************************************************************)
(* The lister.                                                             *)
(***************************************************************************)
ListerList(i) == {k \in Keys : store[i][k] # None}
NamespaceLister(i, ns) == {k \in ListerList(i) : k[1] = ns}
ListerGet(i, ns, name) == IF <<ns, name>> \in Keys THEN store[i][<<ns, name>>] ELSE None

(***************************************************************************)
(* However the goroutines race, all are given one informer, and it is run  *)
(* once (InformerFor and Start of factory.go).                             *)
(***************************************************************************)
OneInformer ==
    /\ Cardinality({handed[t] : t \in Threads} \ {None}) <= 1
    /\ \A i \in Informers : runs[i] <= 1

(***************************************************************************)
(* Once WaitForCacheSync has answered true, the lister knows every object  *)
(* of its selection that has not changed since the informer was started.   *)
(***************************************************************************)
SyncedMeansSeen ==
    \A t \in Threads : sawSync[t] /\ handed[t] # None =>
        \A k \in Keys :
            Selects(ListFunc, k, objects[k]) /\ objects[k].rv <= ranAt[handed[t]]
              => ListerGet(handed[t], k[1], k[2]) = objects[k]

(***************************************************************************)
(* The lister shows objects of the factory's namespace and selection only, *)
(* also after an object has changed so that it is selected no more         *)
(* (NewFilteredJobFlowInformer: the options apply to list and watch).      *)
(***************************************************************************)
OnlySelected ==
    \A i \in Informers : \A k \in ListerList(i) : Selects(ListFunc, k, store[i][k])

(***************************************************************************)
(* In the end the lister and the client agree: each lists what the other   *)
(* does, in every namespace.                                               *)
(***************************************************************************)
Agree(i, ns) ==
    /\ NamespaceLister(i, ns) = {k \in Selected(ListFunc) : k[1] = ns}
    /\ \A k \in NamespaceLister(i, ns) : ListerGet(i, ns, k[2]) = objects[k]
ListerConverges ==
    <>[](started /\ ~stopped => \A k \in Keys : Agree(informer, k[1]))

(***************************************************************************)
(* Every call of the factory returns, also when the informers are stopped  *)
(* before their caches are synced.                                         *)
(***************************************************************************)
CallsReturn == \A t \in Threads : <>(next[t] > Len(Program[t]))
==============================================================================
