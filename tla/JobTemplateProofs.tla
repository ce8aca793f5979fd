-------------------------- MODULE JobTemplateProofs --------------------------
(***************************************************************************)
(* What the JobTemplate controller guarantees for every set of templates   *)
(* and Jobs and every bound.                                               *)
(***************************************************************************)
EXTENDS JobTemplate, FiniteSetTheorems, SequenceTheorems, TLAPS

LEMMA AnnotationType ==
    /\ \A t \in Templates : Connection(t) \in Seq(STRING) /\ Connection(t) # <<>>
    /\ Annotations \subseteq Seq(STRING)
    /\ None \notin Annotations
<1>1. ASSUME NEW t \in Templates PROVE Connection(t) \in Seq(STRING) /\ Connection(t) # <<>>
  <2>1. <<Namespace[t]>> \in Seq(STRING) /\ Name[t] \in Seq(STRING)
    BY JobTemplateAssumption
  <2>2. Len(<<Namespace[t]>> \o Name[t]) = 1 + Len(Name[t]) /\ Len(Name[t]) \in Nat
    BY <2>1
  <2>. QED BY <2>1, <2>2, EmptySeq DEF Connection
<1>2. Annotations \subseteq Seq(STRING)
  <2>1. <<>> \in Seq(STRING)
    OBVIOUS
  <2>. QED BY <1>1, <2>1 DEF Annotations
<1>. QED BY <1>1, <1>2, JobTemplateAssumption

(***************************************************************************)
(* A new version has a resourceVersion that no copy has.                   *)
(***************************************************************************)
LEMMA NewTokenFresh ==
    ASSUME NEW t \in Templates
    PROVE  /\ NewToken(t) \in Tokens
           /\ NewToken(t) # templateCache[t].rv
           /\ req = t /\ object # None => NewToken(t) # object.rv
<1> DEFINE Fresh(v) == v # templateCache[t].rv /\ (req = t /\ object # None => v # object.rv)
<1>1. \E v \in Tokens : Fresh(v)
  <2>1. 0 \in Tokens /\ 1 \in Tokens /\ 2 \in Tokens
    BY DEF Tokens
  <2>. QED BY <2>1
<1>2. NewToken(t) = CHOOSE v \in Tokens : Fresh(v)
  BY DEF NewToken
<1>. HIDE DEF Fresh
<1>3. NewToken(t) \in Tokens /\ Fresh(NewToken(t))
  BY <1>1, <1>2
<1>. QED BY <1>3 DEF Fresh

LEMMA StoreType ==
    ASSUME TypeOK, NEW t \in Templates, NEW new \in Object, Store(t, new)
    PROVE  templates' \in [Templates -> Object]
<1>1. [new EXCEPT !.rv = NewToken(t)] \in Object
  BY NewTokenFresh DEF Object
<1>. QED BY <1>1 DEF Store, TypeOK

LEMMA AbsentType == Absent \in Object /\ [Absent EXCEPT !.exists = TRUE] \in Object
<1>1. <<>> \in Seq(Names) /\ 0 \in Tokens
  BY DEF Tokens
<1>. QED BY <1>1 DEF Absent, Object

(***************************************************************************)
(* The names written, in whichever order, are those of the Jobs found.     *)
(***************************************************************************)
LEMMA OrdersType ==
    ASSUME NEW S \in SUBSET JobKeys, IsFiniteSet(S), NEW names \in Orders(S)
    PROVE  /\ names \in Seq(Names)
           /\ {names[i] : i \in DOMAIN names} = {k[2] : k \in S}
<1> DEFINE n == Cardinality(S)
<1>1. PICK f \in [1 .. n -> S] : /\ \A i, j \in DOMAIN f : f[i] = f[j] => i = j
                                /\ names = [i \in DOMAIN f |-> f[i][2]]
  BY DEF Orders
<1>2. n \in Nat
  BY FS_CardinalityType
<1>3. f \in Surjection(1 .. n, S)
  <2>1. 1 \in Int /\ n \in Int /\ (1 > n => n = 0) /\ n - 1 + 1 = n
    BY <1>2
  <2>2. Cardinality(1 .. n) = n
    BY <2>1, FS_Interval
  <2>3. f \in Injection(1 .. n, S)
    BY <1>1 DEF Injection, IsInjective
  <2>. HIDE DEF n
  <2>. QED BY <2>2, <2>3, FS_Injection DEF n
<1>4. \A k \in S : \E i \in 1 .. n : f[i] = k
  BY <1>3 DEF Surjection
<1>5. DOMAIN names = 1 .. n /\ \A i \in 1 .. n : names[i] = f[i][2] /\ names[i] \in Names
  BY <1>1 DEF Names
<1>. HIDE DEF n
<1>6. names \in Seq(Names)
  BY <1>1, <1>2, <1>5
<1>7. {names[i] : i \in DOMAIN names} = {k[2] : k \in S}
  BY <1>1, <1>4, <1>5
<1>. QED BY <1>6, <1>7
-----------------------------------------------------------------------------
(***************************************************************************)
(* The types.  They need that only finitely many Jobs are to be seen at    *)
(* any time: what a call finds has a number of elements only then.         *)
(***************************************************************************)
Active == {k \in JobKeys : jobs[k] # None \/ watch[k] # <<>> \/ jobCache[k] # None}
TypeInv == TypeOK /\ IsFiniteSet(Active) /\ IsFiniteSet(found)

LEMMA DisturbType ==
    ASSUME TypeOK, NEW kind, Disturb(kind) PROVE budget' \in 0 .. MaxDisturbances
<1>. QED BY JobTemplateAssumption DEF TypeOK, Disturb

LEMMA PutType ==
    ASSUME TypeInv, NEW k \in JobKeys, NEW v \in Version, Put(k, v),
           linked' \subseteq JobKeys \X Templates, budget' \in 0 .. MaxDisturbances
    PROVE  TypeInv'
<1>1. TypeOK'
  BY DEF TypeInv, TypeOK, Put, templateVars, call
<1>2. Active' \subseteq Active \cup {k}
  BY DEF TypeInv, TypeOK, Put, Active
<1>3. IsFiniteSet(Active')
  BY <1>2, FS_AddElement, FS_Subset DEF TypeInv
<1>. QED BY <1>1, <1>3 DEF TypeInv, Put, call

LEMMA ObserveType ==
    ASSUME TypeInv, NEW k \in JobKeys, Observe(k), queue' \subseteq Templates
    PROVE  TypeInv'
<1>1. watch[k] \in Seq(Version) /\ watch[k] # <<>> /\ Head(watch[k]) \in Version
      /\ Tail(watch[k]) \in Seq(Version)
  BY DEF TypeInv, TypeOK, Observe
<1>2. TypeOK'
  BY <1>1 DEF TypeInv, TypeOK, Observe, templateVars, call
<1>3. Active' \subseteq Active
  BY <1>1 DEF TypeInv, TypeOK, Observe, Active
<1>4. IsFiniteSet(Active')
  BY <1>3, FS_Subset DEF TypeInv
<1>. QED BY <1>2, <1>4 DEF TypeInv, Observe, call

(***************************************************************************)
(* A step that changes no Job and no copy of one.                          *)
(***************************************************************************)
LEMMA KeepType ==
    ASSUME TypeInv, UNCHANGED jobVars, templates' \in [Templates -> Object],
           templateCache' \in [Templates -> Object],
           queue' \subseteq Templates, budget' \in 0 .. MaxDisturbances,
           Leave \/ UNCHANGED call
    PROVE  TypeInv'
<1>1. Active' = Active
  BY DEF Active, jobVars
<1>2. TypeOK'
  BY DEF TypeInv, TypeOK, jobVars, Leave, call
<1>3. IsFiniteSet(found')
  BY FS_EmptySet DEF TypeInv, Leave, call
<1>. QED BY <1>1, <1>2, <1>3 DEF TypeInv

LEMMA WriteListType ==
    ASSUME TypeInv, pc = "update", WriteList
    PROVE  templates' \in [Templates -> Object]
<1>1. req \in Templates
  BY JobTemplateAssumption DEF TypeInv, TypeOK
<1>2. ASSUME NEW names \in Orders(found)
      PROVE  [templates[req] EXCEPT !.dependencyList = names] \in Object
  <2>1. found \in SUBSET JobKeys /\ IsFiniteSet(found)
    BY DEF TypeInv, TypeOK
  <2>2. names \in Seq(Names)
    BY <2>1, OrdersType
  <2>. QED BY <1>1, <2>2 DEF TypeInv, TypeOK, Object
<1>. QED BY <1>1, <1>2, StoreType DEF WriteList, TypeInv, TypeOK

LEMMA UsersActive == ASSUME NEW t \in Templates PROVE Users(t) \subseteq Active
<1>1. Connection(t) # None
  BY AnnotationType, JobTemplateAssumption
<1>. QED BY <1>1 DEF Users, Active

LEMMA WorkerType == ASSUME TypeInv, Worker PROVE TypeInv'
<1>. USE DEF TypeInv
<1>1. req \in Templates /\ budget' = budget /\ UNCHANGED jobVars
  BY JobTemplateAssumption
  DEF TypeOK, Worker, GetJobTemplate, ListJobs, UpdateStatus
<1>2. CASE GetJobTemplate
  <2>1. CASE Finish
    BY <1>1, <1>2, <2>1, KeepType DEF GetJobTemplate, Finish, TypeOK, templateVars
  <2>2. CASE object' = templateCache[req] /\ pc' = "list" /\ UNCHANGED <<queue, req, found>>
    <3>1. TypeOK'
      BY <1>1, <1>2, <2>2 DEF GetJobTemplate, TypeOK, templateVars, jobVars
    <3>. QED BY <1>1, <2>2, <3>1 DEF Active, jobVars
  <2>. QED BY <1>2, <2>1, <2>2 DEF GetJobTemplate
<1>3. CASE ListJobs
  <2>1. CASE Finish
    BY <1>1, <1>3, <2>1, KeepType DEF ListJobs, Finish, TypeOK, templateVars
  <2>2. CASE /\ Users(req) # {} /\ found' = Users(req) /\ pc' = "update"
             /\ UNCHANGED <<queue, req, object>>
    <3>1. Users(req) \in (SUBSET JobKeys) \ {{}}
      BY <2>2 DEF Users
    <3>2. IsFiniteSet(Users(req))
      BY <1>1, UsersActive, FS_Subset
    <3>3. TypeOK'
      BY <1>1, <1>3, <2>2, <3>1 DEF ListJobs, TypeOK, templateVars, jobVars
    <3>. QED BY <1>1, <2>2, <3>2, <3>3 DEF Active, jobVars
  <2>. QED BY <1>3, <2>1, <2>2 DEF ListJobs
<1>4. CASE UpdateStatus
  <2>1. Leave /\ queue' \subseteq Templates
    BY <1>1, <1>4 DEF UpdateStatus, Finish, Requeue, TypeOK
  <2>2. templates' \in [Templates -> Object]
    BY <1>4, WriteListType DEF UpdateStatus, TypeOK
  <2>. QED BY <1>1, <1>4, <2>1, <2>2, KeepType DEF UpdateStatus, TypeOK
<1>. QED BY <1>2, <1>3, <1>4 DEF Worker

LEMMA EditTemplateType ==
    ASSUME TypeInv, NEW t \in Templates, EditTemplate(t) PROVE TypeInv'
<1>1. templates[t] \in Object
  BY DEF TypeInv, TypeOK
<1>2. templates' \in [Templates -> Object]
  BY <1>1, AbsentType, StoreType DEF EditTemplate, TypeInv
<1>3. budget' \in 0 .. MaxDisturbances
  BY DisturbType DEF EditTemplate, TypeInv, TypeOK
<1>. QED BY <1>2, <1>3, KeepType DEF EditTemplate, TypeInv, TypeOK

LEMMA NextType == ASSUME TypeInv, [Next]_vars PROVE TypeInv'
<1>1. CASE UNCHANGED vars
  BY <1>1, KeepType DEF vars, templateVars, TypeInv, TypeOK
<1>2. CASE Worker
  BY <1>2, WorkerType
<1>3. CASE ApiError
  <2>1. req \in Templates /\ budget' \in 0 .. MaxDisturbances
    BY <1>3, DisturbType DEF ApiError, TypeInv, TypeOK
  <2>2. templates' \in [Templates -> Object]
    BY <1>3, WriteListType DEF ApiError, TypeInv, TypeOK
  <2>. QED BY <1>3, <2>1, <2>2, KeepType DEF ApiError, Requeue, TypeInv, TypeOK
<1>4. CASE Crash
  <2>1. budget' \in 0 .. MaxDisturbances
    BY <1>4, DisturbType DEF Crash, TypeInv
  <2>2. watch' \in [JobKeys -> Seq(Version)] /\ \A k \in JobKeys : watch'[k] = <<>>
    <3>1. <<>> \in Seq(Version)
      OBVIOUS
    <3>. QED BY <1>4, <3>1 DEF Crash
  <2>3. TypeOK'
    BY <1>4, <2>1, <2>2 DEF Crash, Leave, TypeInv, TypeOK
  <2>4. Active' \subseteq Active
    BY <1>4, <2>2 DEF Crash, Active
  <2>. QED BY <1>4, <2>3, <2>4, FS_Subset, FS_EmptySet DEF Crash, Leave, TypeInv
<1>5. CASE Relist
  <2>1. budget' \in 0 .. MaxDisturbances
    BY <1>5, DisturbType DEF Relist, TypeInv
  <2>2. watch' \in [JobKeys -> Seq(Version)]
    BY <1>5 DEF Relist, TypeInv, TypeOK
  <2>3. TypeOK'
    BY <1>5, <2>1, <2>2 DEF Relist, TypeInv, TypeOK, templateVars, call
  <2>4. Active' \subseteq Active
    BY <1>5 DEF Relist, Active
  <2>. QED BY <1>5, <2>3, <2>4, FS_Subset DEF Relist, TypeInv, call
<1>6. ASSUME NEW t \in Templates, Start(t) PROVE TypeInv'
  <2>1. TypeOK' /\ Active' = Active
    BY <1>6, JobTemplateAssumption DEF Start, TypeInv, TypeOK, Active, jobVars, templateVars
  <2>. QED BY <1>6, <2>1 DEF Start, TypeInv
<1>7. ASSUME NEW t \in Templates, OnTemplate(t) PROVE TypeInv'
  BY <1>7, KeepType DEF OnTemplate, TypeInv, TypeOK
<1>8. ASSUME NEW t \in Templates, EditTemplate(t) PROVE TypeInv'
  BY <1>8, EditTemplateType
<1>9. ASSUME NEW k \in JobKeys, CreateJob(k) PROVE TypeInv'
  <2>1. PICK a \in Annotations : Put(k, a) /\ linked' = linked \cup MadeFrom(k, a)
    BY <1>9 DEF CreateJob
  <2>2. MadeFrom(k, a) \subseteq JobKeys \X Templates
    BY DEF MadeFrom
  <2>. QED BY <1>9, <2>1, <2>2, PutType DEF CreateJob, Version, TypeInv, TypeOK
<1>10. ASSUME NEW k \in JobKeys, ChangeJob(k) \/ DeleteJob(k) PROVE TypeInv'
  <2>1. PICK v \in Version : Put(k, v) /\ linked' = linked
    BY <1>10 DEF ChangeJob, DeleteJob, Version, TypeInv, TypeOK
  <2>2. budget' \in 0 .. MaxDisturbances
    BY <1>10, DisturbType DEF ChangeJob, DeleteJob, TypeInv, TypeOK
  <2>. QED BY <2>1, <2>2, PutType DEF TypeInv, TypeOK
<1>11. ASSUME NEW k \in JobKeys, DeliverJob(k) PROVE TypeInv'
  <2>1. Observe(k) /\ queue' \subseteq Templates
    BY <1>11 DEF DeliverJob, JobCreateTemplateHandler, JobUpdateTemplateHandler,
                 JobDeleteTemplateHandler, Wake, Woken, TypeInv, TypeOK
  <2>. QED BY <2>1, ObserveType
<1>. QED BY <1>1, <1>2, <1>3, <1>4, <1>5, <1>6, <1>7, <1>8, <1>9, <1>10, <1>11 DEF Next

LEMMA InitType == ASSUME Init PROVE TypeInv
<1>1. Active = {} /\ found = {}
  BY DEF Init, Active
<1>2. None \in Version /\ <<>> \in Seq(Version) /\ MaxDisturbances \in 0 .. MaxDisturbances
  BY JobTemplateAssumption DEF Version
<1>3. TypeOK
  BY <1>2, AbsentType DEF Init, TypeOK
<1>. QED BY <1>1, <1>3, FS_EmptySet DEF TypeInv

(***************************************************************************)
(* The state of the controller and of what it watches stays well formed,   *)
(* and a call never has an infinite list to write (Reconcile,              *)
(* jobflow_template_controller.go).                                        *)
(***************************************************************************)
THEOREM TypeInvariant == Spec => []TypeOK
<1>1. Init => TypeInv
  BY InitType
<1>2. TypeInv /\ [Next]_vars => TypeInv'
  BY NextType
<1>3. TypeInv => TypeOK
  BY DEF TypeInv
<1>. QED BY <1>1, <1>2, <1>3, PTL DEF Spec
-----------------------------------------------------------------------------
(***************************************************************************)
(* No Job is charged to the wrong JobTemplate.  The inductive invariant:   *)
(* every version that can still be read carries the annotation of a        *)
(* JobTemplate only if the Job was made from it, and so for what a call    *)
(* has found.                                                              *)
(***************************************************************************)
Honest(k, version) == \A t \in Templates : version = Connection(t) => <<k, t>> \in linked

AllHonest ==
    \A k \in JobKeys : /\ Honest(k, jobs[k])
                       /\ Honest(k, jobCache[k])
                       /\ \A i \in DOMAIN watch[k] : Honest(k, watch[k][i])

SoundInv ==
    /\ AllHonest
    /\ \A k \in found : <<k, req>> \in linked
    /\ ListSound

LEMMA PutHonest ==
    ASSUME TypeOK, AllHonest, NEW k \in JobKeys, NEW v \in Version, Put(k, v),
           linked \subseteq linked',
           \A t \in Templates : v = Connection(t) => <<k, t>> \in linked'
    PROVE  AllHonest'
<1>1. ASSUME NEW l \in JobKeys, l # k
      PROVE  jobs'[l] = jobs[l] /\ watch'[l] = watch[l] /\ jobCache'[l] = jobCache[l]
  BY <1>1 DEF Put, TypeOK
<1>2. jobs'[k] = v /\ jobCache'[k] = jobCache[k] /\ watch'[k] = Append(watch[k], v)
  BY DEF Put, TypeOK
<1>3. ASSUME NEW i \in DOMAIN watch'[k]
      PROVE  watch'[k][i] = v \/ (i \in DOMAIN watch[k] /\ watch'[k][i] = watch[k][i])
  <2>1. watch[k] \in Seq(Version)
    BY DEF TypeOK
  <2>. QED BY <1>2, <1>3, <2>1
<1>4. ASSUME NEW l \in JobKeys, l # k
      PROVE  /\ Honest(l, jobs[l])' /\ Honest(l, jobCache[l])'
             /\ \A i \in DOMAIN watch'[l] : Honest(l, watch[l][i])'
  BY <1>1, <1>4 DEF AllHonest, Honest
<1>5. /\ Honest(k, jobs[k])' /\ Honest(k, jobCache[k])'
      /\ \A i \in DOMAIN watch'[k] : Honest(k, watch[k][i])'
  BY <1>2, <1>3 DEF AllHonest, Honest
<1>. QED BY <1>4, <1>5 DEF AllHonest

LEMMA ObserveHonest ==
    ASSUME TypeOK, AllHonest, NEW k \in JobKeys, Observe(k) PROVE AllHonest'
<1>1. watch[k] \in Seq(Version) /\ watch[k] # <<>>
  BY DEF Observe, TypeOK
<1>2. /\ jobCache'[k] = Head(watch[k])
      /\ watch'[k] = Tail(watch[k])
      /\ \A l \in JobKeys \ {k} : jobCache'[l] = jobCache[l] /\ watch'[l] = watch[l]
      /\ UNCHANGED <<jobs, linked>>
  BY DEF Observe, TypeOK
<1>3. 1 \in DOMAIN watch[k] /\ Head(watch[k]) = watch[k][1]
  BY <1>1
<1>4. ASSUME NEW i \in DOMAIN Tail(watch[k])
      PROVE  i + 1 \in DOMAIN watch[k] /\ Tail(watch[k])[i] = watch[k][i + 1]
  BY <1>1, <1>4
<1>5. ASSUME NEW l \in JobKeys, l # k
      PROVE  /\ Honest(l, jobs[l])' /\ Honest(l, jobCache[l])'
             /\ \A i \in DOMAIN watch'[l] : Honest(l, watch[l][i])'
  BY <1>2, <1>5 DEF AllHonest, Honest
<1>6. Honest(k, jobs[k])' /\ Honest(k, jobCache[k])'
  BY <1>2, <1>3 DEF AllHonest, Honest
<1>7. ASSUME NEW i \in DOMAIN watch'[k] PROVE Honest(k, watch[k][i])'
  <2>1. i + 1 \in DOMAIN watch[k] /\ watch'[k][i] = watch[k][i + 1]
    BY <1>2, <1>4, <1>7
  <2>2. Honest(k, watch[k][i + 1])
    BY <2>1 DEF AllHonest
  <2>. QED BY <1>2, <2>1, <2>2 DEF Honest
<1>. QED BY <1>5, <1>6, <1>7 DEF AllHonest

LEMMA CopyHonest ==
    ASSUME AllHonest, UNCHANGED <<jobs, linked>>,
           jobCache' = jobCache \/ jobCache' = jobs,
           \A k \in JobKeys : watch'[k] \in {watch[k], <<>>, <<jobs[k]>>}
    PROVE  AllHonest'
<1> SUFFICES ASSUME NEW k \in JobKeys
             PROVE  /\ Honest(k, jobs[k])' /\ Honest(k, jobCache[k])'
                    /\ \A i \in DOMAIN watch'[k] : Honest(k, watch[k][i])'
  BY DEF AllHonest
<1>1. Honest(k, jobs[k])' /\ Honest(k, jobCache[k])'
  BY DEF AllHonest, Honest
<1>2. CASE watch'[k] = watch[k]
  BY <1>1, <1>2 DEF AllHonest, Honest
<1>3. CASE watch'[k] = <<>>
  BY <1>1, <1>3
<1>4. CASE watch'[k] = <<jobs[k]>>
  <2>1. \A i \in DOMAIN watch'[k] : watch'[k][i] = jobs[k]
    BY <1>4
  <2>. QED BY <1>1, <2>1 DEF AllHonest, Honest
<1>. QED BY <1>2, <1>3, <1>4

(***************************************************************************)
(* What is written to the lists: the names of what a call has found, by a  *)
(* call, and nothing new by a user.                                        *)
(***************************************************************************)
LEMMA StoreSound ==
    ASSUME TypeOK, ListSound, NEW t \in Templates, NEW new \in Object, Store(t, new),
           linked \subseteq linked',
           \A i \in DOMAIN new.dependencyList :
              \E k \in JobKeys : k[2] = new.dependencyList[i] /\ <<k, t>> \in linked
    PROVE  ListSound'
<1>1. [new EXCEPT !.rv = NewToken(t)].dependencyList = new.dependencyList
  BY DEF Object
<1>2. /\ templates'[t].dependencyList = new.dependencyList
      /\ \A u \in Templates \ {t} : templates'[u] = templates[u]
  BY <1>1 DEF Store, TypeOK
<1> SUFFICES ASSUME NEW u \in Templates, NEW i \in DOMAIN templates'[u].dependencyList
             PROVE  \E k \in JobKeys : k[2] = templates'[u].dependencyList[i] /\ <<k, u>> \in linked'
  BY DEF ListSound, ListOf
<1>3. CASE u = t
  BY <1>2, <1>3
<1>4. CASE u # t
  BY <1>2, <1>4 DEF ListSound, ListOf
<1>. QED BY <1>3, <1>4

LEMMA KeepSound ==
    ASSUME ListSound, UNCHANGED templates, linked \subseteq linked' PROVE ListSound'
<1>. QED BY DEF ListSound, ListOf

LEMMA WriteListSound ==
    ASSUME TypeInv, SoundInv, pc = "update", WriteList, linked' = linked PROVE ListSound'
<1>1. req \in Templates /\ found \in SUBSET JobKeys /\ IsFiniteSet(found)
      /\ templates[req] \in Object
  BY JobTemplateAssumption DEF TypeInv, TypeOK
<1>2. CASE UNCHANGED templates
  BY <1>2, KeepSound DEF SoundInv
<1>3. ASSUME NEW names \in Orders(found),
             Store(req, [templates[req] EXCEPT !.dependencyList = names])
      PROVE  ListSound'
  <2>1. names \in Seq(Names) /\ {names[i] : i \in DOMAIN names} = {k[2] : k \in found}
    BY <1>1, OrdersType
  <2> DEFINE new == [templates[req] EXCEPT !.dependencyList = names]
  <2>2. new \in Object /\ new.dependencyList = names
    BY <1>1, <2>1 DEF Object
  <2>3. ASSUME NEW i \in DOMAIN names
        PROVE  \E k \in JobKeys : k[2] = names[i] /\ <<k, req>> \in linked
    <3>1. PICK k \in found : k[2] = names[i]
      BY <2>1, <2>3
    <3>. QED BY <1>1, <3>1 DEF SoundInv
  <2>. QED BY <1>1, <1>3, <2>2, <2>3, StoreSound DEF SoundInv, TypeInv
<1>. QED BY <1>2, <1>3 DEF WriteList

LEMMA NextSound == ASSUME TypeInv, SoundInv, [Next]_vars PROVE SoundInv'
<1>. USE DEF TypeInv
<1>1. ASSUME UNCHANGED jobVars PROVE AllHonest' /\ linked' = linked
  BY <1>1, CopyHonest DEF SoundInv, jobVars
<1>2. ASSUME UNCHANGED <<templates, linked>> PROVE ListSound'
  BY <1>2, KeepSound DEF SoundInv
<1>3. CASE UNCHANGED vars
  BY <1>1, <1>2, <1>3 DEF vars, templateVars, call, jobVars, SoundInv
<1>4. CASE GetJobTemplate \/ (\E t \in Templates : Start(t))
  <2>1. found' = {} /\ UNCHANGED <<jobVars, templates>>
    BY <1>4 DEF GetJobTemplate, Start, Finish, Leave, TypeOK, templateVars
  <2>. QED BY <1>1, <1>2, <2>1 DEF SoundInv
<1>5. CASE ListJobs
  <2>1. UNCHANGED <<jobVars, templates>>
    BY <1>5 DEF ListJobs, templateVars
  <2>2. found' = {} \/ (found' = Users(req) /\ req' = req)
    BY <1>5 DEF ListJobs, Finish, Leave
  <2>3. req \in Templates
    BY <1>5 DEF ListJobs, TypeOK
  <2>4. \A k \in Users(req) : <<k, req>> \in linked
    BY <2>3 DEF Users, SoundInv, AllHonest, Honest
  <2>. QED BY <1>1, <1>2, <2>1, <2>2, <2>4 DEF SoundInv
<1>6. CASE UpdateStatus \/ ApiError
  <2>1. found' = {} /\ UNCHANGED jobVars
    BY <1>6 DEF UpdateStatus, ApiError, Finish, Requeue, Leave
  <2>2. ListSound'
    BY <1>1, <1>2, <1>6, <2>1, WriteListSound DEF UpdateStatus, ApiError
  <2>. QED BY <1>1, <2>1, <2>2 DEF SoundInv
<1>7. CASE Crash
  <2>1. found' = {} /\ AllHonest' /\ ListSound'
    BY <1>7, CopyHonest, KeepSound DEF Crash, Leave, SoundInv
  <2>. QED BY <2>1 DEF SoundInv
<1>8. CASE Relist
  <2>1. AllHonest' /\ ListSound'
    BY <1>8, CopyHonest, KeepSound DEF Relist, SoundInv, templateVars
  <2>. QED BY <1>8, <2>1 DEF SoundInv, Relist, call
<1>9. ASSUME NEW t \in Templates, OnTemplate(t) PROVE SoundInv'
  BY <1>1, <1>2, <1>9 DEF OnTemplate, SoundInv, call
<1>10. ASSUME NEW t \in Templates, EditTemplate(t) PROVE SoundInv'
  <2>1. UNCHANGED jobVars /\ UNCHANGED call
    BY <1>10 DEF EditTemplate
  <2>2. PICK new \in {templates[t], Absent, [Absent EXCEPT !.exists = TRUE]} : Store(t, new)
    BY <1>10 DEF EditTemplate
  <2>3. new \in Object
    BY <2>2, AbsentType DEF TypeOK
  <2>4. new.dependencyList = <<>> \/ new = templates[t]
    BY <2>2 DEF Absent
  <2>5. \A i \in DOMAIN new.dependencyList :
           \E k \in JobKeys : k[2] = new.dependencyList[i] /\ <<k, t>> \in linked
    <3>1. CASE new.dependencyList = <<>>
      BY <3>1
    <3>2. CASE new = templates[t]
      <4>1. \A i \in DOMAIN templates[t].dependencyList :
               templates[t].dependencyList[i] \in ListOf(t)
        BY DEF ListOf
      <4>. QED BY <3>2, <4>1 DEF SoundInv, ListSound
    <3>. QED BY <2>4, <3>1, <3>2
  <2>6. ListSound'
    BY <1>1, <2>1, <2>2, <2>3, <2>5, StoreSound DEF SoundInv
  <2>. QED BY <1>1, <2>1, <2>6 DEF SoundInv, call
<1>11. ASSUME NEW k \in JobKeys, NEW v \in Version, Put(k, v), linked \subseteq linked',
              \A t \in Templates : v = Connection(t) => <<k, t>> \in linked'
       PROVE  SoundInv'
  BY <1>11, PutHonest, KeepSound DEF SoundInv, Put, templateVars, call
<1>12. ASSUME NEW k \in JobKeys, CreateJob(k) PROVE SoundInv'
  <2>1. PICK a \in Annotations : Put(k, a) /\ linked' = linked \cup MadeFrom(k, a)
    BY <1>12 DEF CreateJob
  <2>. QED BY <1>11, <2>1 DEF MadeFrom, Version
<1>13. ASSUME NEW k \in JobKeys, ChangeJob(k) PROVE SoundInv'
  BY <1>11, <1>13 DEF ChangeJob, SoundInv, AllHonest, Honest, TypeOK
<1>14. ASSUME NEW k \in JobKeys, DeleteJob(k) PROVE SoundInv'
  <2>1. \A t \in Templates : Connection(t) # None
    BY AnnotationType, JobTemplateAssumption
  <2>. QED BY <1>11, <1>14, <2>1 DEF DeleteJob, Version
<1>15. ASSUME NEW k \in JobKeys, DeliverJob(k) PROVE SoundInv'
  <2>1. Observe(k)
    BY <1>15 DEF DeliverJob, JobCreateTemplateHandler, JobUpdateTemplateHandler,
                 JobDeleteTemplateHandler
  <2>. QED BY <1>2, <2>1, ObserveHonest DEF SoundInv, Observe, templateVars, call
<1>. QED BY <1>3, <1>4, <1>5, <1>6, <1>7, <1>8, <1>9, <1>10, <1>12, <1>13, <1>14, <1>15
         DEF Next, Worker

(***************************************************************************)
(* A dependencyList names only Jobs made from its JobTemplate, for every   *)
(* choice of names, dots included, and however far the caches lag behind   *)
(* (updateJobTemplateStatus).                                              *)
(***************************************************************************)
THEOREM ListSoundHolds == Spec => []ListSound
<1>1. Init => TypeInv /\ SoundInv
  <2> SUFFICES ASSUME Init PROVE TypeInv /\ SoundInv
    OBVIOUS
  <2>1. \A t \in Templates : Connection(t) # None
    BY AnnotationType, JobTemplateAssumption
  <2>2. AllHonest
    BY <2>1 DEF Init, AllHonest, Honest
  <2>3. found = {} /\ ListSound
    BY DEF Init, ListSound, ListOf, Absent
  <2>. QED BY <2>2, <2>3, InitType DEF SoundInv
<1>2. TypeInv /\ SoundInv /\ [Next]_vars => TypeInv' /\ SoundInv'
  BY NextType, NextSound
<1>3. SoundInv => ListSound
  BY DEF SoundInv
<1>. QED BY <1>1, <1>2, <1>3, PTL DEF Spec
-----------------------------------------------------------------------------
(***************************************************************************)
(* No wakeup is lost.  As long as no watch breaks the cache sees every     *)
(* version of a Job in turn, and its annotation only comes and goes.       *)
(***************************************************************************)
Follows(u, v) == u = None \/ v = None \/ u = v

History ==
    \A k \in JobKeys :
       /\ watch[k] = <<>> => jobCache[k] = jobs[k]
       /\ watch[k] # <<>> => /\ Follows(jobCache[k], watch[k][1])
                             /\ watch[k][Len(watch[k])] = jobs[k]
       /\ \A i \in 1 .. Len(watch[k]) - 1 : Follows(watch[k][i], watch[k][i + 1])

LEMMA PutHistory ==
    ASSUME TypeOK, History, NEW k \in JobKeys, NEW v \in Version, Put(k, v),
           Follows(jobs[k], v)
    PROVE  History'
<1>1. ASSUME NEW l \in JobKeys, l # k
      PROVE  jobs'[l] = jobs[l] /\ watch'[l] = watch[l] /\ jobCache'[l] = jobCache[l]
  BY <1>1 DEF Put, TypeOK
<1>2. jobs'[k] = v /\ jobCache'[k] = jobCache[k] /\ watch'[k] = Append(watch[k], v)
  BY DEF Put, TypeOK
<1> DEFINE w == watch[k]
           n == Len(watch[k])
<1>3. w \in Seq(Version) /\ n \in Nat /\ (n = 0 <=> w = <<>>)
  BY DEF TypeOK
<1>4. /\ Len(Append(w, v)) = n + 1
      /\ Append(w, v)[n + 1] = v
      /\ \A i \in 1 .. n : Append(w, v)[i] = w[i]
  BY <1>3
<1>5. Follows(jobCache[k], Append(w, v)[1])
  <2>1. CASE w = <<>>
    BY <1>3, <1>4, <2>1 DEF History
  <2>2. CASE w # <<>>
    <3>1. 1 \in 1 .. n
      BY <1>3, <2>2
    <3>. QED BY <1>4, <2>2, <3>1 DEF History
  <2>. QED BY <2>1, <2>2
<1>6. ASSUME NEW i \in 1 .. n PROVE Follows(Append(w, v)[i], Append(w, v)[i + 1])
  <2>1. CASE i = n
    BY <1>3, <1>4, <2>1 DEF History
  <2>2. CASE i # n
    <3>1. i \in 1 .. n - 1 /\ i + 1 \in 1 .. n
      BY <1>3, <2>2
    <3>. QED BY <1>4, <3>1 DEF History
  <2>. QED BY <2>1, <2>2
<1>7. Append(w, v) # <<>> /\ n + 1 - 1 = n
  BY <1>3, <1>4
<1>. HIDE DEF n
<1>8. ASSUME NEW l \in JobKeys, l # k
      PROVE  /\ watch'[l] = <<>> => jobCache'[l] = jobs'[l]
             /\ watch'[l] # <<>> => /\ Follows(jobCache'[l], watch'[l][1])
                                    /\ watch'[l][Len(watch'[l])] = jobs'[l]
             /\ \A i \in 1 .. Len(watch'[l]) - 1 : Follows(watch'[l][i], watch'[l][i + 1])
  BY <1>1, <1>8 DEF History
<1>9. /\ watch'[k] # <<>>
      /\ Follows(jobCache'[k], watch'[k][1])
      /\ watch'[k][Len(watch'[k])] = jobs'[k]
      /\ \A i \in 1 .. Len(watch'[k]) - 1 : Follows(watch'[k][i], watch'[k][i + 1])
  <2>1. watch'[k] = Append(w, v) /\ jobCache'[k] = jobCache[k] /\ jobs'[k] = v
    BY <1>2
  <2>2. Len(watch'[k]) = n + 1 /\ Len(watch'[k]) - 1 = n /\ watch'[k] # <<>>
    BY <1>3, <1>4, <1>7, <2>1
  <2>. HIDE DEF w
  <2>3. Follows(jobCache'[k], watch'[k][1]) /\ watch'[k][Len(watch'[k])] = jobs'[k]
    BY <1>4, <1>5, <2>1, <2>2
  <2>4. \A i \in 1 .. Len(watch'[k]) - 1 : Follows(watch'[k][i], watch'[k][i + 1])
    BY <1>6, <2>1, <2>2
  <2>. QED BY <2>2, <2>3, <2>4
<1>. QED BY <1>8, <1>9 DEF History, Follows

LEMMA ObserveHistory ==
    ASSUME TypeOK, History, NEW k \in JobKeys, Observe(k)
    PROVE  History'
<1> DEFINE w == watch[k]
           n == Len(watch[k])
<1>1. w \in Seq(Version) /\ n \in Nat /\ w # <<>> /\ n > 0
  BY DEF Observe, TypeOK
<1>2. /\ jobCache'[k] = w[1]
      /\ watch'[k] = Tail(w)
      /\ \A l \in JobKeys \ {k} : jobCache'[l] = jobCache[l] /\ watch'[l] = watch[l]
      /\ jobs' = jobs
  BY <1>1 DEF Observe, TypeOK
<1>3. Len(Tail(w)) = n - 1 /\ \A i \in 1 .. n - 1 : Tail(w)[i] = w[i + 1]
  BY <1>1
<1>4. /\ w[n] = jobs[k]
      /\ \A i \in 1 .. n - 1 : Follows(w[i], w[i + 1])
  BY <1>1 DEF History
<1>5. ASSUME Tail(w) = <<>> PROVE n = 1
  <2>1. Len(Tail(w)) = 0
    BY <1>5, EmptySeq
  <2>. QED BY <1>1, <1>3, <2>1
<1>6. ASSUME Tail(w) # <<>>
      PROVE  /\ Follows(w[1], Tail(w)[1])
             /\ Tail(w)[n - 1] = jobs[k]
  <2>1. n - 1 \in 1 .. n - 1 /\ 1 \in 1 .. n - 1 /\ n - 1 + 1 = n
    BY <1>1, <1>6, <1>3
  <2>. QED BY <1>3, <1>4, <2>1
<1>7. ASSUME NEW i \in 1 .. n - 2 PROVE Follows(Tail(w)[i], Tail(w)[i + 1])
  <2>1. i \in 1 .. n - 1 /\ i + 1 \in 1 .. n - 1
    BY <1>1
  <2>. QED BY <1>3, <1>4, <2>1
<1>8. n - 1 - 1 = n - 2
  BY <1>1
<1>. HIDE DEF w, n
<1>9. ASSUME NEW l \in JobKeys, l # k
      PROVE  /\ watch'[l] = <<>> => jobCache'[l] = jobs'[l]
             /\ watch'[l] # <<>> => /\ Follows(jobCache'[l], watch'[l][1])
                                    /\ watch'[l][Len(watch'[l])] = jobs'[l]
             /\ \A i \in 1 .. Len(watch'[l]) - 1 : Follows(watch'[l][i], watch'[l][i + 1])
  BY <1>2, <1>9 DEF History
<1>10. /\ watch'[k] = <<>> => jobCache'[k] = jobs'[k]
       /\ watch'[k] # <<>> => /\ Follows(jobCache'[k], watch'[k][1])
                              /\ watch'[k][Len(watch'[k])] = jobs'[k]
       /\ \A i \in 1 .. Len(watch'[k]) - 1 : Follows(watch'[k][i], watch'[k][i + 1])
  BY <1>2, <1>3, <1>4, <1>5, <1>6, <1>7, <1>8
<1>. QED BY <1>9, <1>10 DEF History, Follows

(***************************************************************************)
(* A copy with the resourceVersion of the JobTemplate is the JobTemplate.  *)
(***************************************************************************)
Copies ==
    /\ \A t \in Templates : templateCache[t].rv = templates[t].rv => templateCache[t] = templates[t]
    /\ object # None => (object.rv = templates[req].rv => object = templates[req])

KeepsCopy == UNCHANGED <<req, object>> \/ object' = None

LEMMA StoreCopies ==
    ASSUME TypeOK, Copies, NEW t \in Templates, NEW new \in Object, Store(t, new),
           templateCache' = templateCache, KeepsCopy
    PROVE  Copies'
<1>1. /\ NewToken(t) # templateCache[t].rv
      /\ req = t /\ object # None => NewToken(t) # object.rv
  BY NewTokenFresh
<1>2. [new EXCEPT !.rv = NewToken(t)].rv = NewToken(t)
  BY DEF Object
<1>3. templates'[t].rv = NewToken(t) /\ \A u \in Templates \ {t} : templates'[u] = templates[u]
  BY <1>2 DEF Store, TypeOK
<1>4. object # None => req \in Templates
  BY DEF TypeOK
<1>. QED BY <1>1, <1>3, <1>4 DEF Copies, KeepsCopy

LEMMA KeepCopies ==
    ASSUME Copies, UNCHANGED templates, templateCache' = templateCache \/ templateCache' = templates,
           KeepsCopy
    PROVE  Copies'
<1>. QED BY DEF Copies, KeepsCopy

(***************************************************************************)
(* A JobTemplate is awaited unless its list is current: it is in the queue *)
(* or will be, or a call for it is under way; and the Jobs such a call has *)
(* found are those there are, or the JobTemplate will be looked at again.  *)
(***************************************************************************)
Awaited(t) == t \in queue \/ templateCache[t] # templates[t] \/ req = t \/ Current(t)
AllAwaited == \A t \in Templates : Awaited(t)

Fresh ==
    \/ req \in queue
    \/ templateCache[req] # templates[req]
    \/ object.rv # templates[req].rv
    \/ Len(Name[req]) # 1
    \/ found = Users(req)

CurrentInv == History /\ Copies /\ AllAwaited /\ (pc = "update" => Fresh)

(***************************************************************************)
(* A step leaves a JobTemplate asleep when nothing changes for it, awake   *)
(* when it will be looked at.                                              *)
(***************************************************************************)
Asleep(t) == /\ t \in queue => t \in queue'
             /\ templates'[t] = templates[t]
             /\ templateCache'[t] = templateCache[t]
             /\ Len(Name[t]) = 1 => Users(t)' = Users(t)
Awake(t) == t \in queue' \/ templateCache'[t] # templates'[t]

LEMMA StepAwaited ==
    ASSUME NEW t \in Templates, Awaited(t), Asleep(t) \/ Awake(t), req' = req \/ req # t
    PROVE  Awaited(t)'
<1>. QED BY DEF Asleep, Awake, Awaited, Current, ListOf

LEMMA StepFresh ==
    ASSUME Fresh, Asleep(req) \/ Awake(req), UNCHANGED <<req, object, found>>
    PROVE  Fresh'
<1>. QED BY DEF Asleep, Awake, Fresh

LEMMA QuietAsleep ==
    ASSUME UNCHANGED <<jobCache, templateVars>>, NEW t, t \in queue => t \in queue'
    PROVE  Asleep(t)
<1>. QED BY DEF Asleep, Users, templateVars

(***************************************************************************)
(* A handler wakes the JobTemplate of a Job when its name is one part.     *)
(***************************************************************************)
LEMMA WokenSimple ==
    ASSUME NEW t \in Templates, Len(Name[t]) = 1 PROVE t \in Woken(Connection(t))
<1>1. Name[t] \in Seq(STRING) /\ Connection(t) # <<>>
  BY JobTemplateAssumption, AnnotationType
<1>2. Connection(t)[1] = Namespace[t] /\ Connection(t)[2] = Name[t][1] /\ Name[t] = <<Name[t][1]>>
  BY <1>1 DEF Connection
<1>. QED BY <1>1, <1>2 DEF Woken

LEMMA DeliverWakes ==
    ASSUME TypeOK, History, NEW k \in JobKeys, DeliverJob(k), NEW t \in Templates
    PROVE  Asleep(t) \/ Awake(t)
<1>1. Observe(k)
  BY DEF DeliverJob, JobCreateTemplateHandler, JobUpdateTemplateHandler, JobDeleteTemplateHandler
<1> DEFINE v == Head(watch[k])
<1>2. watch[k] # <<>> /\ v = watch[k][1]
  BY <1>1 DEF Observe, TypeOK
<1>3. Follows(jobCache[k], v)
  BY <1>2 DEF History
<1>4. jobCache' = [jobCache EXCEPT ![k] = v] /\ UNCHANGED templateVars
  BY <1>1 DEF Observe
<1>5. queue \subseteq queue'
  BY DEF DeliverJob, JobCreateTemplateHandler, JobUpdateTemplateHandler,
         JobDeleteTemplateHandler, Wake
<1>6. CASE Len(Name[t]) # 1
  BY <1>4, <1>5, <1>6 DEF Asleep, templateVars
<1>7. CASE Len(Name[t]) = 1 /\ jobCache[k] # Connection(t) /\ v # Connection(t)
  <2>1. Users(t)' = Users(t)
    BY <1>4, <1>7 DEF Users, TypeOK
  <2>. QED BY <1>4, <1>5, <2>1 DEF Asleep, templateVars
<1>8. CASE Len(Name[t]) = 1 /\ (jobCache[k] = Connection(t) \/ v = Connection(t))
  <2>1. Connection(t) # None /\ t \in Woken(Connection(t))
    BY <1>8, WokenSimple, AnnotationType, JobTemplateAssumption
  <2>2. t \in queue'
    BY <1>3, <1>8, <2>1
    DEF Follows, DeliverJob, JobCreateTemplateHandler, JobUpdateTemplateHandler,
        JobDeleteTemplateHandler, Wake
  <2>. QED BY <2>2 DEF Awake
<1>. QED BY <1>6, <1>7, <1>8

(***************************************************************************)
(* The write of a call.                                                    *)
(***************************************************************************)
LEMMA WriteListCurrent ==
    ASSUME TypeInv, CurrentInv, pc = "update", WriteList, Leave, UNCHANGED jobVars,
           templateCache' = templateCache, queue \subseteq queue'
    PROVE  Copies' /\ AllAwaited'
<1>1. req \in Templates /\ object = templates[req] /\ templates[req] \in Object
      /\ found \in SUBSET JobKeys /\ IsFiniteSet(found)
  BY JobTemplateAssumption, ObjectAssumption DEF TypeInv, TypeOK, WriteList, CurrentInv, Copies
<1>2. PICK names \in Orders(found) :
        IF names = object.dependencyList THEN UNCHANGED templates
        ELSE Store(req, [templates[req] EXCEPT !.dependencyList = names])
  BY DEF WriteList
<1>3. names \in Seq(Names) /\ {names[i] : i \in DOMAIN names} = {k[2] : k \in found}
  BY <1>1, <1>2, OrdersType
<1>4. KeepsCopy
  BY DEF Leave, KeepsCopy
<1>5. CASE names = object.dependencyList /\ UNCHANGED templates
  <2>1. Copies'
    BY <1>4, <1>5, KeepCopies DEF CurrentInv
  <2>2. ASSUME NEW t \in Templates, t # req PROVE Awaited(t)'
    BY <1>5, <2>2, QuietAsleep, StepAwaited DEF CurrentInv, AllAwaited, jobVars, templateVars
  <2>3. ASSUME NEW t \in Templates, t = req PROVE Awaited(t)'
    <3>1. CASE t \in queue \/ templateCache[t] # templates[t]
      BY <1>5, <3>1 DEF Awaited
    <3>2. CASE Len(Name[t]) = 1 => found = Users(t)
      <4>1. ListOf(t)' = {k[2] : k \in found} /\ Users(t)' = Users(t)
        BY <1>1, <1>3, <1>5, <2>3 DEF ListOf, Users, jobVars
      <4>2. Current(t)'
        BY <3>2, <4>1 DEF Current
      <4>. QED BY <4>2 DEF Awaited
    <3>. QED BY <1>1, <2>3, <3>1, <3>2 DEF CurrentInv, Fresh
  <2>. QED BY <2>1, <2>2, <2>3 DEF AllAwaited
<1>6. CASE Store(req, [templates[req] EXCEPT !.dependencyList = names])
  <2> DEFINE new == [templates[req] EXCEPT !.dependencyList = names]
  <2>1. new \in Object
    BY <1>1, <1>3 DEF Object
  <2>2. Copies'
    BY <1>1, <1>4, <1>6, <2>1, StoreCopies DEF CurrentInv, TypeInv
  <2>3. ASSUME NEW t \in Templates, t # req PROVE Awaited(t)'
    <3>1. templates'[t] = templates[t]
      BY <1>6, <2>3 DEF Store, TypeInv, TypeOK
    <3>2. Asleep(t)
      BY <3>1 DEF Asleep, Users, jobVars
    <3>. QED BY <2>3, <3>2, StepAwaited DEF CurrentInv, AllAwaited
  <2>4. ASSUME NEW t \in Templates, t = req PROVE Awaited(t)'
    <3>1. templates'[t].rv = NewToken(t)
      BY <1>1, <1>6, <2>1, <2>4 DEF Store, TypeInv, TypeOK, Object
    <3>2. NewToken(t) # templateCache[t].rv
      BY NewTokenFresh
    <3>. QED BY <3>1, <3>2 DEF Awaited
  <2>. QED BY <2>2, <2>3, <2>4 DEF AllAwaited
<1>. QED BY <1>2, <1>5, <1>6

(***************************************************************************)
(* A call that ends and writes nothing.                                    *)
(***************************************************************************)
LEMMA LeaveCurrent ==
    ASSUME TypeInv, CurrentInv, UNCHANGED <<jobVars, templateVars>>, Leave,
           queue \subseteq queue', NEW r, req = r, Awaited(r)'
    PROVE  CurrentInv'
<1>1. History'
  BY DEF CurrentInv, History, Follows, jobVars
<1>2. Copies'
  BY KeepCopies DEF CurrentInv, KeepsCopy, Leave, templateVars
<1>3. AllAwaited'
  <2> SUFFICES ASSUME NEW t \in Templates PROVE Awaited(t)'
    BY DEF AllAwaited
  <2>1. CASE t = req
    BY <2>1
  <2>2. CASE t # req
    BY <2>2, QuietAsleep, StepAwaited DEF CurrentInv, AllAwaited, jobVars
  <2>. QED BY <2>1, <2>2
<1>4. pc' = "idle"
  BY DEF Leave
<1>. QED BY <1>1, <1>2, <1>3, <1>4 DEF CurrentInv

LEMMA WorkerCurrent ==
    ASSUME TypeInv, CurrentInv, Worker PROVE CurrentInv'
<1>1. req \in Templates /\ pc # "idle" /\ UNCHANGED jobVars
  BY JobTemplateAssumption
  DEF TypeInv, TypeOK, Worker, GetJobTemplate, ListJobs, UpdateStatus
<1>2. PICK t \in Templates : t = req
  BY <1>1
<1>3. History'
  BY <1>1 DEF CurrentInv, History, Follows, jobVars
<1>4. CASE GetJobTemplate
  <2>1. CASE ~templateCache[req].exists
    <3>1. Awaited(t)'
      BY <1>2, <1>4, <2>1 DEF GetJobTemplate, Finish, Leave, Awaited, Current, templateVars
    <3>. QED BY <1>2, <1>1, <1>4, <2>1, <3>1, LeaveCurrent DEF GetJobTemplate, Finish
  <2>2. CASE templateCache[req].exists
    <3>1. UNCHANGED <<jobVars, templateVars, queue, req>> /\ object' = templateCache[req] /\ pc' = "list"
      BY <1>1, <1>4, <2>2 DEF GetJobTemplate
    <3>2. Copies'
      BY <1>1, <3>1 DEF Copies, CurrentInv, templateVars
    <3>3. AllAwaited'
      BY <3>1, QuietAsleep, StepAwaited DEF CurrentInv, AllAwaited, jobVars
    <3>. QED BY <1>3, <3>1, <3>2, <3>3 DEF CurrentInv
  <2>. QED BY <2>1, <2>2
<1>5. CASE ListJobs
  <2>1. CASE Users(req) = {}
    <3>1. UNCHANGED <<jobVars, templateVars>> /\ Finish
      BY <1>1, <1>5, <2>1 DEF ListJobs
    <3>2. Awaited(t)'
      BY <1>2, <2>1, <3>1 DEF Awaited, Current, Users, jobVars
    <3>. QED BY <1>2, <3>1, <3>2, LeaveCurrent DEF Finish
  <2>2. CASE Users(req) # {}
    <3>1. UNCHANGED <<jobVars, templateVars, queue, req, object>> /\ found' = Users(req)
      BY <1>1, <1>5, <2>2 DEF ListJobs
    <3>2. Copies'
      BY <3>1, KeepCopies DEF CurrentInv, KeepsCopy, templateVars
    <3>3. AllAwaited'
      BY <3>1, QuietAsleep, StepAwaited DEF CurrentInv, AllAwaited, jobVars
    <3>4. Fresh'
      BY <3>1 DEF Fresh, Users, jobVars
    <3>. QED BY <1>3, <3>2, <3>3, <3>4 DEF CurrentInv
  <2>. QED BY <2>1, <2>2
<1>6. CASE UpdateStatus
  <2>1. CASE WriteList /\ Finish
    <3>1. Copies' /\ AllAwaited' /\ pc' = "idle"
      BY <1>1, <1>6, <2>1, WriteListCurrent DEF UpdateStatus, Finish, Leave
    <3>. QED BY <1>3, <3>1 DEF CurrentInv
  <2>2. CASE ~templates[req].exists /\ Finish /\ UNCHANGED templates
    <3>1. Awaited(t)'
      BY <1>2, <2>2 DEF Awaited, Current, Finish, Leave
    <3>. QED BY <1>2, <1>1, <1>6, <2>2, <3>1, LeaveCurrent DEF UpdateStatus, Finish, templateVars
  <2>3. CASE Requeue /\ UNCHANGED templates
    <3>1. Awaited(t)'
      BY <1>2, <2>3 DEF Awaited, Requeue, Leave
    <3>. QED BY <1>2, <1>1, <1>6, <2>3, <3>1, LeaveCurrent DEF UpdateStatus, Requeue, templateVars
  <2>. QED BY <1>6, <2>1, <2>2, <2>3 DEF UpdateStatus
<1>. QED BY <1>4, <1>5, <1>6 DEF Worker

LEMMA ApiErrorCurrent ==
    ASSUME TypeInv, CurrentInv, ApiError PROVE CurrentInv'
<1>1. PICK t \in Templates : t = req
  BY DEF ApiError, TypeInv, TypeOK
<1>2. /\ UNCHANGED jobVars /\ templateCache' = templateCache
      /\ Leave /\ queue' = queue \cup {t}
  BY <1>1 DEF ApiError, Requeue
<1>3. CASE UNCHANGED templates
  <2>1. Awaited(t)'
    BY <1>2 DEF Awaited
  <2>. QED BY <1>1, <1>2, <1>3, <2>1, LeaveCurrent DEF templateVars
<1>4. CASE pc = "update" /\ WriteList
  <2>1. Copies' /\ AllAwaited' /\ pc' = "idle"
    BY <1>2, <1>4, WriteListCurrent DEF Leave
  <2>2. History'
    BY <1>2 DEF CurrentInv, History, Follows, jobVars
  <2>. QED BY <2>1, <2>2 DEF CurrentInv
<1>. QED BY <1>3, <1>4 DEF ApiError

LEMMA CrashCurrent ==
    ASSUME TypeInv, CurrentInv, Crash PROVE CurrentInv'
<1>1. History'
  <2>1. \A k \in JobKeys : watch'[k] = <<>> /\ jobCache'[k] = jobs'[k]
    BY DEF Crash
  <2>2. Len(<<>>) = 0
    OBVIOUS
  <2>. QED BY <2>1, <2>2 DEF History
<1>2. Copies' /\ pc' = "idle"
  BY DEF Crash, Leave, Copies
<1>3. AllAwaited'
  BY DEF Crash, Leave, AllAwaited, Awaited, Current
<1>. QED BY <1>1, <1>2, <1>3 DEF CurrentInv

(***************************************************************************)
(* A step of the environment: the call is left alone.                      *)
(***************************************************************************)
LEMMA EnvironmentCurrent ==
    ASSUME TypeInv, CurrentInv, History', Copies', UNCHANGED call,
           \A t \in Templates : Asleep(t) \/ Awake(t)
    PROVE  CurrentInv'
<1>1. AllAwaited'
  BY StepAwaited DEF CurrentInv, AllAwaited, call
<1>2. pc = "update" => req \in Templates
  BY JobTemplateAssumption DEF TypeInv, TypeOK
<1>3. pc' = "update" => Fresh'
  BY <1>2, StepFresh DEF CurrentInv, call
<1>. QED BY <1>1, <1>3 DEF CurrentInv

LEMMA PutCurrent ==
    ASSUME TypeInv, CurrentInv, NEW k \in JobKeys, NEW v \in Version, Put(k, v),
           Follows(jobs[k], v)
    PROVE  CurrentInv'
<1>1. History'
  BY PutHistory DEF CurrentInv, TypeInv
<1>2. Copies'
  BY KeepCopies DEF Put, templateVars, call, KeepsCopy, CurrentInv
<1>3. \A t \in Templates : Asleep(t)
  BY QuietAsleep DEF Put
<1>. QED BY <1>1, <1>2, <1>3, EnvironmentCurrent DEF Put

LEMMA TemplateCurrent ==
    ASSUME TypeInv, CurrentInv, NEW t \in Templates, OnTemplate(t) \/ EditTemplate(t)
    PROVE  CurrentInv'
<1>1. UNCHANGED <<jobVars, call>> /\ queue \subseteq queue'
  BY DEF OnTemplate, EditTemplate
<1>2. History'
  BY <1>1 DEF CurrentInv, History, Follows, jobVars
<1>3. CASE OnTemplate(t)
  <2>1. Copies'
    BY <1>1, <1>3 DEF OnTemplate, Copies, CurrentInv, TypeInv, TypeOK, call
  <2>2. Awake(t) /\ \A u \in Templates \ {t} : Asleep(u)
    BY <1>1, <1>3 DEF OnTemplate, Awake, Asleep, Users, TypeInv, TypeOK, jobVars
  <2>. QED BY <1>1, <1>2, <2>1, <2>2, EnvironmentCurrent
<1>4. CASE EditTemplate(t)
  <2>1. templates[t] \in Object
    BY DEF TypeInv, TypeOK
  <2>2. PICK new \in Object : Store(t, new) /\ templateCache' = templateCache
    BY <1>4, <2>1, AbsentType DEF EditTemplate
  <2>3. Copies'
    BY <1>1, <2>2, StoreCopies DEF CurrentInv, TypeInv, KeepsCopy, call
  <2>4. Awake(t)
    <3>1. templates'[t].rv = NewToken(t)
      BY <2>2 DEF Store, TypeInv, TypeOK, Object
    <3>. QED BY <2>2, <3>1, NewTokenFresh DEF Awake
  <2>5. \A u \in Templates \ {t} : Asleep(u)
    BY <1>1, <2>2 DEF Store, Asleep, Users, TypeInv, TypeOK, jobVars
  <2>. QED BY <1>1, <1>2, <2>3, <2>4, <2>5, EnvironmentCurrent
<1>. QED BY <1>3, <1>4

LEMMA NextCurrent ==
    ASSUME "relist" \notin Disturbances, TypeInv, CurrentInv, [Next]_vars
    PROVE  CurrentInv'
<1>1. CASE UNCHANGED vars
  <2>1. History'
    BY <1>1 DEF vars, jobVars, CurrentInv, History, Follows
  <2>2. Copies'
    BY <1>1 DEF vars, templateVars, call, CurrentInv, Copies
  <2>3. \A t \in Templates : Asleep(t)
    BY <1>1, QuietAsleep DEF vars, jobVars
  <2>. QED BY <1>1, <2>1, <2>2, <2>3, EnvironmentCurrent DEF vars
<1>2. CASE Worker
  BY <1>2, WorkerCurrent
<1>3. CASE ApiError
  BY <1>3, ApiErrorCurrent
<1>4. CASE Crash
  BY <1>4, CrashCurrent
<1>5. ~Relist
  BY DEF Relist, Disturb
<1>6. ASSUME NEW t \in Templates, Start(t) PROVE CurrentInv'
  <2>1. History' /\ Copies' /\ pc' = "get"
    BY <1>6 DEF Start, CurrentInv, History, Follows, Copies, TypeInv, TypeOK, jobVars, templateVars
  <2>2. ASSUME NEW u \in Templates PROVE Awaited(u)'
    <3>1. CASE u = t
      BY <1>6, <3>1 DEF Start, Awaited
    <3>2. CASE u # t
      <4>1. Asleep(u) /\ req # u
        BY <1>6, <3>2, JobTemplateAssumption DEF Start, Asleep, Users, jobVars, templateVars
      <4>. QED BY <4>1, StepAwaited DEF CurrentInv, AllAwaited
    <3>. QED BY <3>1, <3>2
  <2>. QED BY <2>1, <2>2 DEF CurrentInv, AllAwaited
<1>7. ASSUME NEW t \in Templates, OnTemplate(t) \/ EditTemplate(t) PROVE CurrentInv'
  BY <1>7, TemplateCurrent
<1>8. ASSUME NEW k \in JobKeys, CreateJob(k) PROVE CurrentInv'
  <2>1. PICK a \in Annotations : Put(k, a) /\ jobs[k] = None
    BY <1>8 DEF CreateJob
  <2>. QED BY <2>1, PutCurrent DEF Follows, Version
<1>9. ASSUME NEW k \in JobKeys, ChangeJob(k) \/ DeleteJob(k) PROVE CurrentInv'
  <2>1. PICK v \in Version : Put(k, v) /\ Follows(jobs[k], v)
    BY <1>9 DEF ChangeJob, DeleteJob, Version, Follows, TypeInv, TypeOK
  <2>. QED BY <2>1, PutCurrent
<1>10. ASSUME NEW k \in JobKeys, DeliverJob(k) PROVE CurrentInv'
  <2>1. Observe(k)
    BY <1>10 DEF DeliverJob, JobCreateTemplateHandler, JobUpdateTemplateHandler,
                 JobDeleteTemplateHandler
  <2>2. History'
    BY <2>1, ObserveHistory DEF CurrentInv, TypeInv
  <2>3. Copies'
    BY <2>1, KeepCopies DEF Observe, templateVars, call, KeepsCopy, CurrentInv
  <2>4. \A t \in Templates : Asleep(t) \/ Awake(t)
    BY <1>10, DeliverWakes DEF CurrentInv, TypeInv
  <2>. QED BY <2>1, <2>2, <2>3, <2>4, EnvironmentCurrent DEF Observe
<1>. QED BY <1>1, <1>2, <1>3, <1>4, <1>5, <1>6, <1>7, <1>8, <1>9, <1>10 DEF Next

(***************************************************************************)
(* As long as no watch is broken, no wakeup is lost: when all is quiet the *)
(* list of a JobTemplate with a simple name is that of its Jobs, whatever  *)
(* fails or restarts before, and whichever status update is refused (the   *)
(* handlers of the Job watch, Reconcile, updateJobTemplateStatus).         *)
(***************************************************************************)
THEOREM ListCurrentHolds == ASSUME "relist" \notin Disturbances PROVE Spec => []ListCurrent
<1>1. Init => TypeInv /\ CurrentInv
  <2> SUFFICES ASSUME Init PROVE TypeInv /\ CurrentInv
    OBVIOUS
  <2>1. History
    <3>1. Len(<<>>) = 0
      OBVIOUS
    <3>. QED BY <3>1 DEF Init, History
  <2>2. Copies /\ AllAwaited /\ pc = "idle"
    BY DEF Init, Copies, AllAwaited, Awaited, Current, Absent
  <2>. QED BY <2>1, <2>2, InitType DEF CurrentInv
<1>2. TypeInv /\ CurrentInv /\ [Next]_vars => TypeInv' /\ CurrentInv'
  BY NextType, NextCurrent
<1>3. CurrentInv => ListCurrent
  BY JobTemplateAssumption DEF CurrentInv, AllAwaited, Awaited, ListCurrent, Quiescent
<1>. QED BY <1>1, <1>2, <1>3, PTL DEF Spec
=============================================================================
