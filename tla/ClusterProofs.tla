--------------------------- MODULE ClusterProofs ---------------------------
(***************************************************************************)
(* What every controller module can rely on about the steps of Cluster.    *)
(***************************************************************************)
EXTENDS Cluster, FiniteSetTheorems, SequenceTheorems, TLAPS

(***************************************************************************)
(* A new version of an object has a resourceVersion that neither its       *)
(* cached copy nor the copy of the call in progress has.                   *)
(***************************************************************************)
LEMMA NewTokenFresh ==
    ASSUME ClusterTypeOK, NEW o \in Owners
    PROVE  /\ NewToken(o) \in Tokens
           /\ NewToken(o) # objectCache[o].rv
           /\ req = o /\ object # None => NewToken(o) # object.rv
<1> DEFINE Fresh(v) == /\ v # objectCache[o].rv
                       /\ (req = o /\ object # None) => v # object.rv
<1>1. \E v \in Tokens : Fresh(v)
  <2>1. 0 \in Tokens /\ 1 \in Tokens /\ 2 \in Tokens
    BY DEF Tokens
  <2>. QED BY <2>1
<1>2. NewToken(o) = CHOOSE v \in Tokens : Fresh(v)
  BY DEF NewToken
<1>. HIDE DEF Fresh
<1>3. NewToken(o) \in Tokens /\ Fresh(NewToken(o))
  BY <1>1, <1>2
<1>. QED BY <1>3 DEF Fresh

(***************************************************************************)
(* Writing a well-formed object keeps the objects well formed.             *)
(***************************************************************************)
LEMMA StoreType ==
    ASSUME ClusterTypeOK, NEW o \in Owners, NEW new \in Object(o), Store(o, new)
    PROVE  DOMAIN objects' = Owners /\ \A p \in Owners : objects'[p] \in Object(p)
<1>1. NewToken(o) \in Tokens
  BY NewTokenFresh
<1>2. [new EXCEPT !.rv = NewToken(o)] \in Object(o)
  BY <1>1 DEF Object, Live, Gone
<1>. QED BY <1>2 DEF Store, ClusterTypeOK

(***************************************************************************)
(* Every change of a Job is a version that was written: PutType is for any *)
(* write, RemoveType and PodType for those the environment makes.          *)
(***************************************************************************)
LEMMA PutType ==
    ASSUME ClusterTypeOK, NEW k \in JobKeys, NEW version \in Version, Put(k, version)
    PROVE  /\ jobs' \in [JobKeys -> Version]
           /\ watch' \in [JobKeys -> Seq(Version)]
           /\ jobCache' \in [JobKeys -> Version]
<1>. QED BY DEF Put, ClusterTypeOK

LEMMA RemoveType ==
    ASSUME ClusterTypeOK, NEW k \in JobKeys, Remove(k),
           UNCHANGED <<objectVars, callVars>>, budget' \in 0 .. MaxDisturbances
    PROVE  ClusterTypeOK'
<1>1. None \in Version
  BY DEF Version
<1>2. Put(k, None) /\ UNCHANGED reported
  BY DEF Remove
<1>3. /\ jobs' \in [JobKeys -> Version]
      /\ watch' \in [JobKeys -> Seq(Version)]
      /\ jobCache' \in [JobKeys -> Version]
  BY <1>1, <1>2, PutType
<1>. QED BY <1>2, <1>3 DEF ClusterTypeOK, objectVars, callVars

LEMMA SetStatusType ==
    ASSUME ClusterTypeOK, NEW k \in JobKeys, jobs[k] # None, NEW s \in JobStatus,
           SetStatus(k, s), UNCHANGED <<objectVars, callVars, budget>>
    PROVE  ClusterTypeOK'
<1>1. [jobs[k] EXCEPT !.status = s] \in Version
  BY DEF ClusterTypeOK, Version, Job
<1>2. Put(k, [jobs[k] EXCEPT !.status = s])
  BY DEF SetStatus
<1>3. /\ jobs' \in [JobKeys -> Version]
      /\ watch' \in [JobKeys -> Seq(Version)]
      /\ jobCache' \in [JobKeys -> Version]
  BY <1>1, <1>2, PutType
<1>4. reported' \subseteq JobKeys \X {"succeeded", "failed"}
  BY DEF SetStatus, ClusterTypeOK
<1>. QED BY <1>3, <1>4 DEF ClusterTypeOK, objectVars, callVars

LEMMA CountersType ==
    ASSUME NEW s \in JobStatus, NEW a \in Nat, NEW n \in Nat
    PROVE  /\ [s EXCEPT !.active = a, !.succeeded = n] \in JobStatus
           /\ [s EXCEPT !.active = a, !.failed = n] \in JobStatus
<1>. QED BY DEF JobStatus

(***************************************************************************)
(* What the counters of a Job can be: a pod is started only as long as     *)
(* completions are missing, and the first failure ends the Job.            *)
(***************************************************************************)
Counted(s) ==
    /\ s.active + s.succeeded <= Completions
    /\ s.failed > 0 => s.active = 0 /\ s.succeeded < Completions

LEMMA PodStep ==
    ASSUME ClusterTypeOK, NEW k \in JobKeys, Pod(k)
    PROVE  /\ jobs[k] # None
           /\ \E s \in JobStatus :
                /\ SetStatus(k, s)
                /\ Counted(jobs[k].status) => Counted(s)
           /\ UNCHANGED <<objectVars, callVars, budget>>
<1>1. jobs[k] # None /\ UNCHANGED <<objectVars, callVars, budget>>
  BY DEF Pod
<1> DEFINE s == jobs[k].status
<1>2. s \in JobStatus /\ Completions \in Nat
  BY <1>1, ClusterAssumption DEF ClusterTypeOK, Version, Job
<1>3. s.active \in Nat /\ s.succeeded \in Nat /\ s.failed \in Nat
  BY <1>2 DEF JobStatus
<1>4. CASE PodStarts(k, s)
  <2> DEFINE r == [s EXCEPT !.active = @ + 1]
  <2>1. /\ r \in JobStatus
        /\ r.active = s.active + 1 /\ r.succeeded = s.succeeded /\ r.failed = s.failed
    BY <1>2 DEF JobStatus
  <2>2. SetStatus(k, r) /\ s.failed = 0 /\ s.active + s.succeeded < Completions
    BY <1>4 DEF PodStarts
  <2>3. Counted(r)
    BY <1>2, <1>3, <2>1, <2>2 DEF Counted
  <2>. QED BY <1>1, <2>1, <2>2, <2>3
<1>5. CASE PodSucceeds(k, s)
  <2> DEFINE r == [s EXCEPT !.active = @ - 1, !.succeeded = @ + 1]
  <2>1. s.active - 1 \in Nat /\ s.succeeded + 1 \in Nat /\ s.active > 0 /\ SetStatus(k, r)
    BY <1>3, <1>5 DEF PodSucceeds
  <2>2. r \in JobStatus
    BY <1>2, <2>1, CountersType
  <2>3. r.active = s.active - 1 /\ r.succeeded = s.succeeded + 1 /\ r.failed = s.failed
    BY <1>2 DEF JobStatus
  <2>4. Counted(s) => Counted(r)
    BY <1>2, <1>3, <2>1, <2>3 DEF Counted
  <2>. QED BY <1>1, <2>1, <2>2, <2>4
<1>6. CASE PodFails(k, s)
  <2>1. PICK n \in 1 .. s.active : SetStatus(k, [s EXCEPT !.active = 0, !.failed = n])
    BY <1>6 DEF PodFails
  <2> DEFINE r == [s EXCEPT !.active = 0, !.failed = n]
  <2>2. n \in Nat /\ s.active > 0
    BY <1>3
  <2>3. r \in JobStatus
    BY <1>2, <2>2, CountersType
  <2>4. r.active = 0 /\ r.succeeded = s.succeeded /\ r.failed = n
    BY <1>2 DEF JobStatus
  <2>5. Counted(s) => Counted(r)
    BY <1>2, <1>3, <2>2, <2>4 DEF Counted
  <2>. QED BY <1>1, <2>1, <2>3, <2>5
<1>. QED BY <1>4, <1>5, <1>6 DEF Pod

(***************************************************************************)
(* No step of the environment breaks the types.                            *)
(***************************************************************************)
LEMMA EditType ==
    ASSUME ClusterTypeOK, NEW o \in Owners, NEW new \in Object(o), Edit(o, new),
           budget' \in 0 .. MaxDisturbances
    PROVE  ClusterTypeOK'
<1>1. Store(o, new) /\ UNCHANGED <<jobVars, objectCache, callVars>>
  BY DEF Edit
<1>2. DOMAIN objects' = Owners /\ \A p \in Owners : objects'[p] \in Object(p)
  BY <1>1, StoreType
<1>. QED BY <1>1, <1>2 DEF ClusterTypeOK, jobVars, callVars

LEMMA DisturbType ==
    ASSUME ClusterTypeOK, NEW kind, Disturb(kind)
    PROVE  budget' \in 0 .. MaxDisturbances
<1>. QED BY ClusterAssumption DEF ClusterTypeOK, Disturb

LEMMA NoStatusType == NoStatus \in Status
<1>. QED BY DEF NoStatus, Status, States, List

LEMMA AbsentType ==
    ASSUME NEW o \in Owners, NEW u \in Nat PROVE Absent(u) \in Object(o)
<1>. QED BY NoStatusType DEF Absent, Object, Gone, Tokens

LEMMA UidType ==
    ASSUME ClusterTypeOK, NEW o \in Owners PROVE objects[o].uid \in Nat
<1>. QED BY DEF ClusterTypeOK, Object, Live, Gone

LEMMA ClusterInitType == ASSUME ClusterInit PROVE ClusterTypeOK
<1>1. \A o \in Owners : Never \in Object(o)
  BY AbsentType DEF Never
<1>2. budget \in 0 .. MaxDisturbances
  BY ClusterAssumption DEF ClusterInit
<1>3. /\ jobs \in [JobKeys -> Version]
      /\ watch \in [JobKeys -> Seq(Version)]
      /\ jobCache \in [JobKeys -> Version]
  BY DEF ClusterInit, Version
<1>. QED BY <1>1, <1>2, <1>3 DEF ClusterInit, ClusterTypeOK

LEMMA CreatedType ==
    ASSUME NEW o \in Owners, NEW obj \in Gone, NEW s \in Specs[o]
    PROVE  [obj EXCEPT !.exists = TRUE, !.uid = @ + 1, !.spec = s] \in Live(o)
<1>1. obj.uid + 1 \in Nat
  BY DEF Gone
<1>. QED BY <1>1, NoStatusType DEF Gone, Live

(***************************************************************************)
(* Every change of a custom resource by its users or by the collector is   *)
(* an Edit that leaves the status of an object that lives on as it is.     *)
(***************************************************************************)
Change(o) == \/ CreateObject(o) \/ EditObject(o) \/ DeleteObject(o)
             \/ DeleteInForeground(o) \/ Finalize(o)

KeepsStatus(old, new) == new.exists => new.status = old.status

LEMMA ChangeIsEdit ==
    ASSUME ClusterTypeOK, NEW o \in Owners, Change(o)
    PROVE  \E new \in Object(o) : Edit(o, new) /\ KeepsStatus(objects[o], new)
<1>1. CASE CreateObject(o)
  <2>1. PICK s \in Specs[o] :
          Edit(o, [objects[o] EXCEPT !.exists = TRUE, !.uid = @ + 1, !.spec = s])
    BY <1>1 DEF CreateObject
  <2>2. objects[o] \in Gone /\ ~objects[o].exists
    BY <1>1 DEF CreateObject, ClusterTypeOK, Object, Live
  <2>3. [objects[o] EXCEPT !.exists = TRUE, !.uid = @ + 1, !.spec = s] \in Object(o)
    BY <2>2, CreatedType DEF Object
  <2>4. [objects[o] EXCEPT !.exists = TRUE, !.uid = @ + 1, !.spec = s].status = objects[o].status
    BY <2>2 DEF Gone
  <2>. QED BY <2>1, <2>3, <2>4 DEF KeepsStatus
<1>2. CASE EditObject(o)
  <2>1. PICK s \in Specs[o] : Edit(o, [objects[o] EXCEPT !.spec = s])
    BY <1>2 DEF EditObject
  <2>2. objects[o] \in Live(o)
    BY <1>2 DEF EditObject, ClusterTypeOK, Object, Gone
  <2>3. [objects[o] EXCEPT !.spec = s] \in Object(o)
    BY <2>2 DEF Object, Live
  <2>4. [objects[o] EXCEPT !.spec = s].status = objects[o].status
    BY <2>2 DEF Live
  <2>. QED BY <2>1, <2>3, <2>4 DEF KeepsStatus
<1>3. CASE DeleteObject(o) \/ Finalize(o)
  <2>1. Edit(o, Absent(objects[o].uid))
    BY <1>3 DEF DeleteObject, Finalize
  <2>2. Absent(objects[o].uid) \in Object(o)
    BY UidType, AbsentType
  <2>3. ~Absent(objects[o].uid).exists
    BY DEF Absent
  <2>. QED BY <2>1, <2>2, <2>3 DEF KeepsStatus
<1>4. CASE DeleteInForeground(o)
  <2>1. Edit(o, [objects[o] EXCEPT !.deleting = TRUE])
    BY <1>4 DEF DeleteInForeground
  <2>2. objects[o] \in Live(o)
    BY <1>4 DEF DeleteInForeground, ClusterTypeOK, Object, Gone
  <2>3. [objects[o] EXCEPT !.deleting = TRUE] \in Object(o)
    BY <2>2 DEF Object, Live
  <2>4. [objects[o] EXCEPT !.deleting = TRUE].status = objects[o].status
    BY <2>2 DEF Live
  <2>. QED BY <2>1, <2>3, <2>4 DEF KeepsStatus
<1>. QED BY <1>1, <1>2, <1>3, <1>4 DEF Change

LEMMA ChangeType ==
    ASSUME ClusterTypeOK, NEW o \in Owners, Change(o) PROVE ClusterTypeOK'
<1>1. budget' \in 0 .. MaxDisturbances
  BY DisturbType DEF Change, CreateObject, EditObject, DeleteObject, DeleteInForeground,
                     Finalize, ClusterTypeOK
<1>. QED BY <1>1, ChangeIsEdit, EditType

LEMMA ObserveType ==
    ASSUME ClusterTypeOK, NEW k \in JobKeys, DeliverJob(k)
    PROVE  ClusterTypeOK'
<1>1. Observe(k)
  BY DEF DeliverJob, OnCreateJob, OnUpdateJob, OnDeleteJob
<1>2. Head(watch[k]) \in Version /\ Tail(watch[k]) \in Seq(Version)
  BY <1>1 DEF Observe, ClusterTypeOK
<1>3. /\ jobCache' \in [JobKeys -> Version]
      /\ watch' \in [JobKeys -> Seq(Version)]
      /\ UNCHANGED <<jobs, reported, objectVars, req, object, budget>>
  BY <1>1, <1>2 DEF Observe, ClusterTypeOK
<1>4. queue' \subseteq Owners
  BY <1>2 DEF DeliverJob, OnCreateJob, OnUpdateJob, OnDeleteJob, Enqueue, ClusterTypeOK, Version, Job
<1>. QED BY <1>3, <1>4 DEF ClusterTypeOK, objectVars

LEMMA EnvironmentType ==
    ASSUME ClusterTypeOK, Environment PROVE ClusterTypeOK'
<1>1. CASE Relist
  <2>1. budget' \in 0 .. MaxDisturbances
    BY <1>1, DisturbType DEF Relist
  <2>2. watch' \in [JobKeys -> Seq(Version)]
    BY <1>1 DEF Relist, ClusterTypeOK
  <2>. QED BY <1>1, <2>1, <2>2 DEF Relist, ClusterTypeOK, objectVars, callVars
<1>2. ASSUME NEW k \in JobKeys, Pod(k) PROVE ClusterTypeOK'
  BY <1>2, PodStep, SetStatusType
<1>3. ASSUME NEW k \in JobKeys, DeliverJob(k) PROVE ClusterTypeOK'
  BY <1>3, ObserveType
<1>4. ASSUME NEW k \in JobKeys, DeleteJob(k) PROVE ClusterTypeOK'
  BY <1>4, RemoveType, DisturbType DEF DeleteJob
<1>5. ASSUME NEW k \in JobKeys, CollectJob(k) PROVE ClusterTypeOK'
  BY <1>5, RemoveType DEF CollectJob, ClusterTypeOK
<1>6. ASSUME NEW o \in Owners, OnObject(o) PROVE ClusterTypeOK'
  BY <1>6 DEF OnObject, Enqueue, ClusterTypeOK, jobVars
<1>7. ASSUME NEW o \in Owners, Change(o) PROVE ClusterTypeOK'
  BY <1>7, ChangeType
<1>. QED
  BY <1>1, <1>2, <1>3, <1>4, <1>5, <1>6, <1>7 DEF Environment, Change

LEMMA EnvironmentKeepsCall ==
    ASSUME Environment PROVE UNCHANGED <<req, object>>
<1>. QED BY DEF Environment, Relist, Pod, DeliverJob, OnCreateJob, OnUpdateJob, OnDeleteJob,
                Observe, DeleteJob, CollectJob, OnObject, CreateObject, EditObject,
                DeleteObject, DeleteInForeground, Finalize, Edit, callVars

(***************************************************************************)
(* The steps of a call: a job is created, a status is written, the         *)
(* operator restarts.                                                      *)
(***************************************************************************)
LEMMA NewJobType ==
    ASSUME ClusterTypeOK, object # None PROVE NewJob \in Job
<1>1. req \in Owners /\ object.uid \in Nat
  BY NoneAssumption DEF ClusterTypeOK, Live
<1>2. NewStatus \in JobStatus
  BY DEF NewStatus, JobStatus
<1>. QED BY <1>1, <1>2 DEF NewJob, Job

LEMMA AddType ==
    ASSUME ClusterTypeOK, object # None, NEW k \in JobKeys, Add(k, NewJob)
    PROVE  /\ jobs' \in [JobKeys -> Version]
           /\ watch' \in [JobKeys -> Seq(Version)]
           /\ jobCache' \in [JobKeys -> Version]
           /\ reported' = reported
<1>1. NewJob \in Version
  BY NewJobType DEF Version
<1>. QED BY <1>1, PutType DEF Add

LEMMA WriteStatusType ==
    ASSUME ClusterTypeOK, object # None, NEW s \in Status, WriteStatus(s)
    PROVE  DOMAIN objects' = Owners /\ \A p \in Owners : objects'[p] \in Object(p)
<1>1. req \in Owners /\ objects[req] \in Live(req)
  BY DEF ClusterTypeOK, WriteStatus, Object, Gone
<1>2. [objects[req] EXCEPT !.status = s] \in Object(req)
  BY <1>1 DEF Live, Object
<1>. QED BY <1>1, <1>2, StoreType DEF WriteStatus, ClusterTypeOK

LEMMA PutStatusType ==
    ASSUME ClusterTypeOK, object # None, NEW s \in Status, PutStatus(s),
           UNCHANGED <<jobVars, objectCache, budget>>
    PROVE  ClusterTypeOK' /\ req' = None /\ object' = None
<1>1. DOMAIN objects' = Owners /\ \A p \in Owners : objects'[p] \in Object(p)
  BY WriteStatusType DEF PutStatus, ClusterTypeOK
<1>2. queue' \subseteq Owners /\ req' = None /\ object' = None
  BY DEF PutStatus, Finish, Requeue, Forget, Enqueue, ClusterTypeOK
<1>. QED BY <1>1, <1>2 DEF ClusterTypeOK, jobVars

LEMMA RestartType ==
    ASSUME ClusterTypeOK, Restart PROVE ClusterTypeOK' /\ req' = None /\ object' = None
<1>1. budget' \in 0 .. MaxDisturbances
  BY DisturbType DEF Restart
<1>2. watch' \in [JobKeys -> Seq(Version)]
  BY DEF Restart
<1>. QED BY <1>1, <1>2 DEF Restart, Forget, ClusterTypeOK

(***************************************************************************)
(* What a call computes is a status.                                       *)
(***************************************************************************)
LEMMA StatusType ==
    ASSUME ClusterTypeOK, NEW o \in Owners, NEW deleting, NEW total
    PROVE  /\ OwnedList(o) \in List
           /\ StateOf(deleting, total, OwnedList(o)) \in States
<1>1. OwnedList(o) \in List
  BY DEF OwnedList, List, ClusterTypeOK, Version, Job
<1>2. StateOf(deleting, total, OwnedList(o)) \in States
  BY DEF StateOf, States
<1>. QED BY <1>1, <1>2
----------------------------------------------------------------------------
(***************************************************************************)
(* A copy with the resourceVersion of the object is the object, and no     *)
(* call works with an object that was Failed.  So a write of the status    *)
(* that the API server accepts never replaces Failed.                      *)
(***************************************************************************)
Copies ==
    /\ \A o \in Owners : objectCache[o].rv = objects[o].rv => objectCache[o] = objects[o]
    /\ object # None => /\ object.status.state # "Failed"
                        /\ object.rv = objects[req].rv => object = objects[req]

(***************************************************************************)
(* The call in progress keeps its copy or ends.                            *)
(***************************************************************************)
KeepsCopy == UNCHANGED <<req, object>> \/ object' = None

LEMMA StoreCopies ==
    ASSUME ClusterTypeOK, Copies, NEW o \in Owners, NEW new \in Object(o), Store(o, new),
           objectCache' = objectCache, KeepsCopy
    PROVE  Copies'
<1>1. /\ NewToken(o) # objectCache[o].rv
      /\ req = o /\ object # None => NewToken(o) # object.rv
  BY NewTokenFresh
<1>2. [new EXCEPT !.rv = NewToken(o)].rv = NewToken(o)
  BY DEF Object, Live, Gone
<1>3. objects'[o].rv = NewToken(o) /\ \A p \in Owners \ {o} : objects'[p] = objects[p]
  BY <1>2 DEF Store, ClusterTypeOK
<1>4. req \in Owners \/ object = None
  BY DEF ClusterTypeOK
<1>. QED BY <1>1, <1>3, <1>4 DEF Copies, KeepsCopy, ClusterTypeOK

LEMMA KeepCopies ==
    ASSUME Copies, UNCHANGED <<objects, objectCache>>, KeepsCopy
    PROVE  Copies'
<1>. QED BY DEF Copies, KeepsCopy

LEMMA StoreKeepsFailed ==
    ASSUME ClusterTypeOK, NEW o \in Owners, NEW new \in Object(o), Store(o, new),
           KeepsStatus(objects[o], new) \/ objects[o].status.state # "Failed"
    PROVE  FailedStays
<1>1. /\ [new EXCEPT !.rv = NewToken(o)].exists = new.exists
      /\ [new EXCEPT !.rv = NewToken(o)].status = new.status
  BY DEF Object, Live, Gone
<1>2. /\ objects'[o].exists = new.exists
      /\ objects'[o].status = new.status
      /\ \A p \in Owners \ {o} : objects'[p] = objects[p]
  BY <1>1 DEF Store, ClusterTypeOK
<1>. QED BY <1>2 DEF FailedStays, KeepsStatus

(***************************************************************************)
(* No step of the environment lets a call replace Failed.                  *)
(***************************************************************************)
LEMMA EnvironmentCopies ==
    ASSUME ClusterTypeOK, Copies, Environment
    PROVE  Copies' /\ (objects' = objects \/ FailedStays)
<1>1. ASSUME NEW o \in Owners, Change(o)
      PROVE  Copies' /\ FailedStays
  <2>1. PICK new \in Object(o) : Edit(o, new) /\ KeepsStatus(objects[o], new)
    BY <1>1, ChangeIsEdit
  <2>. QED BY <2>1, StoreCopies, StoreKeepsFailed DEF Edit, KeepsCopy, callVars
<1>2. ASSUME NEW o \in Owners, OnObject(o)
      PROVE  Copies' /\ objects' = objects
  <2>1. objectCache' = [objectCache EXCEPT ![o] = objects[o]]
        /\ UNCHANGED <<objects, req, object>>
    BY <1>2 DEF OnObject
  <2>. QED BY <2>1 DEF Copies, ClusterTypeOK
<1>3. ASSUME NEW k \in JobKeys, Pod(k) \/ DeliverJob(k) \/ DeleteJob(k) \/ CollectJob(k)
      PROVE  UNCHANGED <<objects, objectCache, req, object>>
  BY <1>3 DEF Pod, DeliverJob, OnCreateJob, OnUpdateJob, OnDeleteJob, Observe, DeleteJob,
              CollectJob, objectVars, callVars
<1>4. ASSUME Relist PROVE UNCHANGED <<objects, objectCache, req, object>>
  BY <1>4 DEF Relist, objectVars, callVars
<1>. QED BY <1>1, <1>2, <1>3, <1>4, KeepCopies DEF Environment, Change, KeepsCopy

(***************************************************************************)
(* Nor does the write of a call.                                           *)
(***************************************************************************)
LEMMA WriteStatusCopies ==
    ASSUME ClusterTypeOK, Copies, object # None, NEW s \in Status, WriteStatus(s),
           objectCache' = objectCache, KeepsCopy
    PROVE  Copies' /\ (objects' = objects \/ FailedStays)
<1>1. object = objects[req] /\ objects[req].status.state # "Failed" /\ req \in Owners
  BY DEF Copies, WriteStatus, ClusterTypeOK
<1>2. CASE objects' = objects
  BY <1>2, KeepCopies
<1>3. CASE Store(req, [objects[req] EXCEPT !.status = s])
  <2>1. objects[req] \in Live(req)
    BY <1>1 DEF ClusterTypeOK, WriteStatus
  <2>2. [objects[req] EXCEPT !.status = s] \in Object(req)
    BY <2>1 DEF Live, Object
  <2>. QED BY <1>1, <1>3, <2>2, StoreCopies, StoreKeepsFailed
<1>. QED BY <1>2, <1>3 DEF WriteStatus

LEMMA PutStatusCopies ==
    ASSUME ClusterTypeOK, Copies, object # None, NEW s \in Status, PutStatus(s),
           objectCache' = objectCache
    PROVE  Copies' /\ (objects' = objects \/ FailedStays)
<1>1. KeepsCopy
  BY DEF PutStatus, Finish, Requeue, Forget, KeepsCopy
<1>. QED BY <1>1, WriteStatusCopies, KeepCopies DEF PutStatus

LEMMA RestartCopies ==
    ASSUME ClusterTypeOK, Copies, Restart PROVE Copies' /\ objects' = objects
<1>. QED BY DEF Restart, Forget, Copies

LEMMA ReadCopies ==
    ASSUME ClusterTypeOK, Copies, req \in Owners, ~Ignored(objectCache[req]),
           object' = objectCache[req], UNCHANGED <<objectVars, req>>
    PROVE  Copies'
<1>. QED BY DEF Copies, Ignored, objectVars
----------------------------------------------------------------------------
(***************************************************************************)
(* What is known of every version of a Job that can still be read: its     *)
(* counters are those of pods, each that it shows at 1 has been shown by   *)
(* the API server, and the Job has one of the keys Keys[o] that its owner  *)
(* o makes Jobs at.                                                        *)
(***************************************************************************)
Sound(Keys, k, version) ==
    version # None =>
       /\ Counted(version.status)
       /\ version.status.succeeded = 1 => <<k, "succeeded">> \in reported
       /\ version.status.failed = 1 => <<k, "failed">> \in reported
       /\ k \in Keys[version.owner]

VersionsSound(Keys) ==
    \A k \in JobKeys : /\ Sound(Keys, k, jobs[k])
                       /\ Sound(Keys, k, jobCache[k])
                       /\ \A i \in DOMAIN watch[k] : Sound(Keys, k, watch[k][i])

(***************************************************************************)
(* A step that makes no Job.                                               *)
(***************************************************************************)
MakesNoJob == \A k \in JobKeys : jobs[k] = None => jobs'[k] = None

LEMMA PutSound ==
    ASSUME NEW Keys, ClusterTypeOK, VersionsSound(Keys), NEW k \in JobKeys,
           NEW version \in Version, Put(k, version), reported \subseteq reported',
           version # None => /\ Counted(version.status)
                             /\ version.status.succeeded = 1 => <<k, "succeeded">> \in reported'
                             /\ version.status.failed = 1 => <<k, "failed">> \in reported'
                             /\ k \in Keys[version.owner]
    PROVE  VersionsSound(Keys)'
<1>1. ASSUME NEW l \in JobKeys, l # k
      PROVE  jobs'[l] = jobs[l] /\ watch'[l] = watch[l] /\ jobCache'[l] = jobCache[l]
  BY <1>1 DEF Put, ClusterTypeOK
<1>2. jobs'[k] = version /\ jobCache'[k] = jobCache[k] /\ watch'[k] = Append(watch[k], version)
  BY DEF Put, ClusterTypeOK
<1>3. ASSUME NEW i \in DOMAIN watch'[k]
      PROVE  watch'[k][i] = version \/ (i \in DOMAIN watch[k] /\ watch'[k][i] = watch[k][i])
  <2>1. watch[k] \in Seq(Version)
    BY DEF ClusterTypeOK
  <2>. QED BY <1>2, <1>3, <2>1
<1>4. ASSUME NEW l \in JobKeys, l # k
      PROVE  /\ Sound(Keys, l, jobs[l])'
             /\ Sound(Keys, l, jobCache[l])'
             /\ \A i \in DOMAIN watch'[l] : Sound(Keys, l, watch[l][i])'
  BY <1>1, <1>4 DEF VersionsSound, Sound
<1>5. /\ Sound(Keys, k, jobs[k])'
      /\ Sound(Keys, k, jobCache[k])'
      /\ \A i \in DOMAIN watch'[k] : Sound(Keys, k, watch[k][i])'
  BY <1>2, <1>3 DEF VersionsSound, Sound
<1>. QED BY <1>4, <1>5 DEF VersionsSound

LEMMA ObserveSound ==
    ASSUME NEW Keys, ClusterTypeOK, VersionsSound(Keys), NEW k \in JobKeys, Observe(k)
    PROVE  VersionsSound(Keys)'
<1>1. watch[k] \in Seq(Version) /\ watch[k] # <<>>
  BY DEF Observe, ClusterTypeOK
<1>2. /\ jobCache'[k] = Head(watch[k])
      /\ watch'[k] = Tail(watch[k])
      /\ \A l \in JobKeys \ {k} : jobCache'[l] = jobCache[l] /\ watch'[l] = watch[l]
      /\ UNCHANGED <<jobs, reported>>
  BY DEF Observe, ClusterTypeOK
<1>3. 1 \in DOMAIN watch[k] /\ Head(watch[k]) = watch[k][1]
  BY <1>1
<1>4. ASSUME NEW i \in DOMAIN Tail(watch[k])
      PROVE  i + 1 \in DOMAIN watch[k] /\ Tail(watch[k])[i] = watch[k][i + 1]
  BY <1>1, <1>4
<1>5. ASSUME NEW l \in JobKeys, l # k
      PROVE  /\ Sound(Keys, l, jobs[l])'
             /\ Sound(Keys, l, jobCache[l])'
             /\ \A i \in DOMAIN watch'[l] : Sound(Keys, l, watch[l][i])'
  BY <1>2, <1>5 DEF VersionsSound, Sound
<1>6. Sound(Keys, k, jobs[k])' /\ Sound(Keys, k, jobCache[k])'
  BY <1>2, <1>3 DEF VersionsSound, Sound
<1>7. ASSUME NEW i \in DOMAIN watch'[k] PROVE Sound(Keys, k, watch[k][i])'
  <2>1. i + 1 \in DOMAIN watch[k] /\ watch'[k][i] = watch[k][i + 1]
    BY <1>2, <1>4, <1>7
  <2>2. Sound(Keys, k, watch[k][i + 1])
    BY <2>1 DEF VersionsSound
  <2>. QED BY <1>2, <2>1, <2>2 DEF Sound
<1>. QED BY <1>5, <1>6, <1>7 DEF VersionsSound

LEMMA CopySound ==
    ASSUME NEW Keys, ClusterTypeOK, VersionsSound(Keys), UNCHANGED <<jobs, reported>>,
           jobCache' = jobCache \/ jobCache' = jobs,
           \A k \in JobKeys : watch'[k] \in {watch[k], <<>>, <<jobs[k]>>}
    PROVE  VersionsSound(Keys)'
<1> SUFFICES ASSUME NEW k \in JobKeys
             PROVE  /\ Sound(Keys, k, jobs[k])'
                    /\ Sound(Keys, k, jobCache[k])'
                    /\ \A i \in DOMAIN watch'[k] : Sound(Keys, k, watch[k][i])'
  BY DEF VersionsSound
<1>1. Sound(Keys, k, jobs[k])' /\ Sound(Keys, k, jobCache[k])'
  BY DEF VersionsSound, Sound
<1>2. CASE watch'[k] = watch[k]
  BY <1>1, <1>2 DEF VersionsSound, Sound
<1>3. CASE watch'[k] = <<>>
  BY <1>1, <1>3
<1>4. CASE watch'[k] = <<jobs[k]>>
  <2>1. \A i \in DOMAIN watch'[k] : watch'[k][i] = jobs[k]
    BY <1>4
  <2>. QED BY <1>1, <2>1 DEF VersionsSound, Sound
<1>. QED BY <1>2, <1>3, <1>4

LEMMA EnvironmentSound ==
    ASSUME NEW Keys, ClusterTypeOK, VersionsSound(Keys), Environment
    PROVE  VersionsSound(Keys)' /\ reported \subseteq reported' /\ MakesNoJob
<1> DEFINE Kept == VersionsSound(Keys)' /\ reported \subseteq reported' /\ MakesNoJob
<1>1. ASSUME NEW k \in JobKeys, Pod(k)
      PROVE  Kept
  <2>1. PICK s \in JobStatus : SetStatus(k, s) /\ (Counted(jobs[k].status) => Counted(s))
    BY <1>1, PodStep
  <2>2. jobs[k] # None
    BY <1>1, PodStep
  <2> DEFINE version == [jobs[k] EXCEPT !.status = s]
  <2>3. version \in Version /\ version.status = s /\ version.owner = jobs[k].owner
    BY <2>2 DEF ClusterTypeOK, Version, Job
  <2>4. reported \subseteq reported' /\ Put(k, version)
    BY <2>1 DEF SetStatus
  <2>5. /\ s.succeeded = 1 => <<k, "succeeded">> \in reported'
        /\ s.failed = 1 => <<k, "failed">> \in reported'
    BY <2>1 DEF SetStatus
  <2>6. k \in Keys[jobs[k].owner] /\ Counted(s)
    BY <2>1, <2>2 DEF VersionsSound, Sound
  <2>7. VersionsSound(Keys)'
    BY <2>3, <2>4, <2>5, <2>6, PutSound
  <2>8. MakesNoJob
    BY <2>2, <2>4 DEF Put, MakesNoJob, ClusterTypeOK
  <2>. QED BY <2>4, <2>7, <2>8
<1>2. ASSUME NEW k \in JobKeys, DeleteJob(k) \/ CollectJob(k)
      PROVE  Kept
  <2>1. Put(k, None) /\ reported' = reported
    BY <1>2 DEF DeleteJob, CollectJob, Remove
  <2>2. None \in Version
    BY DEF Version
  <2>3. VersionsSound(Keys)'
    BY <2>1, <2>2, PutSound
  <2>. QED BY <2>1, <2>3 DEF Put, MakesNoJob, ClusterTypeOK
<1>3. ASSUME NEW k \in JobKeys, DeliverJob(k)
      PROVE  Kept
  <2>1. Observe(k)
    BY <1>3 DEF DeliverJob, OnCreateJob, OnUpdateJob, OnDeleteJob
  <2>. QED BY <2>1, ObserveSound DEF Observe, MakesNoJob
<1>4. ASSUME Relist
      PROVE  Kept
  BY <1>4, CopySound DEF Relist, MakesNoJob
<1>5. ASSUME NEW o \in Owners, OnObject(o) \/ Change(o)
      PROVE  UNCHANGED jobVars
  BY <1>5 DEF OnObject, Change, CreateObject, EditObject, DeleteObject, DeleteInForeground,
              Finalize, Edit
<1>6. ASSUME UNCHANGED jobVars
      PROVE  Kept
  BY <1>6 DEF jobVars, VersionsSound, Sound, MakesNoJob
<1>. QED BY <1>1, <1>2, <1>3, <1>4, <1>5, <1>6 DEF Environment, Change

LEMMA AddSound ==
    ASSUME NEW Keys, ClusterTypeOK, VersionsSound(Keys), object # None,
           NEW k \in JobKeys, k \in Keys[req], Add(k, NewJob)
    PROVE  /\ VersionsSound(Keys)'
           /\ reported' = reported
           /\ \A l \in JobKeys \ {k} : jobs'[l] = jobs[l]
<1>1. NewJob \in Version
  BY NewJobType DEF Version
<1>2. /\ NewJob.status.succeeded # 1 /\ NewJob.status.failed # 1 /\ NewJob.owner = req
      /\ Counted(NewJob.status)
  BY ClusterAssumption DEF NewJob, NewStatus, Counted
<1>3. Put(k, NewJob) /\ reported' = reported
  BY DEF Add
<1>4. VersionsSound(Keys)'
  BY <1>1, <1>2, <1>3, PutSound
<1>. QED BY <1>3, <1>4 DEF Put, ClusterTypeOK

LEMMA RestartSound ==
    ASSUME NEW Keys, ClusterTypeOK, VersionsSound(Keys), Restart
    PROVE  VersionsSound(Keys)' /\ reported' = reported /\ MakesNoJob
<1>. QED BY CopySound DEF Restart, MakesNoJob
----------------------------------------------------------------------------
(***************************************************************************)
(* A state is justified by a set of keys: Succeed when each of these Jobs  *)
(* has been shown at succeeded 1, Failed when one of them has been shown   *)
(* at failed 1.                                                            *)
(***************************************************************************)
Justified(keys, state) ==
    /\ state = "Succeed" => \A k \in keys : <<k, "succeeded">> \in reported
    /\ state = "Failed" => \E k \in keys : <<k, "failed">> \in reported

Verdicts(Keys) == \A o \in Owners : Justified(Keys[o], objects[o].status.state)

(***************************************************************************)
(* A list with Jobs at these keys only, and with counters that have been   *)
(* shown.                                                                  *)
(***************************************************************************)
Lists(keys, l) ==
    \A k \in JobKeys : l[k] # None =>
       /\ k \in keys
       /\ l[k].succeeded = 1 => <<k, "succeeded">> \in reported
       /\ l[k].failed = 1 => <<k, "failed">> \in reported

(***************************************************************************)
(* No two objects share a name: an object of another namespace with the    *)
(* same name is taken for an owner of the same Jobs (OwnedList).           *)
(***************************************************************************)
NamesDiffer == \A o, p \in Owners : Name[o] = Name[p] => o = p

LEMMA OwnedListLists ==
    ASSUME NamesDiffer, NEW Keys, ClusterTypeOK, VersionsSound(Keys), NEW o \in Owners
    PROVE  Lists(Keys[o], OwnedList(o))
<1> SUFFICES ASSUME NEW k \in JobKeys, OwnedList(o)[k] # None
             PROVE  /\ k \in Keys[o]
                    /\ OwnedList(o)[k].succeeded = 1 => <<k, "succeeded">> \in reported
                    /\ OwnedList(o)[k].failed = 1 => <<k, "failed">> \in reported
  BY DEF Lists
<1>1. /\ jobCache[k] # None /\ Name[jobCache[k].owner] = Name[o]
      /\ OwnedList(o)[k] = jobCache[k].status
  BY DEF OwnedList
<1>2. jobCache[k].owner \in Owners
  BY <1>1 DEF ClusterTypeOK, Version, Job
<1>3. jobCache[k].owner = o
  BY <1>1, <1>2 DEF NamesDiffer
<1>. QED BY <1>1, <1>3 DEF VersionsSound, Sound

(***************************************************************************)
(* The count behind Succeed is right when as many jobs are expected as     *)
(* there are keys: then Cardinality(Completed(l)) can only reach the total *)
(* when every key is completed.                                            *)
(***************************************************************************)
LEMMA StateJustified ==
    ASSUME NEW keys, IsFiniteSet(keys), NEW l \in List, Lists(keys, l), NEW deleting
    PROVE  Justified(keys, StateOf(deleting, Cardinality(keys), l))
<1>1. DOMAIN l = JobKeys
  BY DEF List
<1>2. Completed(l) \in SUBSET keys
  BY <1>1 DEF Completed, Lists
<1>3. Cardinality(Completed(l)) = Cardinality(keys) => Completed(l) = keys
  BY <1>2, FS_Subset
<1>4. Completed(l) = keys => \A k \in keys : <<k, "succeeded">> \in reported
  BY <1>1 DEF Completed, Lists
<1>5. FailedOnes(l) # {} => \E k \in keys : <<k, "failed">> \in reported
  BY <1>1 DEF FailedOnes, Lists
<1>. QED BY <1>3, <1>4, <1>5 DEF StateOf, Justified

(***************************************************************************)
(* What is stored stays justified: the users do not write a status, and a  *)
(* call writes one that is.                                                *)
(***************************************************************************)
LEMMA StoreVerdicts ==
    ASSUME NEW Keys, ClusterTypeOK, Verdicts(Keys), NEW o \in Owners, NEW new \in Object(o),
           Store(o, new), reported \subseteq reported',
           new.exists => Justified(Keys[o], new.status.state)
    PROVE  Verdicts(Keys)'
<1>1. [new EXCEPT !.rv = NewToken(o)].status = new.status
  BY DEF Object, Live, Gone
<1>2. /\ objects'[o].status = new.status
      /\ \A p \in Owners \ {o} : objects'[p] = objects[p]
  BY <1>1 DEF Store, ClusterTypeOK
<1>3. ASSUME ~new.exists PROVE new.status.state = ""
  <2>1. new \in Gone
    BY <1>3 DEF Object, Live
  <2>2. new.status = NoStatus
    BY <2>1 DEF Gone
  <2>3. NoStatus.state = ""
    BY DEF NoStatus
  <2>. QED BY <2>2, <2>3
<1>4. Justified(Keys[o], new.status.state)
  BY <1>3 DEF Justified
<1>. QED BY <1>2, <1>4 DEF Verdicts, Justified

LEMMA KeepVerdicts ==
    ASSUME NEW Keys, Verdicts(Keys), UNCHANGED objects, reported \subseteq reported'
    PROVE  Verdicts(Keys)'
<1>. QED BY DEF Verdicts, Justified

LEMMA EnvironmentVerdicts ==
    ASSUME NEW Keys, ClusterTypeOK, Verdicts(Keys), Environment, reported \subseteq reported'
    PROVE  Verdicts(Keys)'
<1>1. ASSUME NEW o \in Owners, Change(o)
      PROVE  Verdicts(Keys)'
  <2>1. PICK new \in Object(o) : Edit(o, new) /\ KeepsStatus(objects[o], new)
    BY <1>1, ChangeIsEdit
  <2>2. new.exists => Justified(Keys[o], new.status.state)
    BY <2>1 DEF KeepsStatus, Verdicts
  <2>. QED BY <2>1, <2>2, StoreVerdicts DEF Edit
<1>2. ASSUME NEW o \in Owners, OnObject(o)
      PROVE  UNCHANGED objects
  BY <1>2 DEF OnObject
<1>3. ASSUME NEW k \in JobKeys, Pod(k) \/ DeliverJob(k) \/ DeleteJob(k) \/ CollectJob(k)
      PROVE  UNCHANGED objects
  BY <1>3 DEF Pod, DeliverJob, OnCreateJob, OnUpdateJob, OnDeleteJob, Observe, DeleteJob,
              CollectJob, objectVars
<1>4. ASSUME Relist PROVE UNCHANGED objects
  BY <1>4 DEF Relist, objectVars
<1>. QED BY <1>1, <1>2, <1>3, <1>4, KeepVerdicts DEF Environment, Change

LEMMA WriteStatusVerdicts ==
    ASSUME NEW Keys, ClusterTypeOK, Verdicts(Keys), object # None, NEW s \in Status,
           WriteStatus(s), Justified(Keys[req], s.state), reported' = reported
    PROVE  Verdicts(Keys)'
<1>1. req \in Owners /\ objects[req] \in Live(req)
  BY DEF ClusterTypeOK, WriteStatus, Object, Gone
<1>2. /\ [objects[req] EXCEPT !.status = s] \in Object(req)
      /\ [objects[req] EXCEPT !.status = s].status = s
  BY <1>1 DEF Live, Object
<1>. QED BY <1>1, <1>2, StoreVerdicts, KeepVerdicts DEF WriteStatus

LEMMA PutStatusVerdicts ==
    ASSUME NEW Keys, ClusterTypeOK, Verdicts(Keys), object # None, NEW s \in Status,
           PutStatus(s), Justified(Keys[req], s.state), reported' = reported
    PROVE  Verdicts(Keys)'
<1>. QED BY WriteStatusVerdicts, KeepVerdicts DEF PutStatus
----------------------------------------------------------------------------
(***************************************************************************)
(* Counting.  A function that tells its n arguments apart has n values,    *)
(* and the names of the Jobs of one object tell its entries or nodes       *)
(* apart.                                                                  *)
(***************************************************************************)
LEMMA DistinctValues ==
    ASSUME NEW D, IsFiniteSet(D), NEW f, \A a, b \in D : f[a] = f[b] => a = b
    PROVE  /\ IsFiniteSet({f[a] : a \in D})
           /\ Cardinality({f[a] : a \in D}) = Cardinality(D)
<1> DEFINE R == {f[a] : a \in D}
           g == [a \in D |-> f[a]]
<1>1. g \in Surjection(D, R)
  BY DEF Surjection
<1>2. g \in Injection(D, R)
  <2>1. g \in [D -> R] /\ \A a \in D : g[a] = f[a]
    OBVIOUS
  <2>2. \A a, b \in D : g[a] = g[b] => a = b
    BY <2>1
  <2>. HIDE DEF g, R
  <2>. QED BY <2>1, <2>2 DEF Injection, IsInjective
<1>3. ExistsBijection(D, R)
  BY <1>1, <1>2 DEF ExistsBijection, Bijection
<1>. QED BY <1>3, FS_Bijection

LEMMA JobNamesDiffer ==
    ASSUME NEW o \in Owners, NEW m \in Seq(STRING), NEW n \in Seq(STRING),
           JobName(o, m) = JobName(o, n)
    PROVE  m = n
<1>1. Name[o] \in Seq(STRING)
  BY ClusterAssumption
<1>2. Name[o] \o m = Name[o] \o n
  BY DEF JobName
<1>. QED BY <1>1, <1>2, ConcatSimplifications
----------------------------------------------------------------------------
(***************************************************************************)
(* As long as no watch breaks, the cache will see every version of a Job   *)
(* in turn: a Job comes into being with the counters of NewStatus, and     *)
(* from one version to the next it keeps its owner or is removed.  So what *)
(* enqueues nothing, the Job that appears, says nothing either.            *)
(***************************************************************************)
Follows(u, v) == IF u = None THEN v # None /\ v.status = NewStatus
                             ELSE v = None \/ v.owner = u.owner

History ==
    \A k \in JobKeys :
       /\ watch[k] = <<>> => jobCache[k] = jobs[k]
       /\ watch[k] # <<>> => /\ Follows(jobCache[k], watch[k][1])
                             /\ watch[k][Len(watch[k])] = jobs[k]
       /\ \A i \in 1 .. Len(watch[k]) - 1 : Follows(watch[k][i], watch[k][i + 1])

LEMMA PutHistory ==
    ASSUME ClusterTypeOK, History, NEW k \in JobKeys, NEW v \in Version, Put(k, v),
           Follows(jobs[k], v)
    PROVE  History'
<1>1. ASSUME NEW l \in JobKeys, l # k
      PROVE  jobs'[l] = jobs[l] /\ watch'[l] = watch[l] /\ jobCache'[l] = jobCache[l]
  BY <1>1 DEF Put, ClusterTypeOK
<1>2. jobs'[k] = v /\ jobCache'[k] = jobCache[k] /\ watch'[k] = Append(watch[k], v)
  BY DEF Put, ClusterTypeOK
<1> DEFINE w == watch[k]
           n == Len(watch[k])
<1>3. w \in Seq(Version) /\ n \in Nat /\ (n = 0 <=> w = <<>>)
  BY DEF ClusterTypeOK
<1>4. /\ Len(Append(w, v)) = n + 1
      /\ Append(w, v)[n + 1] = v
      /\ \A i \in 1 .. n : Append(w, v)[i] = w[i]
  BY <1>3
<1>5. Follows(jobCache[k], Append(w, v)[1])
  <2>1. CASE w = <<>>
    BY <1>3, <1>4, <2>1 DEF History
  <2>2. CASE w # <<>>
    <3>1. 1 \in 1 .. n
      BY <1>3, <2>2
    <3>. QED BY <1>4, <2>2, <3>1 DEF History
  <2>. QED BY <2>1, <2>2
<1>6. ASSUME NEW i \in 1 .. n PROVE Follows(Append(w, v)[i], Append(w, v)[i + 1])
  <2>1. CASE i = n
    BY <1>3, <1>4, <2>1 DEF History
  <2>2. CASE i # n
    <3>1. i \in 1 .. n - 1 /\ i + 1 \in 1 .. n
      BY <1>3, <2>2
    <3>. QED BY <1>4, <3>1 DEF History
  <2>. QED BY <2>1, <2>2
<1>7. Append(w, v) # <<>> /\ n + 1 - 1 = n
  BY <1>3, <1>4
<1>. HIDE DEF n
<1>8. ASSUME NEW l \in JobKeys, l # k
      PROVE  /\ watch'[l] = <<>> => jobCache'[l] = jobs'[l]
             /\ watch'[l] # <<>> => /\ Follows(jobCache'[l], watch'[l][1])
                                    /\ watch'[l][Len(watch'[l])] = jobs'[l]
             /\ \A i \in 1 .. Len(watch'[l]) - 1 : Follows(watch'[l][i], watch'[l][i + 1])
  BY <1>1, <1>8 DEF History
<1>9. /\ watch'[k] # <<>>
      /\ Follows(jobCache'[k], watch'[k][1])
      /\ watch'[k][Len(watch'[k])] = jobs'[k]
      /\ \A i \in 1 .. Len(watch'[k]) - 1 : Follows(watch'[k][i], watch'[k][i + 1])
  <2>1. watch'[k] = Append(w, v) /\ jobCache'[k] = jobCache[k] /\ jobs'[k] = v
    BY <1>2
  <2>2. Len(watch'[k]) = n + 1 /\ Len(watch'[k]) - 1 = n /\ watch'[k] # <<>>
    BY <1>3, <1>4, <1>7, <2>1
  <2>. HIDE DEF w
  <2>3. Follows(jobCache'[k], watch'[k][1]) /\ watch'[k][Len(watch'[k])] = jobs'[k]
    BY <1>4, <1>5, <2>1, <2>2
  <2>4. \A i \in 1 .. Len(watch'[k]) - 1 : Follows(watch'[k][i], watch'[k][i + 1])
    BY <1>6, <2>1, <2>2
  <2>. QED BY <2>2, <2>3, <2>4
<1>. QED BY <1>8, <1>9 DEF History, Follows

LEMMA ObserveHistory ==
    ASSUME ClusterTypeOK, History, NEW k \in JobKeys, Observe(k)
    PROVE  History'
<1> DEFINE w == watch[k]
           n == Len(watch[k])
<1>1. w \in Seq(Version) /\ n \in Nat /\ w # <<>> /\ n > 0
  BY DEF Observe, ClusterTypeOK
<1>2. /\ jobCache'[k] = w[1]
      /\ watch'[k] = Tail(w)
      /\ \A l \in JobKeys \ {k} : jobCache'[l] = jobCache[l] /\ watch'[l] = watch[l]
      /\ jobs' = jobs
  BY <1>1 DEF Observe, ClusterTypeOK
<1>3. Len(Tail(w)) = n - 1 /\ \A i \in 1 .. n - 1 : Tail(w)[i] = w[i + 1]
  BY <1>1
<1>4. /\ w[n] = jobs[k]
      /\ \A i \in 1 .. n - 1 : Follows(w[i], w[i + 1])
  BY <1>1 DEF History
<1>5. ASSUME Tail(w) = <<>> PROVE n = 1
  <2>1. Len(Tail(w)) = 0
    BY <1>5, EmptySeq
  <2>. QED BY <1>1, <1>3, <2>1
<1>6. ASSUME Tail(w) # <<>>
      PROVE  /\ Follows(w[1], Tail(w)[1])
             /\ Tail(w)[n - 1] = jobs[k]
  <2>1. n - 1 \in 1 .. n - 1 /\ 1 \in 1 .. n - 1 /\ n - 1 + 1 = n
    BY <1>1, <1>6, <1>3
  <2>. QED BY <1>3, <1>4, <2>1
<1>7. ASSUME NEW i \in 1 .. n - 2 PROVE Follows(Tail(w)[i], Tail(w)[i + 1])
  <2>1. i \in 1 .. n - 1 /\ i + 1 \in 1 .. n - 1
    BY <1>1
  <2>. QED BY <1>3, <1>4, <2>1
<1>8. n - 1 - 1 = n - 2
  BY <1>1
<1>. HIDE DEF w, n
<1>9. ASSUME NEW l \in JobKeys, l # k
      PROVE  /\ watch'[l] = <<>> => jobCache'[l] = jobs'[l]
             /\ watch'[l] # <<>> => /\ Follows(jobCache'[l], watch'[l][1])
                                    /\ watch'[l][Len(watch'[l])] = jobs'[l]
             /\ \A i \in 1 .. Len(watch'[l]) - 1 : Follows(watch'[l][i], watch'[l][i + 1])
  BY <1>2, <1>9 DEF History
<1>10. /\ watch'[k] = <<>> => jobCache'[k] = jobs'[k]
       /\ watch'[k] # <<>> => /\ Follows(jobCache'[k], watch'[k][1])
                              /\ watch'[k][Len(watch'[k])] = jobs'[k]
       /\ \A i \in 1 .. Len(watch'[k]) - 1 : Follows(watch'[k][i], watch'[k][i + 1])
  BY <1>2, <1>3, <1>4, <1>5, <1>6, <1>7, <1>8
<1>. QED BY <1>9, <1>10 DEF History, Follows

(***************************************************************************)
(* What the state of an object is made from.  A Job that appears changes   *)
(* none of the classes, and any other change of the list of an object is   *)
(* delivered to it.                                                        *)
(***************************************************************************)
Classes(l) == <<Completed(l), FailedOnes(l), RunningOnes(l)>>

LEMMA SameListSameClasses ==
    ASSUME NEW l \in List, NEW m \in List,
           \A k \in JobKeys : m[k] = l[k] \/ (l[k] = None /\ m[k] = NewStatus)
    PROVE  Classes(m) = Classes(l)
<1>1. DOMAIN l = JobKeys /\ DOMAIN m = JobKeys
  BY DEF List
<1>2. NewStatus.succeeded # 1 /\ NewStatus.failed # 1 /\ NewStatus.active # 1
  BY DEF NewStatus
<1>3. Completed(m) = Completed(l)
  BY <1>1, <1>2 DEF Completed
<1>4. FailedOnes(m) = FailedOnes(l)
  BY <1>1, <1>2, <1>3 DEF FailedOnes
<1>5. RunningOnes(m) = RunningOnes(l)
  BY <1>1, <1>2, <1>3, <1>4 DEF RunningOnes
<1>. QED BY <1>3, <1>4, <1>5 DEF Classes

(***************************************************************************)
(* An object is asleep to a step when neither what it is made from nor the *)
(* objects themselves change for it, awake when it is in the queue after   *)
(* the step or its cached copy has yet to catch up.                        *)
(***************************************************************************)
Asleep(o) == /\ o \in queue => o \in queue'
             /\ objects'[o] = objects[o]
             /\ objectCache'[o] = objectCache[o]
             /\ Classes(OwnedList(o))' = Classes(OwnedList(o))
Awake(o) == o \in queue' \/ objectCache'[o] # objects'[o]

LEMMA DeliverWakes ==
    ASSUME NamesDiffer, ClusterTypeOK, History, NEW k \in JobKeys, DeliverJob(k),
           NEW o \in Owners
    PROVE  Asleep(o) \/ Awake(o)
<1>1. Observe(k)
  BY DEF DeliverJob, OnCreateJob, OnUpdateJob, OnDeleteJob
<1>2. /\ watch[k] \in Seq(Version) /\ watch[k] # <<>> /\ Head(watch[k]) = watch[k][1]
      /\ Head(watch[k]) \in Version
  BY <1>1 DEF Observe, ClusterTypeOK
<1> DEFINE v == Head(watch[k])
<1>3. Follows(jobCache[k], v)
  BY <1>2 DEF History
<1>4. /\ jobCache' = [jobCache EXCEPT ![k] = v]
      /\ UNCHANGED <<objects, objectCache>>
  BY <1>1 DEF Observe, objectVars
<1>5. queue \subseteq queue'
  BY DEF DeliverJob, OnCreateJob, OnUpdateJob, OnDeleteJob, Enqueue
<1>6. ClusterTypeOK'
  BY ObserveType
<1>7. OwnedList(o) \in List /\ OwnedList(o)' \in List
  <2>1. OwnedList(o) \in List
    BY StatusType
  <2>2. OwnedList(o)' \in List
    BY <1>6 DEF OwnedList, List, ClusterTypeOK, Version, Job
  <2>. QED BY <2>1, <2>2
<1>8. ASSUME \A l \in JobKeys :
                \/ OwnedList(o)'[l] = OwnedList(o)[l]
                \/ OwnedList(o)[l] = None /\ OwnedList(o)'[l] = NewStatus
      PROVE  Asleep(o)
  <2>1. Classes(OwnedList(o)') = Classes(OwnedList(o))
    BY <1>7, <1>8, SameListSameClasses
  <2>2. Classes(OwnedList(o))' = Classes(OwnedList(o)')
    BY DEF Classes, Completed, FailedOnes, RunningOnes
  <2>. QED BY <1>4, <1>5, <2>1, <2>2 DEF Asleep
<1>9. ASSUME NEW l \in JobKeys, l # k PROVE OwnedList(o)'[l] = OwnedList(o)[l]
  BY <1>4, <1>9 DEF OwnedList, ClusterTypeOK
<1>10. OwnedList(o)'[k] = IF v # None /\ Name[v.owner] = Name[o] THEN v.status ELSE None
  BY <1>4 DEF OwnedList, ClusterTypeOK
<1>11. OwnedList(o)[k] = IF jobCache[k] # None /\ Name[jobCache[k].owner] = Name[o]
                           THEN jobCache[k].status ELSE None
  BY DEF OwnedList
<1>12. jobCache[k] # None => jobCache[k].owner \in Owners
  BY DEF ClusterTypeOK, Version, Job
<1>. HIDE DEF v
<1>13. CASE jobCache[k] = None
  <2>1. v # None => v.status = NewStatus
    BY <1>3, <1>13 DEF Follows
  <2>2. OwnedList(o)[k] = None /\ OwnedList(o)'[k] \in {None, NewStatus}
    BY <1>10, <1>11, <1>13, <2>1
  <2>3. \A l \in JobKeys :
           \/ OwnedList(o)'[l] = OwnedList(o)[l]
           \/ OwnedList(o)[l] = None /\ OwnedList(o)'[l] = NewStatus
    BY <1>9, <2>2
  <2>. QED BY <1>8, <2>3
<1>14. CASE jobCache[k] # None
  <2>1. jobCache[k].owner \in queue'
    BY <1>3, <1>14
    DEF DeliverJob, OnCreateJob, OnUpdateJob, OnDeleteJob, Enqueue, Follows, v
  <2>2. CASE jobCache[k].owner = o
    BY <2>1, <2>2 DEF Awake
  <2>3. CASE jobCache[k].owner # o
    <3>1. Name[jobCache[k].owner] # Name[o]
      BY <1>12, <1>14, <2>3 DEF NamesDiffer
    <3>2. v # None => v.owner = jobCache[k].owner
      BY <1>3, <1>14 DEF Follows
    <3>3. OwnedList(o)[k] = None /\ OwnedList(o)'[k] = None
      BY <1>10, <1>11, <3>1, <3>2
    <3>4. \A l \in JobKeys : OwnedList(o)'[l] = OwnedList(o)[l]
      BY <1>9, <3>3
    <3>. QED BY <1>8, <3>4
  <2>. QED BY <2>2, <2>3
<1>. QED BY <1>13, <1>14

LEMMA EditWakes ==
    ASSUME ClusterTypeOK, NEW p \in Owners, NEW new \in Object(p), Store(p, new),
           UNCHANGED <<jobCache, objectCache>>, NEW o \in Owners,
           o \in queue => o \in queue'
    PROVE  Asleep(o) \/ Awake(o)
<1>1. Classes(OwnedList(o))' = Classes(OwnedList(o))
  BY DEF Classes, Completed, FailedOnes, RunningOnes, OwnedList
<1>2. CASE p = o
  <2>1. NewToken(o) # objectCache[o].rv
    BY NewTokenFresh
  <2>2. objects'[o].rv = NewToken(o)
    BY <1>2 DEF Store, ClusterTypeOK, Object, Live, Gone
  <2>. QED BY <2>1, <2>2 DEF Awake
<1>3. CASE p # o
  BY <1>1, <1>3 DEF Asleep, Store, ClusterTypeOK
<1>. QED BY <1>2, <1>3

LEMMA EnvironmentWakes ==
    ASSUME NamesDiffer, "relist" \notin Disturbances, ClusterTypeOK, History, Environment
    PROVE  History' /\ \A o \in Owners : Asleep(o) \/ Awake(o)
<1> DEFINE Kept == History' /\ \A o \in Owners : Asleep(o) \/ Awake(o)
<1>1. ASSUME UNCHANGED <<jobCache, objectVars>>, queue \subseteq queue'
      PROVE  \A o \in Owners : Asleep(o)
  BY <1>1 DEF Asleep, objectVars, Classes, Completed, FailedOnes, RunningOnes, OwnedList
<1>2. ASSUME NEW k \in JobKeys, Pod(k) PROVE Kept
  <2>1. PICK s \in JobStatus : SetStatus(k, s)
    BY <1>2, PodStep
  <2>2. jobs[k] # None /\ UNCHANGED <<objectVars, callVars, budget>>
    BY <1>2, PodStep
  <2> DEFINE version == [jobs[k] EXCEPT !.status = s]
  <2>3. version \in Version /\ version.owner = jobs[k].owner
    BY <2>2 DEF ClusterTypeOK, Version, Job
  <2>4. Put(k, version)
    BY <2>1 DEF SetStatus
  <2>5. History'
    BY <2>2, <2>3, <2>4, PutHistory DEF Follows
  <2>. QED BY <1>1, <2>2, <2>4, <2>5 DEF Put, callVars
<1>3. ASSUME NEW k \in JobKeys, DeleteJob(k) \/ CollectJob(k) PROVE Kept
  <2>1. jobs[k] # None /\ Put(k, None) /\ UNCHANGED <<objectVars, callVars>>
    BY <1>3 DEF DeleteJob, CollectJob, Remove
  <2>2. History'
    BY <2>1, PutHistory DEF Follows, Version
  <2>. QED BY <1>1, <2>1, <2>2 DEF Put, callVars
<1>4. ASSUME NEW k \in JobKeys, DeliverJob(k) PROVE Kept
  BY <1>4, DeliverWakes, ObserveHistory DEF DeliverJob, OnCreateJob, OnUpdateJob, OnDeleteJob
<1>5. ASSUME Relist PROVE FALSE
  BY <1>5 DEF Relist, Disturb
<1>6. ASSUME UNCHANGED jobVars PROVE History'
  BY <1>6 DEF jobVars, History, Follows
<1>7. ASSUME NEW p \in Owners, OnObject(p) PROVE Kept
  <2>1. ASSUME NEW o \in Owners PROVE Asleep(o) \/ Awake(o)
    BY <1>7 DEF OnObject, Enqueue, Asleep, Awake, jobVars, ClusterTypeOK, Classes, Completed,
                FailedOnes, RunningOnes, OwnedList
  <2>. QED BY <1>6, <1>7, <2>1 DEF OnObject
<1>8. ASSUME NEW p \in Owners, Change(p) PROVE Kept
  <2>1. PICK new \in Object(p) : Edit(p, new)
    BY <1>8, ChangeIsEdit
  <2>2. \A o \in Owners : Asleep(o) \/ Awake(o)
    BY <2>1, EditWakes DEF Edit, jobVars, callVars
  <2>. QED BY <1>6, <2>1, <2>2 DEF Edit
<1>. QED BY <1>2, <1>3, <1>4, <1>5, <1>7, <1>8 DEF Environment, Change

(***************************************************************************)
(* The state an object should show, where Totals[spec] jobs are expected.  *)
(* An object that shows another one is awaited: it is in the queue or will *)
(* be, or a call for it is under way; and what such a call is about to     *)
(* write is fresh, or the object will be looked at once more.              *)
(***************************************************************************)
Expected(Totals, o, obj) == StateOf(obj.deleting, Totals[obj.spec], OwnedList(o))

Awaited(Totals, o) ==
    \/ o \in queue
    \/ objectCache[o] # objects[o]
    \/ req = o
    \/ Ignored(objects[o])
    \/ objects[o].status.state = Expected(Totals, o, objects[o])

Fresh(Totals, state) ==
    \/ req \in queue
    \/ objectCache[req] # objects[req]
    \/ object.rv # objects[req].rv
    \/ state = Expected(Totals, req, object)

AllAwaited(Totals) == \A o \in Owners : Awaited(Totals, o)

LEMMA AsleepExpected ==
    ASSUME NEW Totals, NEW o, Asleep(o)
    PROVE  \A obj : Expected(Totals, o, obj)' = Expected(Totals, o, obj)
<1> DEFINE l == OwnedList(o)
<1>1. Classes(l)' = Classes(l)
  BY DEF Asleep
<1>. QED BY <1>1 DEF Expected, StateOf, Classes

LEMMA StepAwaited ==
    ASSUME NEW Totals, NEW o \in Owners, Awaited(Totals, o), Asleep(o) \/ Awake(o),
           req' = req \/ req # o
    PROVE  Awaited(Totals, o)'
<1>1. CASE Awake(o)
  BY <1>1 DEF Awake, Awaited
<1>2. CASE Asleep(o)
  <2>1. Expected(Totals, o, objects[o])' = Expected(Totals, o, objects[o])
    BY <1>2, AsleepExpected DEF Asleep, Expected
  <2>. QED BY <1>2, <2>1 DEF Asleep, Awaited, Ignored
<1>. QED BY <1>1, <1>2

LEMMA StepFresh ==
    ASSUME NEW Totals, NEW state, Fresh(Totals, state), Asleep(req) \/ Awake(req),
           UNCHANGED <<req, object>>
    PROVE  Fresh(Totals, state)'
<1>1. CASE Awake(req)
  BY <1>1 DEF Awake, Fresh
<1>2. CASE Asleep(req)
  <2>1. Expected(Totals, req, object)' = Expected(Totals, req, object)
    BY <1>2, AsleepExpected DEF Expected
  <2>. QED BY <1>2, <2>1 DEF Asleep, Fresh
<1>. QED BY <1>1, <1>2

LEMMA QuietAsleep ==
    ASSUME UNCHANGED <<jobCache, objects, objectCache>>, NEW o, o \in queue => o \in queue'
    PROVE  Asleep(o)
<1>. QED BY DEF Asleep, Classes, Completed, FailedOnes, RunningOnes, OwnedList

(***************************************************************************)
(* A step of a call that neither writes the object nor ends the call, and  *)
(* one that ends it with its request back in the queue.                    *)
(***************************************************************************)
LEMMA CallAwaited ==
    ASSUME NEW Totals, AllAwaited(Totals), UNCHANGED <<jobCache, objects, objectCache>>,
           queue \subseteq queue', req' = req \/ req \in queue' \cup {None}
    PROVE  AllAwaited(Totals)'
<1>1. ASSUME NEW o \in Owners PROVE Awaited(Totals, o)'
  <2>1. CASE req' = req \/ req # o
    BY <2>1, QuietAsleep, StepAwaited DEF AllAwaited
  <2>2. CASE req = o /\ req \in queue'
    BY <2>2 DEF Awaited
  <2>3. CASE req = o /\ req = None
    BY <2>3, NoneAssumption
  <2>. QED BY <2>1, <2>2, <2>3
<1>. QED BY <1>1 DEF AllAwaited

LEMMA DequeueAwaited ==
    ASSUME NEW Totals, AllAwaited(Totals), NEW o \in Owners, Dequeue(o)
    PROVE  AllAwaited(Totals)'
<1>1. ASSUME NEW p \in Owners PROVE Awaited(Totals, p)'
  <2>1. CASE p = o
    BY <2>1 DEF Dequeue, Awaited
  <2>2. CASE p # o
    <3>1. Asleep(p) /\ req # p
      BY <2>2, QuietAsleep, NoneAssumption DEF Dequeue, jobVars, objectVars
    <3>. QED BY <3>1, StepAwaited DEF AllAwaited
  <2>. QED BY <2>1, <2>2
<1>. QED BY <1>1 DEF AllAwaited

(***************************************************************************)
(* A call that leaves its object alone because the cache shows it gone or  *)
(* Failed.                                                                 *)
(***************************************************************************)
LEMMA IgnoredAwaited ==
    ASSUME NEW Totals, AllAwaited(Totals), req \in Owners, Ignored(objectCache[req]), Finish,
           UNCHANGED <<jobVars, objectVars>>
    PROVE  AllAwaited(Totals)'
<1>1. ASSUME NEW o \in Owners PROVE Awaited(Totals, o)'
  <2>1. CASE o = req
    BY <2>1 DEF Awaited, objectVars, Ignored
  <2>2. CASE o # req
    <3>1. Asleep(o)
      BY QuietAsleep DEF Finish, jobVars, objectVars
    <3>. QED BY <2>2, <3>1, StepAwaited DEF AllAwaited
  <2>. QED BY <2>1, <2>2
<1>. QED BY <1>1 DEF AllAwaited

(***************************************************************************)
(* The write of a call: what it stores is what the object should show, or  *)
(* the object is awaited again.                                            *)
(***************************************************************************)
LEMMA WriteStatusWakes ==
    ASSUME ClusterTypeOK, Copies, object # None, NEW s \in Status, WriteStatus(s),
           UNCHANGED <<jobVars, objectCache>>, queue \subseteq queue'
    PROVE  /\ req \in Owners /\ object = objects[req] /\ objects[req] \in Live(req)
           /\ \A o \in Owners : Asleep(o) \/ Awake(o)
<1>1. req \in Owners /\ object = objects[req] /\ objects[req] \in Live(req)
  BY DEF ClusterTypeOK, WriteStatus, Copies
<1>2. [objects[req] EXCEPT !.status = s] \in Object(req)
  BY <1>1 DEF Live, Object
<1>3. \/ objects' = objects
      \/ Store(req, [objects[req] EXCEPT !.status = s])
  BY DEF WriteStatus
<1>4. \A o \in Owners : Asleep(o) \/ Awake(o)
  BY <1>1, <1>2, <1>3, EditWakes, QuietAsleep DEF jobVars
<1>. QED BY <1>1, <1>4

LEMMA WriteStatusAwaited ==
    ASSUME NEW Totals, ClusterTypeOK, Copies, AllAwaited(Totals), object # None,
           NEW s \in Status, WriteStatus(s), Fresh(Totals, s.state), UNCHANGED jobVars,
           objectCache' = objectCache, queue \subseteq queue'
    PROVE  AllAwaited(Totals)'
<1>1. req \in Owners /\ object = objects[req] /\ objects[req] \in Live(req)
  BY WriteStatusWakes
<1> DEFINE new == [objects[req] EXCEPT !.status = s]
<1>2. new \in Object(req) /\ new.status = s /\ new.exists
      /\ new.deleting = objects[req].deleting /\ new.spec = objects[req].spec
  BY <1>1 DEF Live, Object
<1>3. \/ objects' = objects /\ s = objects[req].status
      \/ Store(req, new)
  BY DEF WriteStatus
<1>4. \A o \in Owners : Asleep(o) \/ Awake(o)
  BY WriteStatusWakes
<1>5. ASSUME NEW o \in Owners, o # req PROVE Awaited(Totals, o)'
  BY <1>4, <1>5, StepAwaited DEF AllAwaited
<1>6. ASSUME NEW o \in Owners, o = req PROVE Awaited(Totals, o)'
  <2>1. CASE Awake(o)
    BY <2>1 DEF Awake, Awaited
  <2>2. CASE Asleep(o)
    <3>1. objects'[o] = objects[o] /\ objectCache'[o] = objectCache[o]
          /\ (o \in queue => o \in queue')
      BY <2>2 DEF Asleep
    <3>2. objects[o].status = s
      <4>1. CASE Store(req, new)
        BY <1>2, <1>6, <3>1, <4>1 DEF Store, ClusterTypeOK, Object, Live, Gone
      <4>. QED BY <1>3, <1>6, <4>1
    <3>3. Expected(Totals, o, objects[o])' = Expected(Totals, o, objects[o])
      BY <2>2, <3>1, AsleepExpected DEF Expected
    <3>4. \/ o \in queue
          \/ objectCache[o] # objects[o]
          \/ s.state = Expected(Totals, o, objects[o])
      BY <1>1, <1>6 DEF Fresh
    <3>. QED BY <3>1, <3>2, <3>3, <3>4 DEF Awaited
  <2>. QED BY <1>4, <2>1, <2>2
<1>. QED BY <1>5, <1>6 DEF AllAwaited

LEMMA PutStatusAwaited ==
    ASSUME NEW Totals, ClusterTypeOK, Copies, AllAwaited(Totals), object # None,
           NEW s \in Status, PutStatus(s), Fresh(Totals, s.state), UNCHANGED jobVars,
           objectCache' = objectCache
    PROVE  AllAwaited(Totals)'
<1>1. CASE WriteStatus(s) /\ Finish
  BY <1>1, WriteStatusAwaited DEF Finish
<1>2. CASE ~objects[req].exists /\ Finish /\ UNCHANGED objects
  <2>1. ASSUME NEW o \in Owners PROVE Awaited(Totals, o)'
    <3>1. CASE o = req
      BY <1>2, <3>1 DEF Awaited, Ignored
    <3>2. CASE o # req
      <4>1. Asleep(o)
        BY <1>2, QuietAsleep DEF Finish, jobVars
      <4>. QED BY <3>2, <4>1, StepAwaited DEF AllAwaited
    <3>. QED BY <3>1, <3>2
  <2>. QED BY <2>1 DEF AllAwaited
<1>3. CASE Requeue /\ UNCHANGED objects
  BY <1>3, CallAwaited DEF Requeue, Forget, Enqueue, jobVars
<1>. QED BY <1>1, <1>2, <1>3 DEF PutStatus

(***************************************************************************)
(* A restart forgets the queue and the call, and makes up for both.        *)
(***************************************************************************)
LEMMA RestartAwaited ==
    ASSUME NEW Totals, ClusterTypeOK, Restart
    PROVE  History' /\ AllAwaited(Totals)'
<1>1. History'
  BY DEF Restart, History, ClusterTypeOK
<1>2. \A o \in Owners : o \in queue' \/ ~objects'[o].exists
  BY DEF Restart
<1>. QED BY <1>1, <1>2 DEF AllAwaited, Awaited, Ignored

(***************************************************************************)
(* The creation of a Job wakes nobody, and changes no list yet.            *)
(***************************************************************************)
LEMMA AddHistory ==
    ASSUME ClusterTypeOK, History, object # None, NEW k \in JobKeys, Add(k, NewJob)
    PROVE  History' /\ UNCHANGED jobCache
<1>1. NewJob \in Version /\ NewJob # None /\ NewJob.status = NewStatus
  BY NewJobType, NoneAssumption DEF Version, NewJob
<1>2. jobs[k] = None /\ Put(k, NewJob)
  BY DEF Add
<1>3. Follows(jobs[k], NewJob)
  BY <1>1, <1>2 DEF Follows
<1>. QED BY <1>1, <1>2, <1>3, PutHistory DEF Put

LEMMA KeepHistory ==
    ASSUME History, UNCHANGED <<jobs, watch, jobCache>> PROVE History'
<1>. QED BY DEF History, Follows

LEMMA EnvironmentAwaited ==
    ASSUME NamesDiffer, "relist" \notin Disturbances, NEW Totals,
           ClusterTypeOK, History, AllAwaited(Totals), Environment
    PROVE  /\ History' /\ AllAwaited(Totals)'
           /\ \A state : req \in Owners /\ Fresh(Totals, state) => Fresh(Totals, state)'
<1>1. History' /\ \A o \in Owners : Asleep(o) \/ Awake(o)
  BY EnvironmentWakes
<1>2. UNCHANGED <<req, object>>
  BY EnvironmentKeepsCall
<1>3. AllAwaited(Totals)'
  BY <1>1, <1>2, StepAwaited DEF AllAwaited
<1>4. ASSUME NEW state, req \in Owners, Fresh(Totals, state) PROVE Fresh(Totals, state)'
  BY <1>1, <1>2, <1>4, StepFresh
<1>. QED BY <1>1, <1>3, <1>4
----------------------------------------------------------------------------
(***************************************************************************)
(* What a call may rely on after it has looked at a Job.  As long as no    *)
(* watch breaks, each of these facts about it lasts until the owner of the *)
(* Job is in the queue again: the one change that enqueues nobody, the Job *)
(* that appears in the cache, falsifies none of them.                      *)
(*                                                                         *)
(* Waking: a version on its way will enqueue the owner.                    *)
(***************************************************************************)
Waking(k) == IF jobCache[k] = None THEN Len(watch[k]) > 1 ELSE watch[k] # <<>>
AtHand(k) == jobs[k] # None \/ Waking(k)
Unsettled(k) == Waking(k) \/ (jobs[k] # None /\ ~Ended(jobs[k].status))
Untouched(k) == jobCache[k] = None \/ jobCache[k].status = NewStatus
Incomplete(k) == ~(Cached(k) /\ jobCache[k].status.succeeded = 1)
FailedSeen(k) == jobCache[k] # None /\ jobCache[k].status.failed = 1

Keeps(k) == /\ AtHand(k) => AtHand(k)'
            /\ Unsettled(k) => Unsettled(k)'
            /\ Untouched(k) => Untouched(k)'
            /\ Incomplete(k) => Incomplete(k)'
            /\ FailedSeen(k) => FailedSeen(k)'
Calls(k) == jobCache[k] # None /\ jobCache[k].owner \in queue'

LEMMA TailLeft ==
    ASSUME NEW S, NEW s \in Seq(S), Len(s) > 1 PROVE Tail(s) # <<>>
<1>1. s # <<>> /\ Len(s) \in Nat
  BY EmptySeq
<1>2. Len(Tail(s)) = Len(s) - 1
  BY <1>1, HeadTailProperties
<1>3. Len(Tail(s)) # 0
  BY <1>1, <1>2
<1>. QED BY <1>3, EmptySeq

LEMMA MoreThanOne ==
    ASSUME NEW S, NEW s \in Seq(S), s # <<>>, Len(s) # 1 PROVE Len(s) > 1
<1>1. Len(s) \in Nat \ {0}
  BY EmptySeq
<1>2. \A n \in Nat \ {0} : n # 1 => n > 1
  OBVIOUS
<1>. QED BY <1>1, <1>2

LEMMA NewNotEnded == ~Ended(NewStatus)
<1>. QED BY ClusterAssumption DEF Ended, NewStatus

LEMMA SameKeeps ==
    ASSUME NEW k \in JobKeys, jobs'[k] = jobs[k], watch'[k] = watch[k],
           jobCache'[k] = jobCache[k]
    PROVE  Keeps(k)
<1>. QED BY DEF Keeps, AtHand, Unsettled, Untouched, Incomplete, FailedSeen, Waking, Cached, Ended

LEMMA PutKeeps ==
    ASSUME ClusterTypeOK, History, NEW k \in JobKeys, NEW v \in Version, Put(k, v),
           Follows(jobs[k], v)
    PROVE  \A l \in JobKeys : Keeps(l)
<1>1. ASSUME NEW l \in JobKeys, l # k
      PROVE  Keeps(l)
  <2>1. jobs'[l] = jobs[l] /\ watch'[l] = watch[l] /\ jobCache'[l] = jobCache[l]
    BY <1>1 DEF Put, ClusterTypeOK
  <2>. QED BY <2>1, SameKeeps
<1>2. jobs'[k] = v /\ jobCache'[k] = jobCache[k] /\ watch'[k] = Append(watch[k], v)
  BY DEF Put, ClusterTypeOK
<1>3. watch[k] \in Seq(Version) /\ Len(watch[k]) \in Nat /\ (watch[k] # <<>> => Len(watch[k]) > 0)
  BY DEF ClusterTypeOK
<1>4. Len(watch'[k]) = Len(watch[k]) + 1 /\ watch'[k] # <<>>
  BY <1>2, <1>3
<1>5. Waking(k) => Waking(k)'
  BY <1>2, <1>3, <1>4 DEF Waking
<1>6. jobs[k] # None => Waking(k)'
  BY <1>2, <1>3, <1>4 DEF Waking, History
<1>7. jobs[k] = None => jobs'[k] # None /\ ~Ended(jobs'[k].status)
  BY <1>2, NewNotEnded DEF Follows
<1>8. (AtHand(k) => AtHand(k)') /\ (Unsettled(k) => Unsettled(k)')
  BY <1>5, <1>6 DEF AtHand, Unsettled
<1>9. /\ Untouched(k) => Untouched(k)'
      /\ Incomplete(k) => Incomplete(k)'
      /\ FailedSeen(k) => FailedSeen(k)'
  BY <1>2 DEF Untouched, Incomplete, FailedSeen, Cached
<1>. QED BY <1>1, <1>8, <1>9 DEF Keeps

LEMMA DeliverKeeps ==
    ASSUME ClusterTypeOK, History, NEW k \in JobKeys, DeliverJob(k)
    PROVE  \A l \in JobKeys : Keeps(l) \/ Calls(l)
<1>1. Observe(k)
  BY DEF DeliverJob, OnCreateJob, OnUpdateJob, OnDeleteJob
<1>2. watch[k] \in Seq(Version) /\ watch[k] # <<>> /\ Len(watch[k]) \in Nat
  BY <1>1 DEF Observe, ClusterTypeOK
<1> DEFINE v == watch[k][1]
<1>3. /\ jobCache'[k] = v /\ watch'[k] = Tail(watch[k]) /\ jobs' = jobs
      /\ \A l \in JobKeys \ {k} : jobCache'[l] = jobCache[l] /\ watch'[l] = watch[l]
  BY <1>1, <1>2 DEF Observe, ClusterTypeOK
<1>4. ASSUME NEW l \in JobKeys, l # k PROVE Keeps(l)
  BY <1>3, <1>4, SameKeeps
<1>5. CASE jobCache[k] # None
  <2>1. Follows(jobCache[k], v) /\ Head(watch[k]) = v
    BY <1>2 DEF History
  <2>2. jobCache[k].owner \in queue'
    BY <1>5, <2>1 DEF DeliverJob, OnCreateJob, OnUpdateJob, OnDeleteJob, Enqueue, Follows
  <2>. QED BY <1>4, <1>5, <2>2 DEF Calls
<1>6. CASE jobCache[k] = None
  <2>1. v # None /\ v.status = NewStatus
    BY <1>2, <1>6 DEF History, Follows
  <2>2. Waking(k) => Waking(k)'
    <3>1. Len(watch[k]) > 1 => Tail(watch[k]) # <<>>
      BY <1>2, TailLeft
    <3>. QED BY <1>3, <1>6, <2>1, <3>1 DEF Waking
  <2>3. (AtHand(k) => AtHand(k)') /\ (Unsettled(k) => Unsettled(k)')
    BY <1>3, <2>2 DEF AtHand, Unsettled, Ended
  <2>4. NewStatus.succeeded # 1
    BY DEF NewStatus
  <2>5. /\ Untouched(k)'
        /\ Incomplete(k)'
        /\ ~FailedSeen(k)
    BY <1>3, <1>6, <2>1, <2>4 DEF Untouched, Incomplete, FailedSeen, Cached
  <2>. QED BY <1>4, <2>3, <2>5 DEF Keeps
<1>. QED BY <1>5, <1>6

LEMMA EnvironmentKeeps ==
    ASSUME "relist" \notin Disturbances, ClusterTypeOK, History, Environment
    PROVE  \A k \in JobKeys : Keeps(k) \/ Calls(k)
<1>1. ASSUME UNCHANGED jobVars PROVE \A k \in JobKeys : Keeps(k)
  BY <1>1, SameKeeps DEF jobVars
<1>2. ASSUME NEW k \in JobKeys, Pod(k) PROVE \A l \in JobKeys : Keeps(l)
  <2>1. PICK s \in JobStatus : SetStatus(k, s)
    BY <1>2, PodStep
  <2>2. jobs[k] # None
    BY <1>2, PodStep
  <2> DEFINE version == [jobs[k] EXCEPT !.status = s]
  <2>3. version \in Version /\ version.owner = jobs[k].owner
    BY <2>2 DEF ClusterTypeOK, Version, Job
  <2>4. Put(k, version)
    BY <2>1 DEF SetStatus
  <2>. QED BY <2>2, <2>3, <2>4, PutKeeps DEF Follows
<1>3. ASSUME NEW k \in JobKeys, DeleteJob(k) \/ CollectJob(k) PROVE \A l \in JobKeys : Keeps(l)
  <2>1. jobs[k] # None /\ Put(k, None)
    BY <1>3 DEF DeleteJob, CollectJob, Remove
  <2>. QED BY <2>1, PutKeeps DEF Follows, Version
<1>4. ASSUME Relist PROVE FALSE
  BY <1>4 DEF Relist, Disturb
<1>5. ASSUME NEW o \in Owners, OnObject(o) \/ Change(o) PROVE UNCHANGED jobVars
  BY <1>5 DEF OnObject, Change, CreateObject, EditObject, DeleteObject, DeleteInForeground,
              Finalize, Edit
<1>. QED BY <1>1, <1>2, <1>3, <1>4, <1>5, DeliverKeeps DEF Environment, Change

LEMMA AddKeeps ==
    ASSUME ClusterTypeOK, History, object # None, NEW k \in JobKeys, Add(k, NewJob)
    PROVE  /\ \A l \in JobKeys : Keeps(l)
           /\ AtHand(k)'
<1>1. NewJob \in Version /\ NewJob # None /\ NewJob.status = NewStatus
  BY NewJobType, NoneAssumption DEF Version, NewJob
<1>2. jobs[k] = None /\ Put(k, NewJob)
  BY DEF Add
<1>3. jobs'[k] # None
  BY <1>1, <1>2 DEF Put, ClusterTypeOK
<1>. QED BY <1>1, <1>2, <1>3, PutKeeps DEF Follows, AtHand

(***************************************************************************)
(* What a call concludes from what it reads: a Job in the cache is there   *)
(* or its owner will be called; and a Job that is there although the cache *)
(* shows none, or shows it as new, has its end still to come.              *)
(***************************************************************************)
LEMMA CachedAtHand ==
    ASSUME History, NEW k \in JobKeys, jobCache[k] # None PROVE AtHand(k)
<1>. QED BY DEF History, AtHand, Waking

LEMMA UntouchedUnsettled ==
    ASSUME ClusterTypeOK, History, NEW k \in JobKeys, Untouched(k), jobs[k] # None
    PROVE  Unsettled(k)
<1>1. watch[k] \in Seq(Version)
  BY DEF ClusterTypeOK
<1>2. CASE watch[k] = <<>>
  <2>1. jobs[k].status = NewStatus
    BY <1>2 DEF History, Untouched
  <2>. QED BY <2>1, NewNotEnded DEF Unsettled
<1>3. CASE watch[k] # <<>> /\ jobCache[k] = None /\ Len(watch[k]) = 1
  <2>1. watch[k][1] = jobs[k] /\ Follows(None, watch[k][1])
    BY <1>3 DEF History
  <2>. QED BY <2>1, NewNotEnded DEF Unsettled, Follows
<1>4. CASE watch[k] # <<>> /\ ~(jobCache[k] = None /\ Len(watch[k]) = 1)
  <2>1. jobCache[k] = None => Len(watch[k]) > 1
    BY <1>1, <1>4, MoreThanOne
  <2>. QED BY <1>4, <2>1 DEF Unsettled, Waking
<1>. QED BY <1>2, <1>3, <1>4
============================================================================
