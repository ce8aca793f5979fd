---------------------------- MODULE JobFlowProofs ----------------------------
(***************************************************************************)
(* What the JobFlow controller guarantees for every cluster, every set of  *)
(* JobFlows and every bound.                                               *)
(***************************************************************************)
EXTENDS JobFlow, ClusterProofs

LEMMA SpecType ==
    ASSUME TypeOK, object # None
    PROVE  /\ req \in Owners
           /\ object.spec \in Specs[req]
           /\ object.spec \in Seq(Flow)
           /\ Len(object.spec) \in Nat
<1>1. req \in Owners /\ object \in Live(req)
  BY NoneAssumption DEF TypeOK, ClusterTypeOK
<1>2. object.spec \in Specs[req]
  BY <1>1 DEF Live
<1>. QED BY <1>1, <1>2, JobFlowAssumption

(***************************************************************************)
(* The keys at which the calls for a JobFlow make Jobs: those of the       *)
(* entries of any spec it may be given.                                    *)
(***************************************************************************)
EntryKeys ==
    [f \in Owners |->
       {k \in JobKeys : \E s \in Specs[f] : \E j \in DOMAIN s : k = JobName(f, s[j].name)}]

LEMMA FlowType ==
    ASSUME TypeOK, pc \in {"prepare", "lookup", "dependency", "create"}
    PROVE  /\ object # None
           /\ idx \in 1 .. Len(object.spec)
           /\ ThisFlow \in Flow
           /\ ThisFlow.deps \in Seq(Seq(STRING))
           /\ ThisJob \in JobKeys
           /\ ThisJob \in EntryKeys[req]
<1>1. object # None /\ idx \in 1 .. Len(object.spec)
  BY DEF TypeOK
<1>2. ThisFlow \in Flow
  BY <1>1, SpecType DEF ThisFlow
<1>3. ThisJob \in JobKeys
  BY <1>1, SpecType, JobFlowAssumption DEF ThisJob, ThisFlow
<1>4. idx \in DOMAIN object.spec
  BY <1>1, SpecType
<1>5. ThisJob \in EntryKeys[req]
  BY <1>1, <1>3, <1>4, SpecType DEF EntryKeys, ThisJob, ThisFlow
<1>. QED BY <1>1, <1>2, <1>3, <1>5 DEF Flow

(***************************************************************************)
(* Where the loop over the entries goes next.                              *)
(***************************************************************************)
LEMMA VisitType ==
    ASSUME NEW spec, Len(spec) \in Nat, NEW n \in 1 .. Len(spec) + 1, Visit(spec, n)
    PROVE  /\ pc' \in {"prepare", "list"}
           /\ pc' = "prepare" => idx' \in 1 .. Len(spec)
           /\ pc' = "list" => idx' = 0
           /\ depIdx' = 0 /\ flag' = FALSE /\ status' = status
<1>. QED BY DEF Visit

(***************************************************************************)
(* A step that stays in the loop or leaves it for the status, and touches  *)
(* nothing of the call but its locals.                                     *)
(***************************************************************************)
LEMMA MoveType ==
    ASSUME TypeOK, ClusterTypeOK', UNCHANGED <<jobTemplates, req, object>>,
           pc \in {"prepare", "lookup", "dependency", "create"},
           NEW n \in 1 .. Len(object.spec) + 1, Visit(object.spec, n)
    PROVE  TypeOK'
<1>1. object # None /\ Len(object.spec) \in Nat
  BY FlowType, SpecType
<1>. QED BY <1>1, VisitType DEF TypeOK, PCs

LEMMA NextFlowType ==
    ASSUME TypeOK, ClusterTypeOK', UNCHANGED <<jobTemplates, req, object>>,
           pc \in {"prepare", "lookup", "dependency", "create"},
           NextFlow \/ SkipToStatus
    PROVE  TypeOK'
<1>1. Len(object.spec) \in Nat /\ idx \in 1 .. Len(object.spec)
  BY FlowType, SpecType
<1>2. idx + 1 \in 1 .. Len(object.spec) + 1 /\ Len(object.spec) + 1 \in 1 .. Len(object.spec) + 1
  BY <1>1
<1>. QED BY <1>2, MoveType DEF NextFlow, SkipToStatus

(***************************************************************************)
(* A call that ends.                                                       *)
(***************************************************************************)
LEMMA LeaveType ==
    ASSUME TypeOK, ClusterTypeOK', jobTemplates' = jobTemplates,
           req' = None, object' = None, Leave
    PROVE  TypeOK'
<1>. QED BY DEF TypeOK, Leave, PCs

(***************************************************************************)
(* The steps of the worker, one by one.                                    *)
(***************************************************************************)
LEMMA StartType == ASSUME TypeOK, NEW f \in Owners, Start(f) PROVE TypeOK'
<1>1. ClusterTypeOK'
  BY DEF TypeOK, Start, Dequeue, ClusterTypeOK, jobVars, objectVars
<1>2. f # None
  BY NoneAssumption
<1>. QED BY <1>1, <1>2 DEF TypeOK, Start, Dequeue, GoTo, PCs

LEMMA GetJobFlowType == ASSUME TypeOK, GetJobFlow PROVE TypeOK'
<1> DEFINE o == objectCache[req]
<1>1. req \in Owners /\ pc = "get"
  BY DEF TypeOK, GetJobFlow, ClusterTypeOK
<1>2. CASE Finish /\ Leave
  <2>1. ClusterTypeOK'
    BY <1>2 DEF TypeOK, GetJobFlow, Finish, Forget, ClusterTypeOK, jobVars, objectVars
  <2>. QED BY <1>2, <2>1, LeaveType DEF GetJobFlow, Finish, Forget
<1>3. CASE ~Ignored(o) /\ object' = o /\ Visit(o.spec, 1) /\ UNCHANGED <<queue, req>>
  <2>1. o \in Live(req)
    BY <1>1, <1>3 DEF Ignored, TypeOK, ClusterTypeOK, Object, Gone
  <2>2. o # None
    BY <1>1, <2>1, NoneAssumption DEF Object
  <2>3. ClusterTypeOK'
    BY <1>1, <1>3, <2>1 DEF TypeOK, GetJobFlow, ClusterTypeOK, jobVars, objectVars
  <2>4. o.spec \in Seq(Flow)
    BY <1>1, <2>1, JobFlowAssumption DEF Live
  <2>5. Len(o.spec) \in Nat /\ 1 \in 1 .. Len(o.spec) + 1
    BY <2>4
  <2>6. /\ pc' \in {"prepare", "list"}
        /\ pc' = "prepare" => idx' \in 1 .. Len(o.spec)
        /\ pc' = "list" => idx' = 0
        /\ depIdx' = 0 /\ flag' = FALSE /\ status' = status
    BY <1>3, <2>5, VisitType
  <2>. QED BY <1>1, <1>3, <2>2, <2>3, <2>6 DEF TypeOK, GetJobFlow, PCs
<1>. QED BY <1>2, <1>3 DEF GetJobFlow

LEMMA PrepareJobType == ASSUME TypeOK, PrepareJob PROVE TypeOK'
<1>1. ClusterTypeOK' /\ UNCHANGED <<jobTemplates, req, object>>
  BY DEF TypeOK, PrepareJob, ClusterTypeOK, clusterVars, jobVars, objectVars, callVars
<1>2. CASE GoTo("lookup")
  BY <1>1, <1>2 DEF TypeOK, PrepareJob, GoTo, PCs
<1>3. CASE SkipToStatus
  BY <1>1, <1>3, NextFlowType DEF PrepareJob
<1>. QED BY <1>2, <1>3 DEF PrepareJob

LEMMA GetJobType == ASSUME TypeOK, GetJob PROVE TypeOK'
<1>1. ClusterTypeOK' /\ UNCHANGED <<jobTemplates, req, object>>
  BY DEF TypeOK, GetJob, ClusterTypeOK, clusterVars, jobVars, objectVars, callVars
<1>2. CASE NextFlow
  BY <1>1, <1>2, NextFlowType DEF GetJob
<1>3. CASE GoTo("create")
  BY <1>1, <1>3 DEF TypeOK, GetJob, GoTo, PCs
<1>4. CASE ThisFlow.deps # <<>> /\ pc' = "dependency" /\ depIdx' = 1 /\ flag' = TRUE
           /\ UNCHANGED <<idx, status>>
  <2>1. 1 \in 1 .. Len(ThisFlow.deps)
    BY <1>4, FlowType DEF GetJob
  <2>2. ThisFlow' = ThisFlow
    BY <1>1, <1>4 DEF ThisFlow
  <2>3. 1 \in 1 .. Len(object.spec[idx].deps)
    BY <2>1 DEF ThisFlow
  <2>. QED BY <1>1, <1>4, <2>3 DEF TypeOK, GetJob, PCs
<1>. QED BY <1>2, <1>3, <1>4 DEF GetJob

LEMMA LookAtType ==
    ASSUME TypeOK, pc = "dependency", NEW s, LookAt(s),
           ClusterTypeOK', UNCHANGED <<jobTemplates, req, object>>
    PROVE  TypeOK'
<1>1. CASE NextFlow \/ SkipToStatus
  BY <1>1, NextFlowType
<1>2. CASE /\ depIdx < Len(ThisFlow.deps)
           /\ depIdx' = depIdx + 1
           /\ flag' = StillComplete(s)
           /\ UNCHANGED <<pc, idx, status>>
  <2>1. flag' \in BOOLEAN
    BY <1>2 DEF TypeOK, StillComplete
  <2>2. Len(object.spec[idx].deps) \in Nat
    BY FlowType DEF ThisFlow
  <2>3. depIdx + 1 \in 1 .. Len(object.spec[idx].deps)
    BY <1>2, <2>2 DEF TypeOK, ThisFlow
  <2>. QED BY <1>2, <2>1, <2>3 DEF TypeOK
<1>3. CASE pc' = "create" /\ depIdx' = 0 /\ flag' = FALSE /\ UNCHANGED <<idx, status>>
  BY <1>3 DEF TypeOK, PCs
<1>. QED BY <1>1, <1>2, <1>3 DEF LookAt

LEMMA GetDependencyType == ASSUME TypeOK, GetDependency PROVE TypeOK'
<1>1. ClusterTypeOK' /\ UNCHANGED <<jobTemplates, req, object>>
  BY DEF TypeOK, GetDependency, ClusterTypeOK, clusterVars, jobVars, objectVars, callVars
<1>. QED BY <1>1, LookAtType, NextFlowType DEF GetDependency

LEMMA CreateJobType == ASSUME TypeOK, CreateJob PROVE TypeOK'
<1>1. object # None /\ ThisJob \in JobKeys
  BY FlowType DEF CreateJob
<1>2. UNCHANGED <<jobTemplates, req, object>>
  BY DEF CreateJob, callVars
<1>3. ClusterTypeOK'
  <2>1. CASE Add(ThisJob, NewJob)
    BY <1>1, <2>1, AddType DEF CreateJob, TypeOK, ClusterTypeOK, objectVars, callVars
  <2>2. CASE UNCHANGED jobVars
    BY <2>2 DEF CreateJob, TypeOK, ClusterTypeOK, jobVars, objectVars, callVars
  <2>. QED BY <2>1, <2>2 DEF CreateJob
<1>. QED BY <1>2, <1>3, NextFlowType DEF CreateJob

LEMMA ListJobsType == ASSUME TypeOK, ListJobs PROVE TypeOK'
<1>1. ClusterTypeOK' /\ UNCHANGED <<jobTemplates, req, object>>
  BY DEF TypeOK, ListJobs, ClusterTypeOK, clusterVars, jobVars, objectVars, callVars
<1>2. req \in Owners
  BY SpecType DEF TypeOK, ListJobs
<1>3. status' \in Status
  BY <1>2, StatusType DEF TypeOK, ListJobs, Status
<1>. QED BY <1>1, <1>3 DEF TypeOK, ListJobs, PCs

LEMMA UpdateStatusType == ASSUME TypeOK, UpdateStatus PROVE TypeOK'
<1>1. object # None /\ status \in Status
  BY DEF TypeOK, UpdateStatus
<1>2. ClusterTypeOK' /\ req' = None /\ object' = None
  BY <1>1, PutStatusType DEF TypeOK, UpdateStatus
<1>. QED BY <1>2, LeaveType DEF UpdateStatus

(***************************************************************************)
(* The failures and the users.                                             *)
(***************************************************************************)
LEMMA ApiErrorType == ASSUME TypeOK, ApiError PROVE TypeOK'
<1>1. budget' \in 0 .. MaxDisturbances
  BY DisturbType DEF TypeOK, ApiError
<1>2. req \in Owners
  BY DEF TypeOK, ClusterTypeOK, ApiError
<1>3. ClusterTypeOK' /\ req' = None /\ object' = None
  BY <1>1, <1>2 DEF TypeOK, ApiError, Requeue, Forget, Enqueue, ClusterTypeOK, jobVars, objectVars
<1>. QED BY <1>3, LeaveType DEF ApiError

LEMMA CreateBadRequestType == ASSUME TypeOK, CreateBadRequest PROVE TypeOK'
<1>1. budget' \in 0 .. MaxDisturbances
  BY DisturbType DEF TypeOK, CreateBadRequest
<1>2. ClusterTypeOK' /\ UNCHANGED <<jobTemplates, req, object>>
  BY <1>1 DEF TypeOK, CreateBadRequest, ClusterTypeOK, jobVars, objectVars, callVars
<1>. QED BY <1>2, NextFlowType DEF CreateBadRequest

LEMMA LostAnswerType == ASSUME TypeOK, LostAnswer PROVE TypeOK'
<1>1. budget' \in 0 .. MaxDisturbances
  BY DisturbType DEF TypeOK, LostAnswer
<1>2. object # None /\ req \in Owners
  BY SpecType DEF TypeOK, LostAnswer
<1>3. /\ jobs' \in [JobKeys -> Version]
      /\ watch' \in [JobKeys -> Seq(Version)]
      /\ jobCache' \in [JobKeys -> Version]
      /\ reported' = reported
  <2>1. CASE pc = "create" /\ Add(ThisJob, NewJob)
    BY <1>2, <2>1, FlowType, AddType DEF TypeOK
  <2>2. CASE UNCHANGED jobVars
    BY <2>2 DEF jobVars, TypeOK, ClusterTypeOK
  <2>. QED BY <2>1, <2>2 DEF LostAnswer
<1>4. DOMAIN objects' = Owners /\ \A o \in Owners : objects'[o] \in Object(o)
  <2>1. CASE UNCHANGED objects
    BY <2>1 DEF TypeOK, ClusterTypeOK
  <2>2. CASE pc = "update" /\ WriteStatus(status)
    BY <1>2, <2>2, WriteStatusType DEF TypeOK
  <2>. QED BY <2>1, <2>2 DEF LostAnswer
<1>5. ClusterTypeOK' /\ req' = None /\ object' = None
  BY <1>1, <1>2, <1>3, <1>4 DEF TypeOK, LostAnswer, Requeue, Forget, Enqueue, ClusterTypeOK
<1>. QED BY <1>5, LeaveType DEF LostAnswer

LEMMA ElsewhereType ==
    ASSUME TypeOK, ClusterTypeOK', UNCHANGED <<req, object>>, Elsewhere
    PROVE  TypeOK'
<1>. QED BY DEF TypeOK, Elsewhere, locals

(***************************************************************************)
(* The locals of Reconcile and everything around it stay well formed; in   *)
(* particular the loops never leave the entries and the dependencies of    *)
(* the spec that was read (deployJobFlow, helper.go).                      *)
(***************************************************************************)
THEOREM TypeInvariant == Spec => []TypeOK
<1>1. Init => TypeOK
  <2>. QED BY ClusterInitType DEF Init, ClusterInit, TypeOK, PCs
<1>2. TypeOK /\ [Next]_vars => TypeOK'
  <2> SUFFICES ASSUME TypeOK, [Next]_vars PROVE TypeOK'
    OBVIOUS
  <2>1. CASE UNCHANGED vars
    BY <2>1 DEF vars, locals, clusterVars, jobVars, objectVars, callVars, TypeOK, ClusterTypeOK
  <2>2. CASE \E f \in Owners : Start(f)
    BY <2>2, StartType
  <2>3. CASE Worker
    BY <2>3, GetJobFlowType, PrepareJobType, GetJobType, GetDependencyType, CreateJobType,
       ListJobsType, UpdateStatusType DEF Worker
  <2>4. CASE ApiError \/ CreateBadRequest \/ LostAnswer
    BY <2>4, ApiErrorType, CreateBadRequestType, LostAnswerType
  <2>5. CASE Crash
    BY <2>5, RestartType, LeaveType DEF Crash, TypeOK
  <2>6. ASSUME NEW t \in Templates, EditJobTemplate(t) PROVE TypeOK'
    <3>1. budget' \in 0 .. MaxDisturbances
      BY <2>6, DisturbType DEF EditJobTemplate, TypeOK
    <3>. QED BY <2>6, <3>1 DEF EditJobTemplate, TypeOK, ClusterTypeOK, jobVars, objectVars,
                               callVars, locals
  <2>7. CASE Environment /\ Elsewhere
    BY <2>7, EnvironmentType, EnvironmentKeepsCall, ElsewhereType DEF TypeOK
  <2>. QED BY <2>1, <2>2, <2>3, <2>4, <2>5, <2>6, <2>7 DEF Next
<1>. QED BY <1>1, <1>2, PTL DEF Spec
-----------------------------------------------------------------------------
(***************************************************************************)
(* Failed is final.  The inductive invariant is Copies: the copy a call    *)
(* holds was not Failed, and is the object itself as long as the           *)
(* resourceVersions agree, which the API server asks of every write.       *)
(***************************************************************************)
LEMMA WorkerCopies ==
    ASSUME TypeOK, Copies, Worker PROVE Copies' /\ (objects' = objects \/ FailedStays)
<1>. USE DEF TypeOK
<1>1. CASE GetJobFlow
  <2>1. CASE Finish
    BY <1>1, <2>1, KeepCopies DEF GetJobFlow, Finish, Forget, objectVars, KeepsCopy
  <2>2. CASE ~Ignored(objectCache[req]) /\ object' = objectCache[req] /\ req' = req
    <3>1. req \in Owners
      BY <1>1 DEF GetJobFlow, ClusterTypeOK
    <3>. QED BY <1>1, <2>2, <3>1, ReadCopies DEF GetJobFlow, objectVars
  <2>. QED BY <1>1, <2>1, <2>2 DEF GetJobFlow
<1>2. CASE PrepareJob \/ GetJob \/ GetDependency \/ CreateJob \/ ListJobs
  <2>1. UNCHANGED <<objects, objectCache, req, object>>
    BY <1>2 DEF PrepareJob, GetJob, GetDependency, CreateJob, ListJobs, clusterVars, objectVars,
                callVars
  <2>. QED BY <2>1, KeepCopies DEF KeepsCopy
<1>3. CASE UpdateStatus
  <2>1. object # None /\ status \in Status
    BY <1>3 DEF UpdateStatus
  <2>. QED BY <1>3, <2>1, PutStatusCopies DEF UpdateStatus
<1>. QED BY <1>1, <1>2, <1>3 DEF Worker

LEMMA NextCopies ==
    ASSUME TypeOK, Copies, [Next]_vars PROVE Copies' /\ (objects' = objects \/ FailedStays)
<1>1. CASE UNCHANGED vars
  BY <1>1, KeepCopies DEF vars, clusterVars, objectVars, callVars, KeepsCopy
<1>2. ASSUME NEW f \in Owners, Start(f) PROVE Copies' /\ objects' = objects
  <2>1. req = None /\ object = None
    BY <1>2 DEF Start, Dequeue, TypeOK
  <2>. QED BY <1>2, <2>1 DEF Start, Dequeue, Copies, objectVars
<1>3. CASE Worker
  BY <1>3, WorkerCopies
<1>4. CASE ApiError \/ CreateBadRequest \/ Crash
  BY <1>4, KeepCopies, RestartCopies
  DEF ApiError, CreateBadRequest, Crash, Requeue, Forget, objectVars, callVars, KeepsCopy, TypeOK
<1>5. CASE LostAnswer
  <2>1. KeepsCopy /\ objectCache' = objectCache
    BY <1>5 DEF LostAnswer, Requeue, Forget, KeepsCopy
  <2>2. CASE UNCHANGED objects
    BY <2>1, <2>2, KeepCopies
  <2>3. CASE pc = "update" /\ WriteStatus(status)
    BY <2>1, <2>3, WriteStatusCopies DEF TypeOK
  <2>. QED BY <1>5, <2>2, <2>3 DEF LostAnswer
<1>6. ASSUME NEW t \in Templates, EditJobTemplate(t) PROVE Copies' /\ objects' = objects
  BY <1>6, KeepCopies DEF EditJobTemplate, objectVars, callVars, KeepsCopy
<1>7. CASE Environment /\ Elsewhere
  BY <1>7, EnvironmentCopies DEF TypeOK
<1>. QED BY <1>1, <1>2, <1>3, <1>4, <1>5, <1>6, <1>7 DEF Next

(***************************************************************************)
(* Failed is final for the JobFlow controller, however old the copy is     *)
(* that a call works with (Reconcile, jobflow_controller.go; the update in *)
(* updateJobFlowStatus, helper.go).                                        *)
(***************************************************************************)
THEOREM FailedIsFinalHolds == Spec => FailedIsFinal
<1>1. Init => Copies
  BY DEF Init, ClusterInit, Copies
<1>2. TypeOK /\ Copies /\ [Next]_vars => Copies' /\ [FailedStays]_objects
  BY NextCopies
<1>. QED BY <1>1, <1>2, TypeInvariant, PTL DEF Spec, FailedIsFinal
-----------------------------------------------------------------------------
(***************************************************************************)
(* No job starts before its dependencies.  The inductive invariant relates *)
(* the place of the call in the loop over the dependencies to what the     *)
(* API server has shown: the flag vouches for those already passed.        *)
(***************************************************************************)
Seen(d) == <<JobName(req, ThisFlow.deps[d]), "succeeded">> \in reported

DependenciesSeen ==
    /\ pc = "dependency" /\ flag => \A d \in 1 .. depIdx - 1 : Seen(d)
    /\ pc = "create" => \A d \in DOMAIN ThisFlow.deps : Seen(d)

LEMMA StaysSeen ==
    ASSUME DependenciesSeen, UNCHANGED <<pc, idx, depIdx, flag, req, object>>,
           reported \subseteq reported'
    PROVE  DependenciesSeen'
<1>. QED BY DEF DependenciesSeen, Seen, ThisFlow

LEMMA LookAtSeen ==
    ASSUME TypeOK, VersionsSound(EntryKeys), DependenciesSeen, GetDependency
    PROVE  DependenciesSeen'
<1>1. UNCHANGED <<req, object, reported>> /\ pc = "dependency"
  BY DEF GetDependency, clusterVars, jobVars, callVars
<1>2. CASE NextFlow \/ SkipToStatus
  BY <1>2 DEF NextFlow, SkipToStatus, Visit, DependenciesSeen
<1>3. ASSUME Cached(ThisDependency), LookAt(jobCache[ThisDependency].status)
      PROVE  DependenciesSeen'
  <2> DEFINE s == jobCache[ThisDependency].status
  <2>1. StillComplete(s) => Seen(depIdx)
    BY <1>3 DEF StillComplete, Seen, Cached, VersionsSound, Sound, ThisDependency
  <2>2. StillComplete(s) => \A d \in 1 .. depIdx - 1 : Seen(d)
    BY <1>1 DEF StillComplete, DependenciesSeen
  <2>3. depIdx \in 1 .. Len(ThisFlow.deps) /\ ThisFlow.deps \in Seq(Seq(STRING))
    BY <1>1, FlowType DEF TypeOK, ThisFlow
  <2>4. StillComplete(s) => \A d \in 1 .. depIdx : Seen(d)
    BY <2>1, <2>2, <2>3
  <2>5. CASE /\ depIdx' = depIdx + 1 /\ flag' = StillComplete(s)
             /\ UNCHANGED <<pc, idx, status>>
    <3>1. ThisFlow' = ThisFlow
      BY <1>1, <2>5 DEF ThisFlow
    <3>2. depIdx' - 1 = depIdx
      BY <2>3, <2>5
    <3>3. flag' => \A d \in 1 .. depIdx' - 1 : Seen(d)
      BY <2>4, <2>5, <3>2
    <3>. QED BY <1>1, <2>5, <3>1, <3>3 DEF DependenciesSeen, Seen
  <2>6. CASE /\ depIdx = Len(ThisFlow.deps) /\ StillComplete(s)
             /\ pc' = "create" /\ UNCHANGED <<idx, status>>
    <3>1. ThisFlow' = ThisFlow
      BY <1>1, <2>6 DEF ThisFlow
    <3>2. DOMAIN ThisFlow.deps = 1 .. depIdx
      BY <2>3, <2>6
    <3>. QED BY <1>1, <2>4, <2>6, <3>1, <3>2 DEF DependenciesSeen, Seen
  <2>. QED BY <1>2, <1>3, <2>5, <2>6 DEF LookAt
<1>. QED BY <1>2, <1>3 DEF GetDependency

(***************************************************************************)
(* The worker's steps: the invariant is kept, and the only Job that        *)
(* appears is that of the entry at which a call creates it.                *)
(***************************************************************************)
OrderKept == VersionsSound(EntryKeys)' /\ DependenciesSeen' /\ StartsInOrder

LEMMA CreatesInOrder ==
    ASSUME TypeOK, DependenciesSeen, pc = "create",
           \A l \in JobKeys \ {ThisJob} : jobs'[l] = jobs[l]
    PROVE  StartsInOrder
<1>1. object.spec \in Seq(Flow) /\ idx \in 1 .. Len(object.spec)
  BY FlowType, SpecType
<1>2. idx \in DOMAIN object.spec
  BY <1>1
<1>. QED BY <1>2 DEF StartsInOrder, DependenciesSeen, Seen, ThisFlow, ThisJob

LEMMA WorkerOrder ==
    ASSUME TypeOK, VersionsSound(EntryKeys), DependenciesSeen, Worker PROVE OrderKept
<1>1. ASSUME UNCHANGED jobVars PROVE VersionsSound(EntryKeys)' /\ StartsInOrder
  BY <1>1 DEF jobVars, VersionsSound, Sound, StartsInOrder
<1>2. CASE GetJobFlow \/ PrepareJob \/ ListJobs \/ UpdateStatus
  <2>1. pc' \notin {"dependency", "create"} /\ UNCHANGED jobVars
    BY <1>2 DEF GetJobFlow, PrepareJob, ListJobs, UpdateStatus, Leave, Visit, GoTo, SkipToStatus,
                clusterVars
  <2>. QED BY <1>1, <2>1 DEF DependenciesSeen, OrderKept
<1>3. CASE GetJob
  <2>1. UNCHANGED jobVars
    BY <1>3 DEF GetJob, clusterVars
  <2>2. ASSUME NextFlow PROVE DependenciesSeen'
    <3>1. pc' \notin {"dependency", "create"}
      BY <2>2 DEF NextFlow, Visit
    <3>. QED BY <3>1 DEF DependenciesSeen
  <2>3. ASSUME ThisFlow.deps = <<>>, GoTo("create") PROVE DependenciesSeen'
    <3>1. ThisFlow' = ThisFlow
      BY <1>3, <2>3 DEF GetJob, GoTo, ThisFlow, clusterVars, callVars
    <3>. QED BY <2>3, <3>1 DEF GoTo, DependenciesSeen, Seen
  <2>4. ASSUME pc' = "dependency", depIdx' = 1 PROVE DependenciesSeen'
    BY <2>4 DEF DependenciesSeen, Seen
  <2>. QED BY <1>1, <1>3, <2>1, <2>2, <2>3, <2>4 DEF GetJob, OrderKept
<1>4. CASE GetDependency
  <2>1. UNCHANGED jobVars
    BY <1>4 DEF GetDependency, clusterVars
  <2>. QED BY <1>1, <1>4, <2>1, LookAtSeen DEF OrderKept
<1>5. CASE CreateJob
  <2>1. pc = "create" /\ object # None /\ ThisJob \in JobKeys /\ ThisJob \in EntryKeys[req]
    BY <1>5, FlowType DEF CreateJob
  <2>2. pc' \notin {"dependency", "create"}
    BY <1>5 DEF CreateJob, NextFlow, SkipToStatus, Visit
  <2>3. CASE Add(ThisJob, NewJob)
    <3>1. VersionsSound(EntryKeys)' /\ \A l \in JobKeys \ {ThisJob} : jobs'[l] = jobs[l]
      BY <2>1, <2>3, AddSound DEF TypeOK
    <3>2. StartsInOrder
      BY <2>1, <3>1, CreatesInOrder
    <3>. QED BY <2>2, <3>1, <3>2 DEF DependenciesSeen, OrderKept
  <2>4. CASE UNCHANGED jobVars
    BY <1>1, <2>2, <2>4 DEF DependenciesSeen, OrderKept
  <2>. QED BY <1>5, <2>3, <2>4 DEF CreateJob
<1>. QED BY <1>2, <1>3, <1>4, <1>5 DEF Worker

LEMMA NextOrder ==
    ASSUME TypeOK, VersionsSound(EntryKeys), DependenciesSeen, [Next]_vars
    PROVE  VersionsSound(EntryKeys)' /\ DependenciesSeen' /\ [StartsInOrder]_vars
<1>1. ASSUME UNCHANGED jobVars PROVE VersionsSound(EntryKeys)' /\ StartsInOrder
  BY <1>1 DEF jobVars, VersionsSound, Sound, StartsInOrder
<1>2. CASE UNCHANGED vars
  <2>1. UNCHANGED <<pc, idx, depIdx, flag, req, object>> /\ UNCHANGED jobVars
    BY <1>2 DEF vars, clusterVars, callVars, locals
  <2>. QED BY <1>1, <1>2, <2>1, StaysSeen DEF jobVars
<1>3. ASSUME NEW f \in Owners, Start(f) PROVE OrderKept
  <2>1. pc' = "get" /\ UNCHANGED jobVars
    BY <1>3 DEF Start, Dequeue, GoTo
  <2>. QED BY <1>1, <2>1 DEF DependenciesSeen, OrderKept
<1>4. CASE Worker
  BY <1>4, WorkerOrder DEF OrderKept
<1>5. CASE ApiError \/ CreateBadRequest
  <2>1. pc' \notin {"dependency", "create"} /\ UNCHANGED jobVars
    BY <1>5 DEF ApiError, CreateBadRequest, Leave, SkipToStatus, Visit
  <2>. QED BY <1>1, <2>1 DEF DependenciesSeen, OrderKept
<1>6. CASE LostAnswer
  <2>1. pc' = "idle"
    BY <1>6 DEF LostAnswer, Leave
  <2>2. CASE UNCHANGED jobVars
    BY <1>1, <2>1, <2>2 DEF DependenciesSeen
  <2>3. CASE pc = "create" /\ Add(ThisJob, NewJob)
    <3>1. object # None /\ ThisJob \in JobKeys /\ ThisJob \in EntryKeys[req]
      BY <2>3, FlowType
    <3>. QED BY <2>1, <2>3, <3>1, AddSound, CreatesInOrder DEF TypeOK, DependenciesSeen
  <2>. QED BY <1>6, <2>2, <2>3 DEF LostAnswer
<1>7. CASE Crash
  <2>1. pc' = "idle"
    BY <1>7 DEF Crash, Leave
  <2>. QED BY <1>7, <2>1, RestartSound DEF Crash, TypeOK, DependenciesSeen, MakesNoJob, StartsInOrder
<1>8. ASSUME NEW t \in Templates, EditJobTemplate(t) PROVE OrderKept
  <2>1. UNCHANGED <<pc, idx, depIdx, flag, req, object>> /\ UNCHANGED jobVars
    BY <1>8 DEF EditJobTemplate, callVars, locals
  <2>. QED BY <1>1, <2>1, StaysSeen DEF jobVars, OrderKept
<1>9. CASE Environment /\ Elsewhere
  <2>1. UNCHANGED <<pc, idx, depIdx, flag, req, object>>
    BY <1>9, EnvironmentKeepsCall DEF Elsewhere, locals
  <2>2. VersionsSound(EntryKeys)' /\ reported \subseteq reported' /\ MakesNoJob
    BY <1>9, EnvironmentSound DEF TypeOK
  <2>. QED BY <2>1, <2>2, StaysSeen DEF MakesNoJob, StartsInOrder
<1>. QED BY <1>2, <1>3, <1>4, <1>5, <1>6, <1>7, <1>8, <1>9 DEF Next, OrderKept

(***************************************************************************)
(* Every job the JobFlow controller creates is an entry of the spec it has *)
(* read, and all the jobs that entry depends on have been seen to succeed, *)
(* for every lag of the caches and every failure (deployJobFlow,           *)
(* helper.go).                                                             *)
(***************************************************************************)
THEOREM DependencyOrderHolds == Spec => DependencyOrder
<1>1. Init => VersionsSound(EntryKeys) /\ DependenciesSeen
  BY DEF Init, ClusterInit, VersionsSound, Sound, DependenciesSeen
<1>2. TypeOK /\ VersionsSound(EntryKeys) /\ DependenciesSeen /\ [Next]_vars
      => VersionsSound(EntryKeys)' /\ DependenciesSeen' /\ [StartsInOrder]_vars
  BY NextOrder
<1>. QED BY <1>1, <1>2, TypeInvariant, PTL DEF Spec, DependencyOrder
-----------------------------------------------------------------------------
(***************************************************************************)
(* When a verdict is right.  The code compares the number of completed     *)
(* jobs with the number of entries, so that its Succeed means what it says *)
(* only where the two number the same things: no entry is named twice, an  *)
(* edit leaves the names as they are, and no other object has the name.    *)
(***************************************************************************)
EntryNames(s) == {s[j].name : j \in DOMAIN s}
OneJobEach ==
    \A f \in Owners : \A s \in Specs[f] :
       \A i, j \in DOMAIN s : s[i].name = s[j].name => i = j
SameEntries == \A f \in Owners : \A s, t \in Specs[f] : EntryNames(s) = EntryNames(t)

LEMMA EntryCount ==
    ASSUME OneJobEach, SameEntries, NEW f \in Owners, NEW s \in Specs[f]
    PROVE  /\ EntryKeys[f] = {JobName(f, s[j].name) : j \in DOMAIN s}
           /\ IsFiniteSet(EntryKeys[f])
           /\ Cardinality(EntryKeys[f]) = Len(s)
<1> DEFINE key == [j \in DOMAIN s |-> JobName(f, s[j].name)]
<1>1. s \in Seq(Flow) /\ \A j \in DOMAIN s : key[j] \in JobKeys
  BY JobFlowAssumption
<1>2. DOMAIN s = 1 .. Len(s) /\ Len(s) \in Nat
  BY <1>1
<1>3. IsFiniteSet(DOMAIN s) /\ Cardinality(DOMAIN s) = Len(s)
  <2>1. 1 \in Int /\ Len(s) \in Int /\ (1 > Len(s) => Len(s) = 0) /\ Len(s) - 1 + 1 = Len(s)
    BY <1>2
  <2>. QED BY <1>2, <2>1, FS_Interval
<1>4. \A j \in DOMAIN s : s[j].name \in Seq(STRING)
  <2>1. \A j \in DOMAIN s : s[j] \in Flow
    BY <1>1
  <2>. QED BY <2>1 DEF Flow
<1>5. \A i, j \in DOMAIN s : key[i] = key[j] => i = j
  BY <1>4, JobNamesDiffer DEF OneJobEach
<1>6. /\ IsFiniteSet({key[j] : j \in DOMAIN s})
      /\ Cardinality({key[j] : j \in DOMAIN s}) = Len(s)
  <2>. HIDE DEF key
  <2>. QED BY <1>3, <1>5, DistinctValues
<1>7. {key[j] : j \in DOMAIN s} = {JobName(f, s[j].name) : j \in DOMAIN s}
  OBVIOUS
<1>8. ASSUME NEW k \in EntryKeys[f] PROVE \E j \in DOMAIN s : k = JobName(f, s[j].name)
  <2>1. PICK t \in Specs[f] : \E i \in DOMAIN t : k = JobName(f, t[i].name)
    BY <1>8 DEF EntryKeys
  <2>2. PICK i \in DOMAIN t : k = JobName(f, t[i].name)
    BY <2>1
  <2>3. t[i].name \in EntryNames(s)
    BY <2>2 DEF SameEntries, EntryNames
  <2>. QED BY <2>2, <2>3 DEF EntryNames
<1>9. \A j \in DOMAIN s : JobName(f, s[j].name) \in EntryKeys[f]
  BY <1>1 DEF EntryKeys
<1>10. EntryKeys[f] = {JobName(f, s[j].name) : j \in DOMAIN s}
  BY <1>8, <1>9
<1>. QED BY <1>6, <1>7, <1>10

(***************************************************************************)
(* The inductive invariant: every verdict stored is justified, and so is   *)
(* the one a call is about to store.                                       *)
(***************************************************************************)
VerdictInv ==
    /\ VersionsSound(EntryKeys)
    /\ Verdicts(EntryKeys)
    /\ pc = "update" => Justified(EntryKeys[req], status.state)

LEMMA InitVerdicts == ASSUME Init PROVE VerdictInv
<1>1. VersionsSound(EntryKeys)
  BY DEF Init, ClusterInit, VersionsSound, Sound
<1>2. \A o \in Owners : objects[o].status.state = ""
  BY DEF Init, ClusterInit, Never, Absent, NoStatus
<1>. QED BY <1>1, <1>2 DEF Init, VerdictInv, Verdicts, Justified

LEMMA ListJustified ==
    ASSUME OneJobEach, SameEntries, NamesDiffer, TypeOK, VerdictInv, ListJobs
    PROVE  Justified(EntryKeys[req], status'.state)
<1>1. req \in Owners /\ object.spec \in Specs[req]
  BY SpecType DEF TypeOK, ListJobs
<1>2. Lists(EntryKeys[req], OwnedList(req))
  BY <1>1, OwnedListLists DEF TypeOK, VerdictInv
<1>3. OwnedList(req) \in List
  BY <1>1, StatusType DEF TypeOK
<1>4. status'.state = StateOf(object.deleting, Cardinality(EntryKeys[req]), OwnedList(req))
  BY <1>1, EntryCount DEF ListJobs
<1>. QED BY <1>1, <1>2, <1>3, <1>4, StateJustified, EntryCount

LEMMA WorkerVerdicts ==
    ASSUME OneJobEach, SameEntries, NamesDiffer, TypeOK, VerdictInv, Worker
    PROVE  VerdictInv'
<1>1. ASSUME UNCHANGED jobVars PROVE VersionsSound(EntryKeys)'
  BY <1>1 DEF jobVars, VersionsSound, Sound, VerdictInv
<1>2. CASE GetJobFlow \/ PrepareJob \/ GetJob \/ GetDependency
  <2>1. pc' # "update" /\ UNCHANGED <<jobVars, objects>>
    BY <1>2 DEF GetJobFlow, PrepareJob, GetJob, GetDependency, LookAt, Leave, NextFlow, Visit,
                GoTo, SkipToStatus, clusterVars, objectVars
  <2>. QED BY <1>1, <2>1, KeepVerdicts DEF VerdictInv, jobVars
<1>3. CASE CreateJob
  <2>1. pc' # "update" /\ UNCHANGED objects
    BY <1>3 DEF CreateJob, NextFlow, SkipToStatus, Visit, objectVars
  <2>2. VersionsSound(EntryKeys)' /\ reported' = reported
    <3>1. CASE Add(ThisJob, NewJob)
      BY <1>3, <3>1, FlowType, AddSound DEF CreateJob, TypeOK, VerdictInv
    <3>2. CASE UNCHANGED jobVars
      BY <1>1, <3>2 DEF jobVars
    <3>. QED BY <1>3, <3>1, <3>2 DEF CreateJob
  <2>. QED BY <2>1, <2>2, KeepVerdicts DEF VerdictInv
<1>4. CASE ListJobs
  <2>1. UNCHANGED <<jobVars, objects, req>>
    BY <1>4 DEF ListJobs, clusterVars, objectVars, callVars
  <2>2. Justified(EntryKeys[req], status.state)'
    BY <1>4, <2>1, ListJustified DEF Justified, jobVars
  <2>. QED BY <1>1, <2>1, <2>2, KeepVerdicts DEF VerdictInv, jobVars
<1>5. CASE UpdateStatus
  <2>1. pc' # "update" /\ UNCHANGED jobVars
    BY <1>5 DEF UpdateStatus, Leave
  <2>2. object # None /\ status \in Status
    BY <1>5 DEF UpdateStatus, TypeOK
  <2>. QED BY <1>1, <1>5, <2>1, <2>2, PutStatusVerdicts DEF UpdateStatus, TypeOK, VerdictInv, jobVars
<1>. QED BY <1>2, <1>3, <1>4, <1>5 DEF Worker

LEMMA NextVerdicts ==
    ASSUME OneJobEach, SameEntries, NamesDiffer, TypeOK, VerdictInv, [Next]_vars
    PROVE  VerdictInv'
<1>1. ASSUME UNCHANGED jobVars PROVE VersionsSound(EntryKeys)'
  BY <1>1 DEF jobVars, VersionsSound, Sound, VerdictInv
<1>2. ASSUME UNCHANGED <<jobVars, objects, pc, req, status>> PROVE VerdictInv'
  BY <1>1, <1>2, KeepVerdicts DEF VerdictInv, jobVars, Justified
<1>3. CASE UNCHANGED vars
  BY <1>2, <1>3 DEF vars, clusterVars, objectVars, callVars, locals
<1>4. CASE Worker
  BY <1>4, WorkerVerdicts
<1>5. CASE (\E f \in Owners : Start(f)) \/ ApiError \/ CreateBadRequest
  <2>1. pc' # "update" /\ UNCHANGED <<jobVars, objects>>
    BY <1>5 DEF Start, Dequeue, GoTo, ApiError, CreateBadRequest, Leave, SkipToStatus, Visit,
                objectVars
  <2>. QED BY <1>1, <2>1, KeepVerdicts DEF VerdictInv, jobVars
<1>6. CASE LostAnswer
  <2>1. pc' # "update"
    BY <1>6 DEF LostAnswer, Leave
  <2>2. CASE pc = "create" /\ Add(ThisJob, NewJob) /\ UNCHANGED objects
    BY <2>1, <2>2, FlowType, AddSound, KeepVerdicts DEF TypeOK, VerdictInv
  <2>3. CASE pc = "update" /\ WriteStatus(status) /\ UNCHANGED jobVars
    BY <1>1, <2>1, <2>3, WriteStatusVerdicts DEF TypeOK, VerdictInv, jobVars
  <2>. QED BY <1>6, <2>2, <2>3 DEF LostAnswer
<1>7. CASE Crash
  <2>1. pc' # "update" /\ UNCHANGED objects
    BY <1>7 DEF Crash, Leave, Restart
  <2>. QED BY <1>7, <2>1, RestartSound, KeepVerdicts DEF Crash, TypeOK, VerdictInv
<1>8. ASSUME NEW t \in Templates, EditJobTemplate(t) PROVE VerdictInv'
  BY <1>2, <1>8 DEF EditJobTemplate, objectVars, callVars, locals
<1>9. CASE Environment /\ Elsewhere
  <2>1. VersionsSound(EntryKeys)' /\ reported \subseteq reported'
    BY <1>9, EnvironmentSound DEF TypeOK, VerdictInv
  <2>2. UNCHANGED <<pc, req, status>>
    BY <1>9, EnvironmentKeepsCall DEF Elsewhere, locals
  <2>. QED BY <1>9, <2>1, <2>2, EnvironmentVerdicts DEF TypeOK, VerdictInv, Justified
<1>. QED BY <1>3, <1>4, <1>5, <1>6, <1>7, <1>8, <1>9 DEF Next

(***************************************************************************)
(* Every verdict is true: Succeed and Failed are concluded from counts and *)
(* from cached lists, and still mean that all jobs of the flow have been   *)
(* seen to succeed, or one of them to fail (getAllJobStatus, helper.go).   *)
(***************************************************************************)
THEOREM VerdictSoundHolds ==
    ASSUME OneJobEach, SameEntries, NamesDiffer
    PROVE  Spec => []VerdictSound
<1>1. Init => VerdictInv
  BY InitVerdicts
<1>2. TypeOK /\ VerdictInv /\ [Next]_vars => VerdictInv'
  BY NextVerdicts
<1>3. TypeOK /\ VerdictInv => VerdictSound
  <2> SUFFICES ASSUME TypeOK, VerdictInv, NEW f \in Owners, objects[f].exists
               PROVE  /\ objects[f].status.state = "Succeed" =>
                            \A k \in JobsOf(f) : <<k, "succeeded">> \in reported
                      /\ objects[f].status.state = "Failed" =>
                            \E k \in JobsOf(f) : <<k, "failed">> \in reported
    BY DEF VerdictSound, SucceedMeansAll
  <2>1. objects[f].spec \in Specs[f]
    BY DEF TypeOK, ClusterTypeOK, Object, Live, Gone
  <2>2. JobsOf(f) = EntryKeys[f]
    BY <2>1, EntryCount DEF JobsOf
  <2>. QED BY <2>2 DEF VerdictInv, Verdicts, Justified
<1>. QED BY <1>1, <1>2, <1>3, TypeInvariant, PTL DEF Spec
-----------------------------------------------------------------------------
(***************************************************************************)
(* No wakeup is lost.  The inductive invariant: every object that does not *)
(* show its state is awaited, and what a call is about to write is fresh.  *)
(***************************************************************************)
Entries == [s \in UNION {Specs[f] : f \in Owners} |-> Len(s)]

CurrentInv ==
    /\ Copies
    /\ History
    /\ AllAwaited(Entries)
    /\ pc = "update" => Fresh(Entries, status.state)

LEMMA InitCurrent == ASSUME Init PROVE CurrentInv
<1>1. Copies
  BY DEF Init, ClusterInit, Copies
<1>2. History
  BY DEF Init, ClusterInit, History
<1>3. \A o \in Owners : ~objects[o].exists
  BY DEF Init, ClusterInit, Never, Absent
<1>. QED BY <1>1, <1>2, <1>3 DEF Init, CurrentInv, AllAwaited, Awaited, Ignored

LEMMA ListFresh == ASSUME TypeOK, ListJobs PROVE Fresh(Entries, status.state)'
<1>1. req \in Owners /\ object.spec \in Specs[req]
  BY SpecType DEF TypeOK, ListJobs
<1>2. Entries[object.spec] = Len(object.spec)
  BY <1>1 DEF Entries
<1>3. status'.state = Expected(Entries, req, object)
  BY <1>2 DEF ListJobs, Expected
<1>4. UNCHANGED <<req, object, jobCache>>
  BY DEF ListJobs, clusterVars, jobVars, callVars
<1>5. Expected(Entries, req, object)' = Expected(Entries, req, object)
  BY <1>4 DEF Expected, OwnedList
<1>. QED BY <1>3, <1>5 DEF Fresh

LEMMA WorkerCurrent == ASSUME TypeOK, CurrentInv, Worker PROVE CurrentInv'
<1>. USE DEF CurrentInv
<1>1. Copies'
  BY WorkerCopies
<1>2. ASSUME UNCHANGED clusterVars PROVE History' /\ AllAwaited(Entries)'
  BY <1>2, KeepHistory, CallAwaited DEF clusterVars, jobVars, objectVars, callVars
<1>3. CASE GetJobFlow
  <2>1. pc' # "update" /\ UNCHANGED <<jobVars, objectVars>> /\ req \in Owners
    BY <1>3 DEF GetJobFlow, Leave, Visit, TypeOK, ClusterTypeOK
  <2>2. History'
    BY <2>1, KeepHistory DEF jobVars
  <2>3. AllAwaited(Entries)'
    BY <1>3, <2>1, IgnoredAwaited, CallAwaited DEF GetJobFlow, jobVars, objectVars
  <2>. QED BY <1>1, <2>1, <2>2, <2>3
<1>4. CASE PrepareJob \/ GetJob \/ GetDependency
  <2>1. pc' # "update" /\ UNCHANGED clusterVars
    BY <1>4 DEF PrepareJob, GetJob, GetDependency, LookAt, GoTo, NextFlow, SkipToStatus, Visit
  <2>. QED BY <1>1, <1>2, <2>1
<1>5. CASE CreateJob
  <2>1. pc' # "update" /\ UNCHANGED <<objectVars, callVars>>
    BY <1>5 DEF CreateJob, NextFlow, SkipToStatus, Visit
  <2>2. object # None /\ ThisJob \in JobKeys
    BY <1>5, FlowType DEF CreateJob
  <2>3. History' /\ UNCHANGED jobCache
    BY <1>5, <2>2, AddHistory, KeepHistory DEF CreateJob, jobVars, TypeOK
  <2>4. AllAwaited(Entries)'
    BY <2>1, <2>3, CallAwaited DEF objectVars, callVars
  <2>. QED BY <1>1, <2>1, <2>3, <2>4
<1>6. CASE ListJobs
  BY <1>1, <1>2, <1>6, ListFresh DEF ListJobs
<1>7. CASE UpdateStatus
  <2>1. pc = "update" /\ pc' # "update" /\ PutStatus(status) /\ UNCHANGED <<jobVars, objectCache>>
    BY <1>7 DEF UpdateStatus, Leave
  <2>2. object # None /\ status \in Status /\ ClusterTypeOK
    BY <2>1 DEF TypeOK
  <2>3. AllAwaited(Entries)'
    BY <2>1, <2>2, PutStatusAwaited
  <2>. QED BY <1>1, <2>1, <2>3, KeepHistory DEF jobVars
<1>. QED BY <1>3, <1>4, <1>5, <1>6, <1>7 DEF Worker

LEMMA NextCurrent ==
    ASSUME NamesDiffer, "relist" \notin Disturbances, TypeOK, CurrentInv, [Next]_vars
    PROVE  CurrentInv'
<1>. USE DEF CurrentInv
<1>1. Copies'
  BY NextCopies
<1>2. ASSUME UNCHANGED <<jobVars, objectVars, callVars, pc, status>> PROVE CurrentInv'
  <2>1. History' /\ AllAwaited(Entries)'
    BY <1>2, KeepHistory, CallAwaited DEF jobVars, objectVars, callVars
  <2>2. ASSUME Fresh(Entries, status.state) PROVE Fresh(Entries, status.state)'
    <3>1. Asleep(req)
      BY <1>2, QuietAsleep DEF jobVars, objectVars, callVars
    <3>. QED BY <1>2, <2>2, <3>1, AsleepExpected DEF Fresh, Asleep, Expected, OwnedList,
             jobVars, objectVars, callVars
  <2>. QED BY <1>1, <1>2, <2>1, <2>2
<1>3. CASE UNCHANGED vars
  BY <1>2, <1>3 DEF vars, clusterVars, locals
<1>4. ASSUME NEW f \in Owners, Start(f) PROVE CurrentInv'
  <2>1. pc' # "update" /\ Dequeue(f)
    BY <1>4 DEF Start, GoTo
  <2>2. History' /\ AllAwaited(Entries)'
    BY <2>1, KeepHistory, DequeueAwaited DEF Dequeue, jobVars
  <2>. QED BY <1>1, <2>1, <2>2
<1>5. CASE Worker
  BY <1>5, WorkerCurrent
<1>6. CASE ApiError \/ CreateBadRequest
  <2>1. /\ pc' # "update" /\ UNCHANGED <<jobVars, objectVars>>
        /\ queue \subseteq queue' /\ (req' = req \/ req \in queue')
    BY <1>6 DEF ApiError, CreateBadRequest, Leave, SkipToStatus, Visit, Requeue, Forget, Enqueue,
                callVars
  <2>2. History' /\ AllAwaited(Entries)'
    BY <2>1, KeepHistory, CallAwaited DEF jobVars, objectVars
  <2>. QED BY <1>1, <2>1, <2>2
<1>7. CASE LostAnswer
  <2>1. /\ pc' # "update" /\ objectCache' = objectCache
        /\ queue \subseteq queue' /\ req \in queue'
    BY <1>7 DEF LostAnswer, Leave, Requeue, Forget, Enqueue
  <2>2. CASE pc = "create" /\ Add(ThisJob, NewJob) /\ UNCHANGED objects
    <3>1. object # None /\ ThisJob \in JobKeys
      BY <2>2, FlowType
    <3>2. History' /\ UNCHANGED jobCache
      BY <2>2, <3>1, AddHistory DEF TypeOK
    <3>. QED BY <1>1, <2>1, <2>2, <3>2, CallAwaited
  <2>3. CASE pc = "update" /\ WriteStatus(status) /\ UNCHANGED jobVars
    <3>1. object # None /\ status \in Status /\ ClusterTypeOK
      BY <2>3 DEF TypeOK
    <3>2. AllAwaited(Entries)'
      BY <2>1, <2>3, <3>1, WriteStatusAwaited
    <3>. QED BY <1>1, <2>1, <2>3, <3>2, KeepHistory DEF jobVars
  <2>. QED BY <1>7, <2>2, <2>3 DEF LostAnswer
<1>8. CASE Crash
  BY <1>1, <1>8, RestartAwaited DEF Crash, Leave, TypeOK
<1>9. ASSUME NEW t \in Templates, EditJobTemplate(t) PROVE CurrentInv'
  BY <1>2, <1>9 DEF EditJobTemplate, locals
<1>10. CASE Environment /\ Elsewhere
  <2>1. History' /\ AllAwaited(Entries)'
    BY <1>10, EnvironmentAwaited DEF TypeOK
  <2>2. UNCHANGED <<pc, status>> /\ (pc = "update" => req \in Owners)
    BY <1>10 DEF Elsewhere, locals, TypeOK, ClusterTypeOK
  <2>3. pc = "update" => Fresh(Entries, status.state)'
    BY <1>10, <2>2, EnvironmentAwaited DEF TypeOK, Fresh
  <2>. QED BY <1>1, <2>1, <2>2, <2>3
<1>. QED BY <1>3, <1>4, <1>5, <1>6, <1>7, <1>8, <1>9, <1>10 DEF Next

LEMMA CurrentStatus == ASSUME TypeOK, CurrentInv PROVE StatusCurrent
<1> SUFFICES ASSUME Quiescent, NEW f \in Owners, ~Ignored(objects[f])
             PROVE  objects[f].status.state =
                       StateOf(objects[f].deleting, Len(objects[f].spec), OwnedList(f))
  BY DEF StatusCurrent
<1>1. objects[f].spec \in Specs[f]
  BY DEF TypeOK, ClusterTypeOK, Object, Live, Gone, Ignored
<1>2. Entries[objects[f].spec] = Len(objects[f].spec)
  BY <1>1 DEF Entries
<1>3. Awaited(Entries, f) /\ queue = {} /\ objectCache = objects /\ req # f
  BY NoneAssumption DEF CurrentInv, AllAwaited, Quiescent, CacheCurrent
<1>. QED BY <1>2, <1>3 DEF Awaited, Expected

(***************************************************************************)
(* As long as no watch breaks, when the worker and the queue are empty and *)
(* the caches are current, every JobFlow that is not Failed shows the      *)
(* state its jobs give it: no order of deliveries, of conflicting writes,  *)
(* of errors and restarts loses the last wakeup (the handlers of           *)
(* jobflow_controller.go, the Watches of main.go, updateJobFlowStatus).    *)
(***************************************************************************)
THEOREM StatusCurrentHolds ==
    ASSUME NamesDiffer, "relist" \notin Disturbances
    PROVE  Spec => []StatusCurrent
<1>1. Init => CurrentInv
  BY InitCurrent
<1>2. TypeOK /\ CurrentInv /\ [Next]_vars => CurrentInv'
  BY NextCurrent
<1>3. TypeOK /\ CurrentInv => StatusCurrent
  BY CurrentStatus
<1>. QED BY <1>1, <1>2, <1>3, TypeInvariant, PTL DEF Spec
-----------------------------------------------------------------------------
(***************************************************************************)
(* No entry is left behind.  A call deals with each entry before the one   *)
(* it is at: the job is present, or a dependency is incomplete; or it      *)
(* leaves the loop, because a job of the flow has failed or has its end    *)
(* still to come.  All of these last until the JobFlow is in the queue     *)
(* again (Keeps), provided that what it reads are jobs of its own.         *)
(***************************************************************************)
UsedBy(f, k) ==
    \E s \in Specs[f] : \E j \in DOMAIN s :
       \/ k = JobName(f, s[j].name)
       \/ \E d \in DOMAIN s[j].deps : k = JobName(f, s[j].deps[d])
OwnNames == \A f, g \in Owners : \A k \in EntryKeys[g] : UsedBy(f, k) => f = g

Lacking(f, entry) == \E d \in DOMAIN entry.deps : Incomplete(JobName(f, entry.deps[d]))
Covered(f, entry) == AtHand(JobName(f, entry.name)) \/ Lacking(f, entry)
Halted(f) == \E k \in EntryKeys[f] : FailedSeen(k) \/ Unsettled(k)
Handled(f, spec) == Halted(f) \/ \A j \in DOMAIN spec : Covered(f, spec[j])

KeepsAll(f) == \A k \in JobKeys : UsedBy(f, k) => Keeps(k)

LEMMA CallsOwner ==
    ASSUME OwnNames, TypeOK, VersionsSound(EntryKeys), NEW f \in Owners,
           NEW k \in JobKeys, UsedBy(f, k), jobCache[k] # None
    PROVE  jobCache[k].owner = f /\ k \in EntryKeys[f]
<1>1. jobCache[k].owner \in Owners
  BY DEF TypeOK, ClusterTypeOK, Version, Job
<1>2. k \in EntryKeys[jobCache[k].owner]
  BY DEF VersionsSound, Sound
<1>. QED BY <1>1, <1>2 DEF OwnNames

LEMMA KeepsOrWakes ==
    ASSUME OwnNames, TypeOK, VersionsSound(EntryKeys), NEW f \in Owners,
           \A k \in JobKeys : Keeps(k) \/ Calls(k)
    PROVE  KeepsAll(f) \/ Awake(f)
<1>1. ASSUME NEW k \in JobKeys, UsedBy(f, k), Calls(k) PROVE f \in queue'
  BY <1>1, CallsOwner DEF Calls
<1>. QED BY <1>1 DEF KeepsAll, Awake

LEMMA EntryKept ==
    ASSUME TypeOK, NEW f \in Owners, NEW s \in Specs[f], KeepsAll(f), NEW j \in DOMAIN s
    PROVE  /\ Lacking(f, s[j]) => Lacking(f, s[j])'
           /\ Covered(f, s[j]) => Covered(f, s[j])'
<1>1. JobName(f, s[j].name) \in JobKeys /\ UsedBy(f, JobName(f, s[j].name))
  BY JobFlowAssumption DEF UsedBy
<1>2. AtHand(JobName(f, s[j].name)) => AtHand(JobName(f, s[j].name))'
  BY <1>1 DEF KeepsAll, Keeps
<1>3. ASSUME NEW d \in DOMAIN s[j].deps, Incomplete(JobName(f, s[j].deps[d]))
      PROVE  Incomplete(JobName(f, s[j].deps[d]))'
  <2> DEFINE k == JobName(f, s[j].deps[d])
  <2>1. UsedBy(f, k)
    BY DEF UsedBy
  <2>2. CASE k \in JobKeys
    BY <1>3, <2>1, <2>2 DEF KeepsAll, Keeps
  <2>3. CASE k \notin JobKeys
    BY <2>3 DEF Incomplete, Cached
  <2>. QED BY <2>2, <2>3
<1>4. Lacking(f, s[j]) => Lacking(f, s[j])'
  BY <1>3 DEF Lacking
<1>. QED BY <1>2, <1>4 DEF Covered

LEMMA HandledKept ==
    ASSUME TypeOK, NEW f \in Owners, NEW s \in Specs[f], KeepsAll(f), Handled(f, s)
    PROVE  Handled(f, s)'
<1>1. \A j \in DOMAIN s : Covered(f, s[j]) => Covered(f, s[j])'
  BY EntryKept
<1>2. ASSUME NEW k \in EntryKeys[f], FailedSeen(k) \/ Unsettled(k)
      PROVE  FailedSeen(k)' \/ Unsettled(k)'
  <2>1. k \in JobKeys /\ UsedBy(f, k)
    BY DEF EntryKeys, UsedBy
  <2>. QED BY <1>2, <2>1 DEF KeepsAll, Keeps
<1>3. Halted(f) => Halted(f)'
  BY <1>2 DEF Halted
<1>. QED BY <1>1, <1>3 DEF Handled

(***************************************************************************)
(* The inductive invariant: where the call in progress is, and what of     *)
(* each JobFlow no call is at.  A call that works with an old copy, or     *)
(* whose JobFlow will be looked at again, is excused.                      *)
(***************************************************************************)
InLoop == pc \in {"prepare", "lookup", "dependency", "create"}

Thorough ==
    /\ InLoop => \A j \in 1 .. idx - 1 : Covered(req, object.spec[j])
    /\ pc = "dependency" /\ ~flag => Lacking(req, ThisFlow)
    /\ pc \in {"dependency", "create"} => Untouched(ThisJob)
    /\ pc \in {"list", "update"} => Handled(req, object.spec)

Restless(f) == f \in queue \/ objectCache[f] # objects[f]
Excused == Restless(req) \/ object.rv # objects[req].rv
LeftToOthers(f) == Restless(f) \/ Ignored(objects[f]) \/ Handled(f, objects[f].spec)

LeftInv ==
    /\ jobTemplates = Templates
    /\ \A f \in Owners : req = f \/ LeftToOthers(f)
    /\ object # None => Excused \/ Thorough

LEMMA LeftToOthersKept ==
    ASSUME TypeOK, NEW f \in Owners, LeftToOthers(f), Asleep(f) \/ Awake(f),
           KeepsAll(f) \/ Awake(f)
    PROVE  LeftToOthers(f)'
<1>1. CASE Awake(f)
  BY <1>1 DEF Awake, LeftToOthers, Restless
<1>2. CASE Asleep(f) /\ KeepsAll(f)
  <2>1. objects'[f] = objects[f] /\ (Restless(f) => Restless(f)')
    BY <1>2 DEF Asleep, Restless
  <2>2. CASE Ignored(objects[f])
    BY <2>1, <2>2 DEF LeftToOthers, Ignored
  <2>3. CASE ~Ignored(objects[f]) /\ Handled(f, objects[f].spec)
    <3>1. objects[f].spec \in Specs[f]
      BY <2>3 DEF TypeOK, ClusterTypeOK, Object, Live, Gone, Ignored
    <3>2. Handled(f, objects[f].spec)'
      <4> DEFINE s == objects[f].spec
      <4>1. Handled(f, s)
        BY <2>3
      <4>. HIDE DEF s
      <4>2. Handled(f, s)' /\ s' = s
        BY <1>2, <2>1, <3>1, <4>1, HandledKept DEF s
      <4>. QED BY <4>2 DEF s
    <3>. QED BY <3>2 DEF LeftToOthers
  <2>. QED BY <2>1, <2>2, <2>3 DEF LeftToOthers
<1>. QED BY <1>1, <1>2

(***************************************************************************)
(* The call while others move.                                             *)
(***************************************************************************)
LEMMA ThoroughKept ==
    ASSUME TypeOK, object # None, Thorough, KeepsAll(req),
           UNCHANGED <<pc, idx, depIdx, flag, req, object>>
    PROVE  Thorough'
<1>1. req \in Owners /\ object.spec \in Specs[req] /\ object.spec \in Seq(Flow)
  BY SpecType
<1>2. ThisFlow' = ThisFlow /\ ThisJob' = ThisJob
  BY DEF ThisFlow, ThisJob
<1>3. InLoop => /\ idx \in DOMAIN object.spec
                /\ 1 .. idx - 1 \subseteq DOMAIN object.spec
                /\ UsedBy(req, ThisJob) /\ ThisJob \in JobKeys
  <2> SUFFICES ASSUME InLoop PROVE /\ idx \in DOMAIN object.spec
                                   /\ 1 .. idx - 1 \subseteq DOMAIN object.spec
                                   /\ UsedBy(req, ThisJob) /\ ThisJob \in JobKeys
    OBVIOUS
  <2>1. idx \in 1 .. Len(object.spec) /\ ThisJob \in JobKeys
    BY FlowType DEF InLoop
  <2>2. idx \in DOMAIN object.spec /\ 1 .. idx - 1 \subseteq DOMAIN object.spec
    BY <1>1, <2>1
  <2>. QED BY <1>1, <2>1, <2>2 DEF UsedBy, ThisJob, ThisFlow
<1>4. \A j \in DOMAIN object.spec :
         /\ Lacking(req, object.spec[j]) => Lacking(req, object.spec[j])'
         /\ Covered(req, object.spec[j]) => Covered(req, object.spec[j])'
  BY <1>1, EntryKept
<1>5. InLoop => (Untouched(ThisJob) => Untouched(ThisJob)')
  BY <1>2, <1>3 DEF KeepsAll, Keeps
<1>6. Handled(req, object.spec) => Handled(req, object.spec)'
  BY <1>1, HandledKept
<1>7. InLoop' <=> InLoop
  BY DEF InLoop
<1>8. InLoop => \A j \in 1 .. idx - 1 : Covered(req, object.spec[j])'
  BY <1>3, <1>4 DEF Thorough
<1>9. pc = "dependency" /\ ~flag => Lacking(req, ThisFlow)'
  BY <1>3, <1>4 DEF Thorough, ThisFlow, InLoop
<1>. QED BY <1>5, <1>6, <1>7, <1>8, <1>9 DEF Thorough, InLoop

(***************************************************************************)
(* The call itself.  What it says of the entries it has passed lasts over  *)
(* its own steps, and where it goes on or leaves the loop it has a reason. *)
(***************************************************************************)
KeepsEach == \A k \in JobKeys : Keeps(k)

LEMMA EachKeepsAll == ASSUME KeepsEach PROVE \A f \in Owners : KeepsAll(f)
<1>. QED BY DEF KeepsEach, KeepsAll

LEMMA HaltedKept ==
    ASSUME KeepsEach, NEW f \in Owners, Halted(f) PROVE Halted(f)'
<1>1. ASSUME NEW k \in EntryKeys[f], FailedSeen(k) \/ Unsettled(k)
      PROVE  FailedSeen(k)' \/ Unsettled(k)'
  <2>1. k \in JobKeys
    BY DEF EntryKeys
  <2>. QED BY <1>1, <2>1 DEF KeepsEach, Keeps
<1>. QED BY <1>1 DEF Halted

LEMMA PassedKept ==
    ASSUME TypeOK, InLoop, Thorough, KeepsEach, UNCHANGED <<req, object>>,
           NEW i, i = idx
    PROVE  /\ i \in DOMAIN object.spec
           /\ \A j \in 1 .. i - 1 : Covered(req, object.spec[j])'
           /\ Covered(req, object.spec[i]) => Covered(req, object.spec[i])'
           /\ Lacking(req, object.spec[i]) => Lacking(req, object.spec[i])'
<1>1. object # None /\ idx \in 1 .. Len(object.spec)
  BY FlowType DEF InLoop
<1>2. req \in Owners /\ object.spec \in Specs[req] /\ object.spec \in Seq(Flow)
  BY <1>1, SpecType
<1>3. i \in DOMAIN object.spec /\ 1 .. i - 1 \subseteq DOMAIN object.spec
  BY <1>1, <1>2
<1>4. KeepsAll(req)
  BY <1>2, EachKeepsAll
<1>5. \A j \in DOMAIN object.spec :
         /\ Lacking(req, object.spec[j]) => Lacking(req, object.spec[j])'
         /\ Covered(req, object.spec[j]) => Covered(req, object.spec[j])'
  BY <1>2, <1>4, EntryKept
<1>. QED BY <1>3, <1>5 DEF Thorough

LEMMA NextFlowThorough ==
    ASSUME TypeOK, InLoop, Thorough, KeepsEach, UNCHANGED <<req, object>>, NextFlow,
           NEW i, i = idx, Covered(req, object.spec[i])'
    PROVE  Thorough'
<1>1. object # None /\ i \in 1 .. Len(object.spec)
  BY FlowType DEF InLoop
<1>2. Len(object.spec) \in Nat /\ DOMAIN object.spec = 1 .. Len(object.spec)
  BY <1>1, SpecType
<1>3. \A j \in 1 .. i - 1 : Covered(req, object.spec[j])'
  BY PassedKept
<1>4. \A j \in 1 .. i : Covered(req, object.spec[j])'
  BY <1>1, <1>2, <1>3
<1>5. CASE i + 1 <= Len(object.spec)
  <2>1. pc' = "prepare" /\ idx' = i + 1 /\ idx' - 1 = i
    BY <1>1, <1>2, <1>5 DEF NextFlow, Visit
  <2>2. \A j \in 1 .. idx' - 1 : Covered(req, object.spec[j])'
    BY <1>4, <2>1
  <2>. QED BY <2>1, <2>2 DEF Thorough, InLoop
<1>6. CASE ~(i + 1 <= Len(object.spec))
  <2>1. pc' = "list" /\ DOMAIN object.spec = 1 .. i
    BY <1>1, <1>2, <1>6 DEF NextFlow, Visit
  <2>2. \A j \in DOMAIN object'.spec : Covered(req, object.spec[j])'
    BY <1>4, <2>1
  <2>. QED BY <2>1, <2>2 DEF Thorough, InLoop, Handled
<1>. QED BY <1>5, <1>6

LEMMA SkipThorough ==
    ASSUME TypeOK, InLoop, KeepsEach, UNCHANGED <<req, object>>, SkipToStatus, Halted(req)
    PROVE  Thorough'
<1>1. object # None /\ req \in Owners /\ Len(object.spec) \in Nat
  BY FlowType, SpecType DEF InLoop
<1>2. pc' = "list"
  BY <1>1 DEF SkipToStatus, Visit
<1>3. \A f \in Owners : Halted(f) => Halted(f)'
  BY HaltedKept
<1>4. Halted(req)'
  BY <1>1, <1>3
<1>. QED BY <1>2, <1>4 DEF Thorough, InLoop, Handled

(***************************************************************************)
(* A step that stays at the entry.                                         *)
(***************************************************************************)
LEMMA StayThorough ==
    ASSUME TypeOK, InLoop, Thorough, KeepsEach, UNCHANGED <<req, object, idx, jobCache>>,
           pc' \in {"lookup", "dependency", "create"},
           pc' \in {"dependency", "create"} => Untouched(ThisJob),
           pc' = "dependency" /\ ~flag' => Lacking(req, ThisFlow)
    PROVE  Thorough'
<1>1. PICK i : i = idx
  OBVIOUS
<1>2. \A j \in 1 .. i - 1 : Covered(req, object.spec[j])'
  BY <1>1, PassedKept
<1>3. Untouched(ThisJob) => Untouched(ThisJob)'
  BY DEF Untouched, ThisJob, ThisFlow
<1>4. Lacking(req, ThisFlow) => Lacking(req, ThisFlow)'
  BY DEF Lacking, ThisFlow, Incomplete, Cached
<1>. QED BY <1>1, <1>2, <1>3, <1>4 DEF Thorough, InLoop

LEMMA GetJobThorough ==
    ASSUME TypeOK, History, Thorough, GetJob PROVE Thorough'
<1>1. /\ InLoop /\ pc = "lookup" /\ ThisJob \in JobKeys /\ KeepsEach
      /\ UNCHANGED <<req, object, jobCache>>
  BY FlowType, SameKeeps DEF GetJob, InLoop, KeepsEach, clusterVars, jobVars, callVars
<1>2. CASE Cached(ThisJob) /\ NextFlow
  <2>1. PICK i : i = idx
    OBVIOUS
  <2>2. Covered(req, object.spec[i])
    BY <1>1, <1>2, <2>1, CachedAtHand DEF Covered, Cached, ThisJob, ThisFlow
  <2>3. Covered(req, object.spec[i])'
    BY <1>1, <2>1, <2>2, PassedKept
  <2>. QED BY <1>1, <1>2, <2>1, <2>3, NextFlowThorough
<1>3. CASE ~Cached(ThisJob) /\ ThisFlow.deps = <<>> /\ GoTo("create")
  BY <1>1, <1>3, StayThorough DEF GoTo, Cached, Untouched
<1>4. CASE ~Cached(ThisJob) /\ pc' = "dependency" /\ flag' = TRUE /\ UNCHANGED idx
  BY <1>1, <1>4, StayThorough DEF Cached, Untouched
<1>. QED BY <1>2, <1>3, <1>4 DEF GetJob

LEMMA GetDependencyThorough ==
    ASSUME OwnNames, TypeOK, VersionsSound(EntryKeys), Thorough, GetDependency
    PROVE  Thorough'
<1>1. /\ InLoop /\ pc = "dependency" /\ KeepsEach
      /\ UNCHANGED <<req, object, jobCache>>
  BY SameKeeps DEF GetDependency, InLoop, KeepsEach, clusterVars, jobVars, callVars
<1>2. /\ object # None /\ idx \in 1 .. Len(object.spec)
      /\ ThisFlow.deps \in Seq(Seq(STRING))
      /\ depIdx \in 1 .. Len(ThisFlow.deps)
  BY <1>1, FlowType DEF TypeOK, ThisFlow
<1>3. req \in Owners /\ object.spec \in Specs[req] /\ object.spec \in Seq(Flow)
  BY <1>2, SpecType
<1>4. depIdx \in DOMAIN ThisFlow.deps /\ idx \in DOMAIN object.spec
  BY <1>2, <1>3
<1>5. Incomplete(ThisDependency) => Lacking(req, ThisFlow)
  BY <1>4 DEF Lacking, ThisDependency
<1>6. ASSUME NextFlow, Lacking(req, ThisFlow) PROVE Thorough'
  <2>1. PICK i : i = idx
    OBVIOUS
  <2>2. Covered(req, object.spec[i])
    BY <1>6, <2>1 DEF Covered, ThisFlow
  <2>3. Covered(req, object.spec[i])'
    BY <1>1, <2>1, <2>2, PassedKept
  <2>. QED BY <1>1, <1>6, <2>1, <2>3, NextFlowThorough
<1>7. CASE ~Cached(ThisDependency) /\ NextFlow
  BY <1>5, <1>6, <1>7 DEF Incomplete
<1>8. CASE Cached(ThisDependency) /\ LookAt(jobCache[ThisDependency].status)
  <2> DEFINE s == jobCache[ThisDependency].status
  <2>1. ~StillComplete(s) => Lacking(req, ThisFlow)
    BY <1>1, <1>5 DEF StillComplete, Incomplete, Thorough
  <2>2. Untouched(ThisJob)
    BY <1>1 DEF Thorough
  <2>3. CASE DependencyFailed(s) /\ SkipToStatus
    <3>1. ThisDependency \in JobKeys /\ jobCache[ThisDependency] # None
      BY <1>8 DEF Cached
    <3>2. UsedBy(req, ThisDependency)
      BY <1>3, <1>4 DEF UsedBy, ThisDependency, ThisFlow
    <3>3. ThisDependency \in EntryKeys[req]
      BY <1>3, <3>1, <3>2, CallsOwner
    <3>4. Halted(req)
      BY <2>3, <3>1, <3>3 DEF Halted, FailedSeen, DependencyFailed
    <3>. QED BY <1>1, <2>3, <3>4, SkipThorough
  <2>4. CASE flag' = StillComplete(s) /\ UNCHANGED <<pc, idx, status>>
    BY <1>1, <2>1, <2>2, <2>4, StayThorough
  <2>5. CASE pc' = "create" /\ UNCHANGED <<idx, status>>
    BY <1>1, <2>2, <2>5, StayThorough
  <2>6. CASE ~StillComplete(s) /\ NextFlow
    BY <1>6, <2>1, <2>6
  <2>. QED BY <1>8, <2>3, <2>4, <2>5, <2>6 DEF LookAt
<1>. QED BY <1>7, <1>8 DEF GetDependency

LEMMA CreateJobThorough ==
    ASSUME TypeOK, History, CreateJob
    PROVE  KeepsEach /\ jobCache' = jobCache /\ (Thorough => Thorough')
<1>1. /\ InLoop /\ pc = "create" /\ object # None /\ req \in Owners
      /\ ThisJob \in JobKeys /\ ThisJob \in EntryKeys[req]
      /\ UNCHANGED <<req, object>>
  BY FlowType, SpecType DEF CreateJob, InLoop, callVars
<1>2. CASE Add(ThisJob, NewJob) /\ NextFlow
  <2>1. PICK k \in JobKeys : k = ThisJob
    BY <1>1
  <2>2. PICK i : i = idx
    OBVIOUS
  <2>3. KeepsEach /\ AtHand(k)' /\ jobCache' = jobCache
    BY <1>1, <1>2, <2>1, AddKeeps DEF KeepsEach, Add, Put, TypeOK
  <2>4. k = JobName(req', object'.spec[i].name)
    BY <1>1, <2>1, <2>2 DEF ThisJob, ThisFlow
  <2>5. Covered(req, object.spec[i])'
    BY <2>3, <2>4 DEF Covered
  <2>. QED BY <1>1, <1>2, <2>2, <2>3, <2>5, NextFlowThorough
<1>3. CASE jobs[ThisJob] # None /\ UNCHANGED jobVars
  <2>1. KeepsEach /\ jobCache' = jobCache
    BY <1>3, SameKeeps DEF KeepsEach, jobVars
  <2>2. ASSUME Thorough, NextFlow PROVE Thorough'
    <3>1. PICK i : i = idx
      OBVIOUS
    <3>2. Covered(req, object.spec[i])
      BY <1>3, <3>1 DEF Covered, AtHand, ThisJob, ThisFlow
    <3>3. Covered(req, object.spec[i])'
      BY <1>1, <2>1, <2>2, <3>1, <3>2, PassedKept
    <3>. QED BY <1>1, <2>1, <2>2, <3>1, <3>3, NextFlowThorough
  <2>3. ASSUME Thorough, SkipToStatus PROVE Thorough'
    <3>1. Unsettled(ThisJob)
      BY <1>1, <1>3, <2>3, UntouchedUnsettled DEF Thorough, TypeOK
    <3>2. Halted(req)
      BY <1>1, <3>1 DEF Halted
    <3>. QED BY <1>1, <2>1, <2>3, <3>2, SkipThorough
  <2>. QED BY <1>3, <2>1, <2>2, <2>3 DEF CreateJob
<1>. QED BY <1>2, <1>3 DEF CreateJob

(***************************************************************************)
(* The steps that leave the objects, the queue and the call's request as   *)
(* they are, and then each of the others.                                  *)
(***************************************************************************)
LEMMA InCallLeft ==
    ASSUME TypeOK, LeftInv, KeepsEach, Thorough => Thorough',
           UNCHANGED <<jobTemplates, jobCache, objects, objectCache, queue, req, object>>
    PROVE  LeftInv'
<1>1. \A f \in Owners : Asleep(f) /\ KeepsAll(f)
  BY QuietAsleep, EachKeepsAll
<1>2. \A f \in Owners : LeftToOthers(f) => LeftToOthers(f)'
  BY <1>1, LeftToOthersKept
<1>3. Excused => Excused'
  BY DEF Excused, Restless
<1>. QED BY <1>2, <1>3 DEF LeftInv

LEMMA GetJobFlowLeft == ASSUME TypeOK, LeftInv, GetJobFlow PROVE LeftInv'
<1>1. /\ req \in Owners /\ KeepsEach
      /\ UNCHANGED <<jobTemplates, jobCache, objects, objectCache, queue>>
  BY SameKeeps DEF GetJobFlow, Finish, TypeOK, ClusterTypeOK, KeepsEach, jobVars, objectVars
<1>2. \A f \in Owners : LeftToOthers(f) => LeftToOthers(f)'
  BY <1>1, QuietAsleep, EachKeepsAll, LeftToOthersKept
<1> DEFINE o == objectCache[req]
<1>3. CASE Ignored(o) /\ Finish
  <2>1. ASSUME NEW f \in Owners, f = req PROVE LeftToOthers(f)'
    BY <1>1, <1>3, <2>1 DEF LeftToOthers, Restless, Ignored
  <2>2. object' = None
    BY <1>3 DEF Finish, Forget
  <2>. QED BY <1>1, <1>2, <2>1, <2>2 DEF LeftInv
<1>4. CASE ~Ignored(o) /\ object' = o /\ Visit(o.spec, 1) /\ UNCHANGED req
  <2>1. o.spec \in Seq(Flow)
    BY <1>1, <1>4, JobFlowAssumption DEF Ignored, TypeOK, ClusterTypeOK, Object, Live, Gone
  <2>2. Len(o.spec) \in Nat /\ DOMAIN o.spec = 1 .. Len(o.spec)
    BY <2>1
  <2>3. Thorough'
    <3>1. CASE 1 <= Len(o.spec)
      <4>1. pc' = "prepare" /\ idx' = 1
        BY <1>4, <3>1 DEF Visit
      <4>. QED BY <4>1 DEF Thorough, InLoop
    <3>2. CASE ~(1 <= Len(o.spec))
      <4>1. pc' = "list" /\ DOMAIN object'.spec = {}
        BY <1>4, <2>2, <3>2 DEF Visit
      <4>. QED BY <4>1 DEF Thorough, InLoop, Handled
    <3>. QED BY <3>1, <3>2
  <2>. QED BY <1>1, <1>2, <1>4, <2>3 DEF LeftInv
<1>. QED BY <1>3, <1>4 DEF GetJobFlow

LEMMA PrepareJobLeft == ASSUME TypeOK, LeftInv, PrepareJob PROVE LeftInv'
<1>1. /\ InLoop /\ KeepsEach /\ pc = "prepare"
      /\ UNCHANGED <<jobTemplates, jobCache, objects, objectCache, queue, req, object>>
  BY SameKeeps DEF PrepareJob, InLoop, KeepsEach, clusterVars, jobVars, objectVars, callVars
<1>2. TemplateFound(ThisFlow)
  BY <1>1, FlowType DEF TemplateFound, LeftInv, Flow
<1>3. GoTo("lookup")
  BY <1>2 DEF PrepareJob
<1>4. Thorough => Thorough'
  BY <1>1, <1>3, StayThorough DEF GoTo
<1>. QED BY <1>1, <1>4, InCallLeft

LEMMA ListJobsLeft == ASSUME TypeOK, LeftInv, ListJobs PROVE LeftInv'
<1>1. /\ KeepsEach /\ pc = "list" /\ pc' = "update"
      /\ UNCHANGED <<jobTemplates, jobCache, objects, objectCache, queue, req, object>>
  BY SameKeeps DEF ListJobs, KeepsEach, clusterVars, jobVars, objectVars, callVars
<1>2. object # None /\ req \in Owners /\ object.spec \in Specs[req]
  BY <1>1, SpecType DEF TypeOK
<1>3. Handled(req, object.spec) => Handled(req, object.spec)'
  <2>1. \A f \in Owners : \A s \in Specs[f] : Handled(f, s) => Handled(f, s)'
    BY <1>1, EachKeepsAll, HandledKept
  <2>. QED BY <1>1, <1>2, <2>1
<1>4. Thorough => Thorough'
  BY <1>1, <1>3 DEF Thorough, InLoop
<1>. QED BY <1>1, <1>4, InCallLeft

(***************************************************************************)
(* A call ends: its object is as the call left it, or is looked at again.  *)
(***************************************************************************)
LEMMA EndLeft ==
    ASSUME TypeOK, LeftInv, KeepsEach, jobTemplates' = jobTemplates,
           \A f \in Owners : Asleep(f) \/ Awake(f), object' = None,
           req \in Owners, LeftToOthers(req) \/ req \in queue'
    PROVE  LeftInv'
<1>1. ASSUME NEW f \in Owners PROVE LeftToOthers(f)'
  <2>1. CASE LeftToOthers(f)
    BY <2>1, EachKeepsAll, LeftToOthersKept
  <2>2. CASE f = req /\ f \in queue'
    BY <2>2 DEF LeftToOthers, Restless
  <2>. QED BY <2>1, <2>2 DEF LeftInv
<1>. QED BY <1>1 DEF LeftInv

LEMMA WriteStatusLeft ==
    ASSUME TypeOK, LeftInv, Copies, pc = "update", WriteStatus(status),
           UNCHANGED <<jobVars, objectCache>>, queue \subseteq queue'
    PROVE  /\ req \in Owners /\ LeftToOthers(req)
           /\ \A f \in Owners : Asleep(f) \/ Awake(f)
<1>1. object # None /\ status \in Status
  BY DEF TypeOK
<1>2. /\ req \in Owners /\ object = objects[req]
      /\ \A f \in Owners : Asleep(f) \/ Awake(f)
  BY <1>1, WriteStatusWakes DEF TypeOK
<1>3. Excused \/ Handled(req, object.spec)
  BY <1>1 DEF LeftInv, Thorough
<1>. QED BY <1>2, <1>3 DEF LeftToOthers, Excused

LEMMA UpdateStatusLeft ==
    ASSUME TypeOK, LeftInv, Copies, UpdateStatus PROVE LeftInv'
<1>1. /\ pc = "update" /\ PutStatus(status) /\ req \in Owners /\ object' = None
      /\ UNCHANGED <<jobVars, objectCache, jobTemplates>> /\ KeepsEach
  BY SpecType, SameKeeps DEF UpdateStatus, PutStatus, Finish, Requeue, Forget, TypeOK, KeepsEach,
                             jobVars
<1>2. CASE WriteStatus(status) /\ Finish
  BY <1>1, <1>2, WriteStatusLeft, EndLeft DEF Finish
<1>3. CASE ~objects[req].exists /\ Finish /\ UNCHANGED objects
  <2>1. LeftToOthers(req)
    BY <1>3 DEF LeftToOthers, Ignored
  <2>2. \A f \in Owners : Asleep(f)
    BY <1>1, <1>3, QuietAsleep DEF Finish, jobVars
  <2>. QED BY <1>1, <2>1, <2>2, EndLeft
<1>4. CASE Requeue /\ UNCHANGED objects
  <2>1. req \in queue' /\ queue \subseteq queue'
    BY <1>4 DEF Requeue, Enqueue
  <2>2. \A f \in Owners : Asleep(f)
    BY <1>1, <1>4, <2>1, QuietAsleep DEF jobVars
  <2>. QED BY <1>1, <2>1, <2>2, EndLeft
<1>. QED BY <1>1, <1>2, <1>3, <1>4 DEF PutStatus

LEMMA ApiErrorLeft == ASSUME TypeOK, LeftInv, ApiError PROVE LeftInv'
<1>1. /\ req \in Owners /\ object' = None /\ req \in queue' /\ queue \subseteq queue'
      /\ UNCHANGED <<jobTemplates, jobCache, objects, objectCache>> /\ KeepsEach
  BY SameKeeps DEF ApiError, Requeue, Forget, Enqueue, TypeOK, ClusterTypeOK, KeepsEach, jobVars,
                   objectVars
<1>2. \A f \in Owners : Asleep(f)
  BY <1>1, QuietAsleep
<1>. QED BY <1>1, <1>2, EndLeft

LEMMA LostAnswerLeft ==
    ASSUME TypeOK, LeftInv, Copies, History, LostAnswer PROVE LeftInv'
<1>1. /\ object # None /\ req \in Owners /\ object' = None
      /\ req \in queue' /\ queue \subseteq queue'
      /\ UNCHANGED <<jobTemplates, objectCache>>
  BY SpecType DEF LostAnswer, Requeue, Forget, Enqueue, TypeOK
<1>2. CASE pc = "create" /\ Add(ThisJob, NewJob) /\ UNCHANGED objects
  <2>1. KeepsEach /\ jobCache' = jobCache
    BY <1>1, <1>2, FlowType, AddKeeps DEF KeepsEach, Add, Put, TypeOK
  <2>2. \A f \in Owners : Asleep(f)
    BY <1>1, <1>2, <2>1, QuietAsleep
  <2>. QED BY <1>1, <2>1, <2>2, EndLeft
<1>3. CASE pc = "update" /\ WriteStatus(status) /\ UNCHANGED jobVars
  <2>1. KeepsEach
    BY <1>3, SameKeeps DEF KeepsEach, jobVars
  <2>. QED BY <1>1, <1>3, <2>1, WriteStatusLeft, EndLeft
<1>. QED BY <1>2, <1>3 DEF LostAnswer

LEMMA EnvironmentLeft ==
    ASSUME NamesDiffer, OwnNames, "relist" \notin Disturbances,
           TypeOK, History, VersionsSound(EntryKeys), LeftInv, Environment, Elsewhere
    PROVE  LeftInv'
<1>1. /\ \A f \in Owners : Asleep(f) \/ Awake(f)
      /\ \A k \in JobKeys : Keeps(k) \/ Calls(k)
  BY EnvironmentWakes, EnvironmentKeeps DEF TypeOK
<1>2. \A f \in Owners : KeepsAll(f) \/ Awake(f)
  BY <1>1, KeepsOrWakes
<1>3. UNCHANGED <<req, object, pc, idx, depIdx, flag, jobTemplates>>
  BY EnvironmentKeepsCall DEF Elsewhere, locals
<1>4. \A f \in Owners : LeftToOthers(f) => LeftToOthers(f)'
  BY <1>1, <1>2, LeftToOthersKept
<1>5. ASSUME object # None, Excused \/ Thorough PROVE Excused' \/ Thorough'
  <2>1. req \in Owners
    BY <1>5, SpecType
  <2>2. CASE Awake(req)
    BY <1>3, <2>2 DEF Awake, Excused, Restless
  <2>3. CASE Asleep(req) /\ KeepsAll(req)
    <3>1. Excused => Excused'
      BY <1>3, <2>3 DEF Asleep, Excused, Restless
    <3>2. Thorough => Thorough'
      BY <1>3, <1>5, <2>3, ThoroughKept
    <3>. QED BY <1>5, <3>1, <3>2
  <2>. QED BY <1>1, <1>2, <2>1, <2>2, <2>3
<1>. QED BY <1>3, <1>4, <1>5 DEF LeftInv

(***************************************************************************)
(* When the JobTemplates are there and a Create is not refused, no call    *)
(* ends without either a reason or a retry.                                *)
(***************************************************************************)
NothingMissed == Disturbances \cap {"relist", "badRequest", "editTemplate"} = {}

LEMMA NextLeft ==
    ASSUME NamesDiffer, OwnNames, NothingMissed,
           TypeOK, CurrentInv, VersionsSound(EntryKeys), LeftInv, [Next]_vars
    PROVE  LeftInv'
<1>. USE DEF CurrentInv
<1>1. CASE UNCHANGED vars
  <2>1. UNCHANGED <<jobTemplates, jobCache, objects, objectCache, queue, req, object,
                    jobs, watch, pc, idx, depIdx, flag>>
    BY <1>1 DEF vars, clusterVars, jobVars, objectVars, callVars, locals
  <2>2. KeepsEach
    BY <2>1, SameKeeps DEF KeepsEach
  <2>3. object # None /\ Thorough => Thorough'
    BY <2>1, <2>2, SpecType, EachKeepsAll, ThoroughKept
  <2>4. \A f \in Owners : LeftToOthers(f) => LeftToOthers(f)'
    BY <2>1, <2>2, QuietAsleep, EachKeepsAll, LeftToOthersKept
  <2>. QED BY <2>1, <2>3, <2>4 DEF LeftInv, Excused, Restless
<1>2. ASSUME NEW f \in Owners, Start(f) PROVE LeftInv'
  <2>1. /\ req = None /\ req' = f /\ object = None /\ queue' = queue \ {f}
        /\ UNCHANGED <<jobTemplates, jobCache, objects, objectCache, object>> /\ KeepsEach
    BY <1>2, SameKeeps DEF Start, Dequeue, TypeOK, KeepsEach, jobVars, objectVars
  <2>2. ASSUME NEW g \in Owners, g # f PROVE LeftToOthers(g)'
    <3>1. Asleep(g) /\ LeftToOthers(g)
      BY <2>1, <2>2, QuietAsleep, NoneAssumption DEF LeftInv
    <3>. QED BY <2>1, <3>1, EachKeepsAll, LeftToOthersKept
  <2>. QED BY <2>1, <2>2 DEF LeftInv
<1>3. CASE Worker
  <2>1. CASE GetJob \/ GetDependency
    <3>1. UNCHANGED <<jobTemplates, jobCache, objects, objectCache, queue, req, object>> /\ KeepsEach
      BY <2>1, SameKeeps DEF GetJob, GetDependency, KeepsEach, clusterVars, jobVars, objectVars,
                             callVars
    <3>. QED BY <2>1, <3>1, GetJobThorough, GetDependencyThorough, InCallLeft
  <2>2. CASE CreateJob
    <3>1. UNCHANGED <<jobTemplates, objects, objectCache, queue, req, object>>
      BY <2>2 DEF CreateJob, objectVars, callVars
    <3>. QED BY <2>2, <3>1, CreateJobThorough, InCallLeft
  <2>. QED BY <1>3, <2>1, <2>2, GetJobFlowLeft, PrepareJobLeft, ListJobsLeft, UpdateStatusLeft
           DEF Worker
<1>4. CASE ApiError \/ LostAnswer
  BY <1>4, ApiErrorLeft, LostAnswerLeft
<1>5. CASE CreateBadRequest \/ \E t \in Templates : EditJobTemplate(t)
  BY <1>5 DEF CreateBadRequest, EditJobTemplate, Disturb, NothingMissed
<1>6. CASE Crash
  <2>1. object' = None /\ jobTemplates' = jobTemplates
    BY <1>6 DEF Crash, Restart, Forget
  <2>2. \A f \in Owners : LeftToOthers(f)'
    BY <1>6 DEF Crash, Restart, LeftToOthers, Restless, Ignored
  <2>. QED BY <2>1, <2>2 DEF LeftInv
<1>7. CASE Environment /\ Elsewhere
  BY <1>7, EnvironmentLeft DEF NothingMissed
<1>. QED BY <1>1, <1>2, <1>3, <1>4, <1>5, <1>6, <1>7 DEF Next

(***************************************************************************)
(* When all is quiet and every job has ended, a call that left the loop    *)
(* early has met a failed job: then the JobFlow shows Failed.  This is     *)
(* where spec.completions matters: a Job that may have one pod succeeded   *)
(* and another failed counts as completed, and the verdict stays open.     *)
(***************************************************************************)
AllEnded == \A k \in JobKeys : jobs[k] # None => Ended(jobs[k].status)

LEMMA HaltedFailed ==
    ASSUME NamesDiffer, OneJobEach, SameEntries, OwnNames, Completions = 1,
           TypeOK, VerdictInv, CurrentInv, Quiescent, AllEnded,
           NEW f \in Owners, ~objects[f].deleting, Halted(f)
    PROVE  Ignored(objects[f])
<1> SUFFICES ASSUME ~Ignored(objects[f]) PROVE FALSE
  OBVIOUS
<1> DEFINE l == OwnedList(f)
<1>1. PICK k \in EntryKeys[f] : FailedSeen(k) \/ Unsettled(k)
  BY DEF Halted
<1>2. k \in JobKeys /\ UsedBy(f, k) /\ watch[k] = <<>>
  BY DEF EntryKeys, UsedBy, Quiescent, CacheCurrent
<1>3. ~Unsettled(k)
  <2>1. ~(Len(<<>>) > 1)
    OBVIOUS
  <2>. QED BY <1>2, <2>1 DEF Unsettled, Waking, AllEnded
<1>4. jobCache[k] # None /\ jobCache[k].status.failed = 1
  BY <1>1, <1>3 DEF FailedSeen
<1>5. jobCache[k].owner = f /\ jobCache[k].status \in JobStatus
  BY <1>2, <1>4, CallsOwner DEF VerdictInv, TypeOK, ClusterTypeOK, Version, Job
<1>6. jobCache[k].status.succeeded # 1
  <2>1. Counted(jobCache[k].status)
    BY <1>2, <1>4 DEF VerdictInv, VersionsSound, Sound
  <2>. QED BY <1>4, <1>5, <2>1 DEF Counted, JobStatus
<1>7. l[k] = jobCache[k].status /\ l[k] # None /\ DOMAIN l = JobKeys
  BY <1>2, <1>4, <1>5, NoneAssumption DEF OwnedList
<1>8. k \notin Completed(l) /\ k \in FailedOnes(l)
  BY <1>2, <1>4, <1>6, <1>7 DEF Completed, FailedOnes
<1>9. Completed(l) \in SUBSET EntryKeys[f]
  <2>1. Lists(EntryKeys[f], l)
    BY OwnedListLists DEF VerdictInv, TypeOK
  <2>. QED BY <1>7, <2>1 DEF Completed, Lists
<1>10. objects[f].spec \in Specs[f]
  BY DEF TypeOK, ClusterTypeOK, Object, Live, Gone, Ignored
<1>11. IsFiniteSet(EntryKeys[f]) /\ Cardinality(EntryKeys[f]) = Len(objects[f].spec)
  BY <1>10, EntryCount
<1>12. Cardinality(Completed(l)) # Len(objects[f].spec)
  BY <1>8, <1>9, <1>11, FS_Subset
<1>13. StateOf(objects[f].deleting, Len(objects[f].spec), l) = "Failed"
  BY <1>8, <1>12 DEF StateOf
<1>14. objects[f].status.state = "Failed"
  BY <1>13, CurrentStatus DEF StatusCurrent
<1>. QED BY <1>14 DEF Ignored

LEMMA NoneLeft ==
    ASSUME NamesDiffer, OneJobEach, SameEntries, OwnNames, Completions = 1,
           TypeOK, VerdictInv, CurrentInv, LeftInv
    PROVE  NoneLeftBehind
<1> SUFFICES ASSUME Quiescent, AllEnded, NEW f \in Owners,
                    ~Ignored(objects[f]), ~objects[f].deleting,
                    NEW j \in DOMAIN objects[f].spec, Ready(f, objects[f].spec[j])
             PROVE  Cached(JobName(f, objects[f].spec[j].name))
  BY DEF NoneLeftBehind, AllEnded
<1> DEFINE entry == objects[f].spec[j]
           k == JobName(f, entry.name)
<1>1. objects[f].spec \in Specs[f]
  BY DEF TypeOK, ClusterTypeOK, Object, Live, Gone, Ignored
<1>2. k \in JobKeys
  BY <1>1, JobFlowAssumption
<1>3. req # f /\ ~Restless(f) /\ watch[k] = <<>> /\ jobCache[k] = jobs[k]
  BY <1>2, NoneAssumption DEF Quiescent, CacheCurrent, Restless, CurrentInv, History
<1>4. Handled(f, objects[f].spec) /\ ~Halted(f)
  BY <1>3, HaltedFailed DEF LeftInv, LeftToOthers
<1>5. ~Lacking(f, entry)
  BY DEF Lacking, Ready, Incomplete
<1>6. AtHand(k)
  BY <1>4, <1>5 DEF Handled, Covered
<1>7. ~(Len(<<>>) > 1)
  OBVIOUS
<1>8. jobs[k] # None
  BY <1>3, <1>6, <1>7 DEF AtHand, Waking
<1>. QED BY <1>2, <1>3, <1>8 DEF Cached

(***************************************************************************)
(* No entry is left behind, in whatever order calls, deliveries, pods,     *)
(* conflicting writes, lost answers and restarts come: when all is quiet   *)
(* and every job has ended, each JobFlow that is neither Failed nor being  *)
(* deleted has a job for every entry that could run.  A call may leave the *)
(* loop early (break and BadRequest in deployJobFlow, helper.go), but only *)
(* because of a job whose next change, or whose failure, makes up for it.  *)
(***************************************************************************)
THEOREM NoneLeftBehindHolds ==
    ASSUME NamesDiffer, OneJobEach, SameEntries, OwnNames, Completions = 1, NothingMissed
    PROVE  Spec => []NoneLeftBehind
<1> DEFINE Inv == VerdictInv /\ CurrentInv /\ LeftInv
<1>1. Init => Inv
  <2> SUFFICES ASSUME Init PROVE LeftInv
    BY InitVerdicts, InitCurrent
  <2>1. \A f \in Owners : Ignored(objects[f])
    BY DEF Init, ClusterInit, Never, Absent, Ignored
  <2>. QED BY <2>1 DEF Init, ClusterInit, LeftInv, LeftToOthers
<1>2. TypeOK /\ Inv /\ [Next]_vars => Inv'
  BY NextVerdicts, NextCurrent, NextLeft DEF VerdictInv, NothingMissed
<1>3. TypeOK /\ Inv => NoneLeftBehind
  BY NoneLeft
<1>. HIDE DEF Inv
<1>. QED BY <1>1, <1>2, <1>3, TypeInvariant, PTL DEF Spec
-----------------------------------------------------------------------------
(***************************************************************************)
(* When the promise of README.md is kept: "job2 depends on job1 to         *)
(* complete before starting".  DependencyOrder says that a dependency was  *)
(* seen at succeeded 1; it is still there, and complete, when a Job asks   *)
(* for one pod and nobody removes Jobs or JobFlows.  Edits, broken         *)
(* watches, lost answers and restarts may happen all the same.             *)
(***************************************************************************)
NothingDeleted == Disturbances \cap {"deleteJob", "deleteObject", "foreground"} = {}

(***************************************************************************)
(* Then every object is the first of its name, and so is every copy of it; *)
(* the owner of a Job and the object of a call exist, so that nothing is   *)
(* collected; and a Job that was seen at succeeded 1 stays so.             *)
(***************************************************************************)
First(o) == ~o.deleting /\ o.uid = IF o.exists THEN 1 ELSE 0

OwnersLive ==
    /\ \A f \in Owners :
         /\ First(objects[f]) /\ First(objectCache[f])
         /\ objectCache[f].exists => objects[f].exists
    /\ object # None => First(object) /\ object.exists /\ objects[req].exists
    /\ \A k \in JobKeys :
         jobs[k] # None => jobs[k].uid = 1 /\ objects[jobs[k].owner].exists

StaysComplete ==
    \A k \in JobKeys : <<k, "succeeded">> \in reported =>
       jobs[k] # None /\ jobs[k].status.succeeded = 1

(***************************************************************************)
(* What a step can do: to the Jobs, to the objects, to their cache and to  *)
(* the copy the call holds.                                                *)
(***************************************************************************)
JobsGrow ==
    \/ UNCHANGED <<jobs, reported>>
    \/ \E k \in JobKeys : Pod(k) \/ (object # None /\ Add(k, NewJob))
ObjectsGrow ==
    \A f \in Owners : First(objects'[f]) /\ (objects[f].exists => objects'[f].exists)
CacheCopies == \A f \in Owners : objectCache'[f] \in {objectCache[f], objects[f]}
CallCopies ==
    \/ object' = None
    \/ UNCHANGED <<object, req>>
    \/ object' = objectCache[req] /\ object'.exists /\ req \in Owners /\ req' = req
Grow == JobsGrow /\ ObjectsGrow /\ CacheCopies /\ CallCopies

LEMMA AddChanges ==
    ASSUME TypeOK, NEW k \in JobKeys, Add(k, NewJob)
    PROVE  /\ jobs[k] = None /\ jobs'[k] = NewJob /\ reported' = reported
           /\ \A l \in JobKeys \ {k} : jobs'[l] = jobs[l]
<1>. QED BY DEF Add, Put, TypeOK, ClusterTypeOK

LEMMA PodChanges ==
    ASSUME TypeOK, NEW k \in JobKeys, Pod(k)
    PROVE  /\ jobs[k] # None
           /\ jobs'[k] = [jobs[k] EXCEPT !.status = jobs'[k].status]
           /\ \A l \in JobKeys \ {k} : jobs'[l] = jobs[l]
           /\ reported' \subseteq reported \cup {k} \X {"succeeded", "failed"}
           /\ <<k, "succeeded">> \in reported' \ reported => jobs'[k].status.succeeded = 1
<1>1. PICK s \in JobStatus : SetStatus(k, s)
  BY PodStep DEF TypeOK
<1>2. jobs[k] # None
  BY PodStep DEF TypeOK
<1>3. jobs[k] \in Job /\ jobs \in [JobKeys -> Version]
  BY <1>2 DEF TypeOK, ClusterTypeOK, Version
<1>4. jobs'[k] = [jobs[k] EXCEPT !.status = s] /\ \A l \in JobKeys \ {k} : jobs'[l] = jobs[l]
  BY <1>1, <1>3 DEF SetStatus, Put
<1>5. jobs'[k].status = s
  BY <1>3, <1>4 DEF Job
<1>6. reported' = reported \cup {r \in {k} \X {"succeeded", "failed"} : s[r[2]] = 1}
  BY <1>1 DEF SetStatus
<1>7. <<k, "succeeded">> \in reported' \ reported => s.succeeded = 1
  BY <1>6 DEF JobStatus
<1>. QED BY <1>2, <1>4, <1>5, <1>6, <1>7

LEMMA OwnersLiveKept ==
    ASSUME TypeOK, OwnersLive, Grow PROVE OwnersLive'
<1>1. ASSUME NEW f \in Owners
      PROVE  /\ First(objects'[f]) /\ First(objectCache'[f])
             /\ objectCache'[f].exists => objects'[f].exists
  BY DEF OwnersLive, Grow, ObjectsGrow, CacheCopies
<1>2. ASSUME object' # None
      PROVE  First(object') /\ object'.exists /\ objects'[req'].exists
  <2>1. req \in Owners
    BY <1>2, NoneAssumption DEF Grow, CallCopies, TypeOK, ClusterTypeOK
  <2>. QED BY <1>2, <2>1 DEF OwnersLive, Grow, ObjectsGrow, CallCopies
<1>3. ASSUME NEW k \in JobKeys, jobs'[k] # None
      PROVE  jobs'[k].uid = 1 /\ objects'[jobs'[k].owner].exists
  <2>1. CASE jobs'[k] = jobs[k]
    <3>1. jobs[k].owner \in Owners
      BY <1>3, <2>1 DEF TypeOK, ClusterTypeOK, Version, Job
    <3>. QED BY <1>3, <2>1, <3>1 DEF OwnersLive, Grow, ObjectsGrow
  <2>2. CASE Pod(k)
    <3>1. jobs[k] \in Job
      BY <2>2, PodChanges DEF TypeOK, ClusterTypeOK, Version
    <3>2. jobs'[k].uid = jobs[k].uid /\ jobs'[k].owner = jobs[k].owner /\ jobs[k].owner \in Owners
      BY <2>2, <3>1, PodChanges DEF Job
    <3>. QED BY <2>2, <3>2, PodChanges DEF OwnersLive, Grow, ObjectsGrow
  <2>3. CASE object # None /\ jobs'[k] = NewJob
    <3>1. req \in Owners /\ object.exists
      BY <2>3, SpecType DEF OwnersLive
    <3>2. jobs'[k].uid = object.uid /\ jobs'[k].owner = req
      BY <2>3 DEF NewJob
    <3>. QED BY <2>3, <3>1, <3>2 DEF OwnersLive, First, Grow, ObjectsGrow
  <2>. QED BY <2>1, <2>2, <2>3, PodChanges, AddChanges DEF Grow, JobsGrow
<1>. QED BY <1>1, <1>2, <1>3 DEF OwnersLive

(***************************************************************************)
(* A Job that asks for one pod and has seen it succeed starts no other.    *)
(***************************************************************************)
LEMMA CompleteRests ==
    ASSUME Completions = 1, TypeOK, VersionsSound(EntryKeys), NEW k \in JobKeys,
           jobs[k] # None, jobs[k].status.succeeded = 1
    PROVE  ~Pod(k)
<1> DEFINE s == jobs[k].status
<1>1. s.active \in Nat /\ s.succeeded \in Nat /\ s.failed \in Nat
  BY DEF TypeOK, ClusterTypeOK, Version, Job, JobStatus
<1>2. s.active = 0
  <2>1. Counted(s)
    BY DEF VersionsSound, Sound
  <2>. QED BY <1>1, <2>1 DEF Counted
<1>. QED BY <1>1, <1>2 DEF Pod, PodStarts, PodSucceeds, PodFails

LEMMA StaysCompleteKept ==
    ASSUME Completions = 1, TypeOK, VersionsSound(EntryKeys), StaysComplete, JobsGrow
    PROVE  StaysComplete'
<1> SUFFICES ASSUME NEW l \in JobKeys, <<l, "succeeded">> \in reported'
             PROVE  jobs'[l] # None /\ jobs'[l].status.succeeded = 1
  BY DEF StaysComplete
<1>1. CASE UNCHANGED <<jobs, reported>>
  BY <1>1 DEF StaysComplete
<1>2. ASSUME NEW k \in JobKeys, Add(k, NewJob)
      PROVE  jobs'[l] # None /\ jobs'[l].status.succeeded = 1
  BY <1>2, AddChanges DEF StaysComplete
<1>3. ASSUME NEW k \in JobKeys, Pod(k)
      PROVE  jobs'[l] # None /\ jobs'[l].status.succeeded = 1
  <2>1. CASE l # k
    <3>1. <<l, "succeeded">> \in reported
      BY <1>3, <2>1, PodChanges
    <3>. QED BY <1>3, <2>1, <3>1, PodChanges DEF StaysComplete
  <2>2. CASE l = k
    <3>1. <<k, "succeeded">> \notin reported
      BY <1>3, CompleteRests DEF StaysComplete
    <3>2. jobs'[k].status.succeeded = 1
      BY <1>3, <2>2, <3>1, PodChanges
    <3>3. jobs'[k] # None
      <4>1. jobs[k] \in Job
        BY <1>3, PodChanges DEF TypeOK, ClusterTypeOK, Version
      <4>2. PICK s \in JobStatus : SetStatus(k, s)
        BY <1>3, PodStep DEF TypeOK
      <4>3. jobs'[k] = [jobs[k] EXCEPT !.status = s]
        BY <4>2 DEF SetStatus, Put, TypeOK, ClusterTypeOK
      <4>4. [jobs[k] EXCEPT !.status = s] \in Job
        BY <4>1 DEF Job
      <4>. QED BY <4>3, <4>4, NoneAssumption
    <3>. QED BY <2>2, <3>2, <3>3
  <2>. QED BY <2>1, <2>2
<1>. QED BY <1>1, <1>2, <1>3 DEF JobsGrow

(***************************************************************************)
(* Every step only grows the cluster.                                      *)
(***************************************************************************)
LEMMA StoreGrows ==
    ASSUME TypeOK, OwnersLive, NEW f \in Owners, NEW new \in Object(f), Store(f, new),
           First(new), objects[f].exists => new.exists
    PROVE  ObjectsGrow
<1>1. /\ [new EXCEPT !.rv = NewToken(f)].exists = new.exists
      /\ [new EXCEPT !.rv = NewToken(f)].deleting = new.deleting
      /\ [new EXCEPT !.rv = NewToken(f)].uid = new.uid
  BY DEF Object, Live, Gone
<1>2. /\ objects'[f] = [new EXCEPT !.rv = NewToken(f)]
      /\ \A g \in Owners \ {f} : objects'[g] = objects[g]
  BY DEF Store, TypeOK, ClusterTypeOK
<1>3. First(objects'[f]) /\ (objects[f].exists => objects'[f].exists)
  BY <1>1, <1>2 DEF First
<1>4. ASSUME NEW g \in Owners, g # f
      PROVE  First(objects'[g]) /\ (objects[g].exists => objects'[g].exists)
  <2>1. objects'[g] = objects[g]
    BY <1>2, <1>4
  <2>. QED BY <2>1 DEF OwnersLive
<1>. QED BY <1>3, <1>4 DEF ObjectsGrow

LEMMA ChangeGrows ==
    ASSUME NothingDeleted, TypeOK, OwnersLive, NEW f \in Owners, Change(f)
    PROVE  ObjectsGrow
<1>1. First(objects[f])
  BY DEF OwnersLive
<1>2. CASE CreateObject(f)
  <2>1. PICK s \in Specs[f] :
          Edit(f, [objects[f] EXCEPT !.exists = TRUE, !.uid = @ + 1, !.spec = s])
    BY <1>2 DEF CreateObject
  <2>2. objects[f] \in Gone /\ objects[f].uid = 0
    BY <1>1, <1>2 DEF First, CreateObject, TypeOK, ClusterTypeOK, Object, Live
  <2> DEFINE new == [objects[f] EXCEPT !.exists = TRUE, !.uid = @ + 1, !.spec = s]
  <2>3. new \in Object(f)
    BY <2>2, CreatedType DEF Object
  <2>4. new.exists /\ new.uid = objects[f].uid + 1 /\ ~new.deleting
    BY <2>2 DEF Gone
  <2>5. new.uid = 1
    BY <2>2, <2>4
  <2>. QED BY <2>1, <2>3, <2>4, <2>5, StoreGrows DEF Edit, First
<1>3. CASE EditObject(f)
  <2>1. PICK s \in Specs[f] : Edit(f, [objects[f] EXCEPT !.spec = s])
    BY <1>3 DEF EditObject
  <2>2. objects[f] \in Live(f)
    BY <1>3 DEF EditObject, TypeOK, ClusterTypeOK, Object, Gone
  <2> DEFINE new == [objects[f] EXCEPT !.spec = s]
  <2>3. /\ new \in Object(f) /\ new.exists = objects[f].exists
        /\ new.uid = objects[f].uid /\ new.deleting = objects[f].deleting
    BY <2>2 DEF Object, Live
  <2>. QED BY <1>1, <2>1, <2>3, StoreGrows DEF Edit, First
<1>4. ASSUME DeleteObject(f) \/ DeleteInForeground(f) \/ Finalize(f) PROVE FALSE
  BY <1>1, <1>4 DEF DeleteObject, DeleteInForeground, Finalize, Disturb, NothingDeleted, First
<1>. QED BY <1>2, <1>3, <1>4 DEF Change

LEMMA WriteStatusGrows ==
    ASSUME TypeOK, OwnersLive, object # None, NEW s \in Status, WriteStatus(s)
    PROVE  ObjectsGrow
<1>1. req \in Owners /\ objects[req] \in Live(req) /\ First(objects[req])
  BY SpecType DEF WriteStatus, OwnersLive, TypeOK, ClusterTypeOK, Object, Gone
<1> DEFINE new == [objects[req] EXCEPT !.status = s]
<1>2. /\ new \in Object(req) /\ new.exists = objects[req].exists
      /\ new.uid = objects[req].uid /\ new.deleting = objects[req].deleting
  BY <1>1 DEF Live, Object
<1>3. CASE Store(req, new)
  BY <1>1, <1>2, <1>3, StoreGrows DEF First
<1>4. CASE UNCHANGED objects
  BY <1>4 DEF ObjectsGrow, OwnersLive
<1>. QED BY <1>3, <1>4 DEF WriteStatus

LEMMA NothingCollected ==
    ASSUME NothingDeleted, TypeOK, OwnersLive, NEW k \in JobKeys
    PROVE  ~DeleteJob(k) /\ ~CollectJob(k)
<1>1. ~DeleteJob(k)
  BY DEF DeleteJob, Disturb, NothingDeleted
<1>2. ASSUME CollectJob(k) PROVE FALSE
  <2>1. jobs[k] # None
    BY <1>2 DEF CollectJob, Remove
  <2>2. jobs[k].owner \in Owners
    BY <2>1 DEF TypeOK, ClusterTypeOK, Version, Job
  <2>. QED BY <1>2, <2>1, <2>2 DEF CollectJob, Orphan, OwnersLive, First
<1>. QED BY <1>1, <1>2

LEMMA EnvironmentGrows ==
    ASSUME NothingDeleted, TypeOK, OwnersLive, Environment PROVE Grow
<1>1. CallCopies
  BY EnvironmentKeepsCall DEF CallCopies
<1>2. ASSUME UNCHANGED objects PROVE ObjectsGrow
  BY <1>2 DEF ObjectsGrow, OwnersLive
<1>3. ASSUME NEW k \in JobKeys, Pod(k) PROVE Grow
  BY <1>1, <1>2, <1>3 DEF Pod, objectVars, Grow, JobsGrow, CacheCopies
<1>4. ASSUME Relist \/ (\E k \in JobKeys : DeliverJob(k)) PROVE Grow
  <2>1. UNCHANGED <<jobs, reported, objects, objectCache>>
    BY <1>4 DEF Relist, DeliverJob, OnCreateJob, OnUpdateJob, OnDeleteJob, Observe, objectVars
  <2>. QED BY <1>1, <1>2, <2>1 DEF Grow, JobsGrow, CacheCopies
<1>5. ASSUME NEW f \in Owners, OnObject(f) PROVE Grow
  <2>1. UNCHANGED <<jobs, reported, objects>>
    BY <1>5 DEF OnObject, jobVars
  <2>2. CacheCopies
    BY <1>5 DEF OnObject, CacheCopies, TypeOK, ClusterTypeOK
  <2>. QED BY <1>1, <1>2, <2>1, <2>2 DEF Grow, JobsGrow
<1>6. ASSUME NEW f \in Owners, Change(f) PROVE Grow
  <2>1. UNCHANGED <<jobs, reported, objectCache>>
    BY <1>6, ChangeIsEdit DEF TypeOK, Edit, jobVars
  <2>. QED BY <1>1, <1>6, <2>1, ChangeGrows DEF Grow, JobsGrow, CacheCopies
<1>. QED BY <1>3, <1>4, <1>5, <1>6, NothingCollected DEF Environment, Change

LEMMA NextGrows ==
    ASSUME NothingDeleted, TypeOK, OwnersLive, [Next]_vars PROVE Grow
<1>1. ASSUME UNCHANGED <<jobs, reported, objects>>,
             CacheCopies, CallCopies
      PROVE  Grow
  BY <1>1 DEF Grow, JobsGrow, ObjectsGrow, OwnersLive
<1>2. CASE UNCHANGED vars
  BY <1>1, <1>2 DEF vars, clusterVars, jobVars, objectVars, callVars, CacheCopies, CallCopies
<1>3. CASE (\E f \in Owners : Start(f)) \/ ApiError \/ CreateBadRequest
           \/ \E t \in Templates : EditJobTemplate(t)
  <2>1. UNCHANGED <<jobs, reported, objects, objectCache>>
    BY <1>3 DEF Start, Dequeue, ApiError, CreateBadRequest, EditJobTemplate, jobVars, objectVars
  <2>2. CallCopies
    <3>1. CASE \E f \in Owners : Start(f)
      <4>1. object = None /\ object' = object
        BY <3>1 DEF Start, Dequeue, TypeOK, ClusterTypeOK
      <4>. QED BY <4>1 DEF CallCopies
    <3>. QED BY <1>3, <3>1 DEF ApiError, Requeue, Forget, CreateBadRequest, EditJobTemplate,
                               callVars, CallCopies
  <2>. QED BY <1>1, <2>1, <2>2 DEF CacheCopies
<1>4. CASE Crash
  <2>1. CacheCopies /\ CallCopies
    BY <1>4 DEF Crash, Restart, Forget, CacheCopies, CallCopies
  <2>. QED BY <1>1, <1>4, <2>1 DEF Crash, Restart
<1>5. CASE GetJobFlow
  <2>1. UNCHANGED <<jobs, reported, objects, objectCache>>
    BY <1>5 DEF GetJobFlow, jobVars, objectVars
  <2>2. CallCopies
    <3>1. req \in Owners
      BY <1>5 DEF GetJobFlow, TypeOK, ClusterTypeOK
    <3>. QED BY <1>5, <3>1 DEF GetJobFlow, Finish, Forget, Ignored, CallCopies
  <2>. QED BY <1>1, <2>1, <2>2 DEF CacheCopies
<1>6. CASE PrepareJob \/ GetJob \/ GetDependency \/ ListJobs
  BY <1>1, <1>6 DEF PrepareJob, GetJob, GetDependency, ListJobs, clusterVars, jobVars,
                    objectVars, callVars, CacheCopies, CallCopies
<1>7. ASSUME pc = "create", Add(ThisJob, NewJob), UNCHANGED <<objects, objectCache>>, CallCopies
      PROVE  Grow
  <2>1. ThisJob \in JobKeys /\ object # None
    BY <1>7, FlowType
  <2>. QED BY <1>7, <2>1 DEF Grow, JobsGrow, ObjectsGrow, CacheCopies, OwnersLive
<1>8. CASE CreateJob
  <2>1. CallCopies /\ pc = "create" /\ UNCHANGED <<objects, objectCache>>
    BY <1>8 DEF CreateJob, callVars, objectVars, CallCopies
  <2>. QED BY <1>1, <1>7, <1>8, <2>1 DEF CreateJob, jobVars, CacheCopies
<1>9. ASSUME pc = "update", WriteStatus(status), UNCHANGED <<jobs, reported, objectCache>>,
             CallCopies
      PROVE  Grow
  <2>1. object # None /\ status \in Status
    BY <1>9 DEF TypeOK
  <2>. QED BY <1>9, <2>1, WriteStatusGrows DEF Grow, JobsGrow, CacheCopies
<1>10. CASE UpdateStatus
  <2>1. CallCopies /\ pc = "update" /\ UNCHANGED <<jobs, reported, objectCache>>
    BY <1>10 DEF UpdateStatus, PutStatus, Finish, Requeue, Forget, jobVars, CallCopies
  <2>. QED BY <1>1, <1>9, <1>10, <2>1 DEF UpdateStatus, PutStatus, CacheCopies
<1>11. CASE LostAnswer
  <2>1. CallCopies /\ objectCache' = objectCache
    BY <1>11 DEF LostAnswer, Requeue, Forget, CallCopies
  <2>. QED BY <1>7, <1>9, <1>11, <2>1 DEF LostAnswer, jobVars
<1>12. CASE Environment /\ Elsewhere
  BY <1>12, EnvironmentGrows
<1>. QED BY <1>2, <1>3, <1>4, <1>5, <1>6, <1>8, <1>10, <1>11, <1>12 DEF Next, Worker

(***************************************************************************)
(* Together: a Job that appears is that of one entry only, and the jobs    *)
(* this entry depends on were seen at succeeded 1, so they still are.      *)
(***************************************************************************)
CompleteInv == VersionsSound(EntryKeys) /\ DependenciesSeen /\ OwnersLive /\ StaysComplete

AppearsComplete ==
    \A k \in JobKeys : jobs[k] = None /\ jobs'[k] # None =>
       \A j \in DOMAIN object.spec : k = JobName(req, object.spec[j].name) =>
          \A d \in DOMAIN object.spec[j].deps :
             LET dependency == jobs[JobName(req, object.spec[j].deps[d])] IN
             dependency # None => dependency.status.succeeded = Completions

LEMMA NextComplete ==
    ASSUME OneJobEach, Completions = 1, NothingDeleted, TypeOK, CompleteInv, [Next]_vars
    PROVE  CompleteInv' /\ [AppearsComplete]_vars
<1>1. VersionsSound(EntryKeys)' /\ DependenciesSeen' /\ [StartsInOrder]_vars
  BY NextOrder DEF CompleteInv
<1>2. Grow
  BY NextGrows DEF CompleteInv
<1>3. OwnersLive' /\ StaysComplete'
  BY <1>2, OwnersLiveKept, StaysCompleteKept DEF CompleteInv, Grow
<1>4. ASSUME ~UNCHANGED vars, NEW k \in JobKeys, jobs[k] = None, jobs'[k] # None,
             NEW j \in DOMAIN object.spec, k = JobName(req, object.spec[j].name),
             NEW d \in DOMAIN object.spec[j].deps
      PROVE  jobs[JobName(req, object.spec[j].deps[d])].status.succeeded = Completions
  <2>1. object # None
    BY <1>2, <1>4, PodChanges, AddChanges DEF Grow, JobsGrow
  <2>2. object.spec \in Specs[req] /\ object.spec \in Seq(Flow) /\ req \in Owners
    BY <2>1, SpecType
  <2>3. PICK i \in DOMAIN object.spec :
          /\ k = JobName(req, object.spec[i].name)
          /\ \A e \in DOMAIN object.spec[i].deps :
               <<JobName(req, object.spec[i].deps[e]), "succeeded">> \in reported
    BY <1>1, <1>4 DEF StartsInOrder
  <2>4. object.spec[i].name \in Seq(STRING) /\ object.spec[j].name \in Seq(STRING)
    <3>1. object.spec[i] \in Flow /\ object.spec[j] \in Flow
      BY <1>4, <2>2, <2>3
    <3>. QED BY <3>1 DEF Flow
  <2>5. i = j
    <3>1. object.spec[i].name = object.spec[j].name
      BY <1>4, <2>2, <2>3, <2>4, JobNamesDiffer
    <3>. QED BY <1>4, <2>2, <2>3, <3>1 DEF OneJobEach
  <2> DEFINE dependency == JobName(req, object.spec[j].deps[d])
  <2>6. <<dependency, "succeeded">> \in reported
    BY <1>4, <2>3, <2>5
  <2>7. dependency \in JobKeys
    BY <2>6 DEF TypeOK, ClusterTypeOK
  <2>. QED BY <2>6, <2>7 DEF CompleteInv, StaysComplete
<1>5. [AppearsComplete]_vars
  BY <1>4 DEF AppearsComplete
<1>. QED BY <1>1, <1>3, <1>5 DEF CompleteInv

(***************************************************************************)
(* When a job appears, every job it depends on is complete, whatever the   *)
(* caches missed and however often the call was repeated: README.md is     *)
(* right about jobs that ask for one pod and that nobody removes           *)
(* (deployJobFlow, helper.go).  Jobs of two completions refute it.         *)
(***************************************************************************)
THEOREM DependenciesCompleteHolds ==
    ASSUME OneJobEach, Completions = 1, NothingDeleted
    PROVE  Spec => DependenciesComplete
<1>1. Init => CompleteInv
  <2> SUFFICES ASSUME Init PROVE OwnersLive /\ StaysComplete
    <3>1. Init => VersionsSound(EntryKeys) /\ DependenciesSeen
      BY DEF Init, ClusterInit, VersionsSound, Sound, DependenciesSeen
    <3>. QED BY <3>1 DEF CompleteInv
  <2>. QED BY DEF Init, ClusterInit, OwnersLive, StaysComplete, First, Never, Absent
<1>2. TypeOK /\ CompleteInv /\ [Next]_vars => CompleteInv' /\ [AppearsComplete]_vars
  BY NextComplete
<1>. QED BY <1>1, <1>2, TypeInvariant, PTL DEF Spec, DependenciesComplete, AppearsComplete
=============================================================================
