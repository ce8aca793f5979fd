--------------------------- MODULE DaemonJobProofs ---------------------------
(***************************************************************************)
(* What the DaemonJob controller guarantees for every cluster, every set   *)
(* of DaemonJobs and nodes, and every bound.                               *)
(***************************************************************************)
EXTENDS DaemonJob, ClusterProofs

LEMMA LeaveType ==
    ASSUME TypeOK, ClusterTypeOK', nodes' = nodes, req' = None, object' = None, Leave
    PROVE  TypeOK'
<1>. QED BY DEF TypeOK, Leave, PCs

LEMMA IterateType ==
    ASSUME TypeOK, ClusterTypeOK', UNCHANGED <<nodes, req, object>>,
           pc \in {"nodes", "lookup"}, NEW left \in SUBSET Nodes, Iterate(left)
    PROVE  TypeOK'
<1>1. /\ rest' = left /\ pc' \in {"list", "lookup"}
      /\ pc' = "lookup" <=> left # {}
      /\ node' = None /\ list' = NoStatus.list
  BY DEF Iterate, TypeOK
<1>2. IF pc' = "lookup" THEN rest' \in (SUBSET Nodes) \ {{}} ELSE rest' = {}
  BY <1>1
<1>3. req # None /\ object # None
  BY DEF TypeOK
<1>. QED BY <1>1, <1>2, <1>3 DEF TypeOK, PCs

LEMMA ComputedStatusType ==
    ASSUME TypeOK, pc = "update" PROVE object # None /\ ComputedStatus \in Status
<1>1. StateOf(object.deleting, Cardinality(Wanted(object)), list) \in States
  BY DEF StateOf, States
<1>. QED BY <1>1 DEF TypeOK, ComputedStatus, Status

(***************************************************************************)
(* The steps of the worker, one by one.                                    *)
(***************************************************************************)
LEMMA StartType == ASSUME TypeOK, NEW d \in Owners, Start(d) PROVE TypeOK'
<1>1. ClusterTypeOK'
  BY DEF TypeOK, Start, Dequeue, ClusterTypeOK, jobVars, objectVars
<1>2. d # None
  BY NoneAssumption
<1>. QED BY <1>1, <1>2 DEF TypeOK, Start, Dequeue, PCs

LEMMA GetDaemonJobType == ASSUME TypeOK, GetDaemonJob PROVE TypeOK'
<1> DEFINE d == objectCache[req]
<1>1. req \in Owners /\ pc = "get"
  BY DEF TypeOK, GetDaemonJob, ClusterTypeOK
<1>2. CASE Finish /\ Leave
  <2>1. ClusterTypeOK'
    BY <1>2 DEF TypeOK, GetDaemonJob, Finish, Forget, ClusterTypeOK, jobVars, objectVars
  <2>. QED BY <1>2, <2>1, LeaveType DEF GetDaemonJob, Finish, Forget
<1>3. CASE /\ ~Ignored(d) /\ object' = d /\ pc' = "nodes"
           /\ UNCHANGED <<queue, req, rest, node, list>>
  <2>1. d \in Live(req)
    BY <1>1, <1>3 DEF Ignored, TypeOK, ClusterTypeOK, Object, Gone
  <2>2. d # None
    BY <1>1, <2>1, NoneAssumption DEF Object
  <2>3. ClusterTypeOK'
    BY <1>1, <1>3, <2>1 DEF TypeOK, GetDaemonJob, ClusterTypeOK, jobVars, objectVars
  <2>. QED BY <1>1, <1>3, <2>2, <2>3 DEF TypeOK, GetDaemonJob, PCs
<1>. QED BY <1>2, <1>3 DEF GetDaemonJob

LEMMA ListNodesType == ASSUME TypeOK, ListNodes PROVE TypeOK'
<1>1. ClusterTypeOK' /\ UNCHANGED <<nodes, req, object>>
  BY DEF TypeOK, ListNodes, ClusterTypeOK, clusterVars, jobVars, objectVars, callVars
<1>2. Wanted(object) \in SUBSET Nodes
  BY DEF TypeOK, Wanted
<1>. QED BY <1>1, <1>2, IterateType DEF ListNodes

LEMMA GetJobType == ASSUME TypeOK, GetJob PROVE TypeOK'
<1>1. ClusterTypeOK' /\ UNCHANGED <<nodes, req, object>>
  BY DEF TypeOK, GetJob, ClusterTypeOK, clusterVars, jobVars, objectVars, callVars
<1>2. PICK n \in rest : \/ Iterate(rest \ {n})
                        \/ pc' = "create" /\ node' = n /\ rest' = {} /\ UNCHANGED list
  BY DEF GetJob
<1>3. rest \in SUBSET Nodes
  BY DEF TypeOK, GetJob
<1>4. CASE Iterate(rest \ {n})
  BY <1>1, <1>3, <1>4, IterateType DEF GetJob
<1>5. CASE pc' = "create" /\ node' = n /\ rest' = {} /\ UNCHANGED list
  BY <1>1, <1>3, <1>5 DEF TypeOK, GetJob, PCs
<1>. QED BY <1>2, <1>4, <1>5

LEMMA NodeType ==
    ASSUME TypeOK, pc = "create" PROVE object # None /\ JobName(req, node) \in JobKeys
<1>1. req \in Owners /\ node \in Nodes /\ object # None
  BY NoneAssumption DEF TypeOK, ClusterTypeOK
<1>. QED BY <1>1, DaemonJobAssumption

LEMMA CreateJobType == ASSUME TypeOK, CreateJob PROVE TypeOK'
<1>1. object # None /\ JobName(req, node) \in JobKeys
  BY NodeType DEF CreateJob
<1>2. ClusterTypeOK' /\ UNCHANGED <<nodes, req, object>>
  <2>1. CASE MakeJob
    BY <1>1, <2>1, AddType DEF CreateJob, MakeJob, TypeOK, ClusterTypeOK, objectVars, callVars
  <2>2. CASE UNCHANGED jobVars
    BY <2>2 DEF CreateJob, TypeOK, ClusterTypeOK, jobVars, objectVars, callVars
  <2>. QED BY <2>1, <2>2 DEF CreateJob
<1>. QED BY <1>2 DEF TypeOK, CreateJob, PCs

LEMMA ListJobsType == ASSUME TypeOK, ListJobs PROVE TypeOK'
<1>1. ClusterTypeOK' /\ UNCHANGED <<nodes, req, object>>
  BY DEF TypeOK, ListJobs, ClusterTypeOK, clusterVars, jobVars, objectVars, callVars
<1>2. req \in Owners
  BY NoneAssumption DEF TypeOK, ClusterTypeOK, ListJobs
<1>3. list' \in List
  BY <1>2, StatusType DEF TypeOK, ListJobs
<1>. QED BY <1>1, <1>3 DEF TypeOK, ListJobs, PCs

LEMMA UpdateStatusType == ASSUME TypeOK, UpdateStatus PROVE TypeOK'
<1>1. object # None /\ ComputedStatus \in Status
  BY ComputedStatusType DEF UpdateStatus
<1>2. ClusterTypeOK' /\ req' = None /\ object' = None
  BY <1>1, PutStatusType DEF TypeOK, UpdateStatus
<1>. QED BY <1>2, LeaveType DEF UpdateStatus

(***************************************************************************)
(* The failures.                                                           *)
(***************************************************************************)
LEMMA ApiErrorType == ASSUME TypeOK, ApiError PROVE TypeOK'
<1>1. budget' \in 0 .. MaxDisturbances
  BY DisturbType DEF TypeOK, ApiError
<1>2. req \in Owners
  BY DEF TypeOK, ClusterTypeOK, ApiError
<1>3. ClusterTypeOK' /\ req' = None /\ object' = None
  BY <1>1, <1>2 DEF TypeOK, ApiError, Requeue, Forget, Enqueue, ClusterTypeOK, jobVars, objectVars
<1>. QED BY <1>3, LeaveType DEF ApiError

LEMMA LostAnswerType == ASSUME TypeOK, LostAnswer PROVE TypeOK'
<1>1. budget' \in 0 .. MaxDisturbances
  BY DisturbType DEF TypeOK, LostAnswer
<1>2. object # None /\ req \in Owners
  BY NoneAssumption DEF TypeOK, ClusterTypeOK, LostAnswer
<1>3. /\ jobs' \in [JobKeys -> Version]
      /\ watch' \in [JobKeys -> Seq(Version)]
      /\ jobCache' \in [JobKeys -> Version]
      /\ reported' = reported
  <2>1. CASE pc = "create" /\ MakeJob
    BY <1>2, <2>1, NodeType, AddType DEF TypeOK, MakeJob
  <2>2. CASE UNCHANGED jobVars
    BY <2>2 DEF jobVars, TypeOK, ClusterTypeOK
  <2>. QED BY <2>1, <2>2 DEF LostAnswer
<1>4. DOMAIN objects' = Owners /\ \A o \in Owners : objects'[o] \in Object(o)
  <2>1. CASE UNCHANGED objects
    BY <2>1 DEF TypeOK, ClusterTypeOK
  <2>2. CASE pc = "update" /\ WriteStatus(ComputedStatus)
    BY <1>2, <2>2, ComputedStatusType, WriteStatusType DEF TypeOK
  <2>. QED BY <2>1, <2>2 DEF LostAnswer
<1>5. ClusterTypeOK' /\ req' = None /\ object' = None
  BY <1>1, <1>2, <1>3, <1>4 DEF TypeOK, LostAnswer, Requeue, Forget, Enqueue, ClusterTypeOK
<1>. QED BY <1>5, LeaveType DEF LostAnswer

(***************************************************************************)
(* The locals of Reconcile and everything around it stay well formed: no   *)
(* call carries a node or a list over into the next one                    *)
(* (deployDaemonJob, daemonjob_controller.go).                             *)
(***************************************************************************)
THEOREM TypeInvariant == Spec => []TypeOK
<1>1. Init => TypeOK
  BY ClusterInitType DEF Init, ClusterInit, TypeOK, PCs
<1>2. TypeOK /\ [Next]_vars => TypeOK'
  <2> SUFFICES ASSUME TypeOK, [Next]_vars PROVE TypeOK'
    OBVIOUS
  <2>1. CASE UNCHANGED vars
    BY <2>1 DEF vars, locals, clusterVars, jobVars, objectVars, callVars, TypeOK, ClusterTypeOK
  <2>2. CASE \E d \in Owners : Start(d)
    BY <2>2, StartType
  <2>3. CASE Worker
    BY <2>3, GetDaemonJobType, ListNodesType, GetJobType, CreateJobType, ListJobsType,
       UpdateStatusType DEF Worker
  <2>4. CASE ApiError \/ LostAnswer
    BY <2>4, ApiErrorType, LostAnswerType
  <2>5. CASE Crash
    BY <2>5, RestartType, LeaveType DEF Crash, TypeOK
  <2>6. ASSUME NEW n \in Nodes, EditNode(n) PROVE TypeOK'
    <3>1. budget' \in 0 .. MaxDisturbances
      BY <2>6, DisturbType DEF EditNode, TypeOK
    <3>. QED BY <2>6, <3>1 DEF EditNode, TypeOK, ClusterTypeOK, jobVars, objectVars, callVars,
                               locals
  <2>7. CASE Environment /\ Elsewhere
    <3>1. ClusterTypeOK' /\ UNCHANGED <<req, object>>
      BY <2>7, EnvironmentType, EnvironmentKeepsCall DEF TypeOK
    <3>. QED BY <2>7, <3>1 DEF TypeOK, Elsewhere, locals
  <2>. QED BY <2>1, <2>2, <2>3, <2>4, <2>5, <2>6, <2>7 DEF Next
<1>. QED BY <1>1, <1>2, PTL DEF Spec
-----------------------------------------------------------------------------
(***************************************************************************)
(* Failed is final: Copies is inductive for this controller too.           *)
(***************************************************************************)
LEMMA WorkerCopies ==
    ASSUME TypeOK, Copies, Worker PROVE Copies' /\ (objects' = objects \/ FailedStays)
<1>. USE DEF TypeOK
<1>1. CASE GetDaemonJob
  <2>1. CASE Finish
    BY <1>1, <2>1, KeepCopies DEF GetDaemonJob, Finish, Forget, objectVars, KeepsCopy
  <2>2. CASE ~Ignored(objectCache[req]) /\ object' = objectCache[req] /\ req' = req
    <3>1. req \in Owners
      BY <1>1 DEF GetDaemonJob, ClusterTypeOK
    <3>. QED BY <1>1, <2>2, <3>1, ReadCopies DEF GetDaemonJob, objectVars
  <2>. QED BY <1>1, <2>1, <2>2 DEF GetDaemonJob
<1>2. CASE ListNodes \/ GetJob \/ CreateJob \/ ListJobs
  <2>1. UNCHANGED <<objects, objectCache, req, object>>
    BY <1>2 DEF ListNodes, GetJob, CreateJob, ListJobs, clusterVars, objectVars, callVars
  <2>. QED BY <2>1, KeepCopies DEF KeepsCopy
<1>3. CASE UpdateStatus
  <2>1. object # None /\ ComputedStatus \in Status
    BY <1>3, ComputedStatusType DEF UpdateStatus
  <2>. QED BY <1>3, <2>1, PutStatusCopies DEF UpdateStatus
<1>. QED BY <1>1, <1>2, <1>3 DEF Worker

LEMMA NextCopies ==
    ASSUME TypeOK, Copies, [Next]_vars PROVE Copies' /\ (objects' = objects \/ FailedStays)
<1>1. CASE UNCHANGED vars
  BY <1>1, KeepCopies DEF vars, clusterVars, objectVars, callVars, KeepsCopy
<1>2. ASSUME NEW d \in Owners, Start(d) PROVE Copies' /\ objects' = objects
  <2>1. req = None /\ object = None
    BY <1>2 DEF Start, Dequeue, TypeOK
  <2>. QED BY <1>2, <2>1 DEF Start, Dequeue, Copies, objectVars
<1>3. CASE Worker
  BY <1>3, WorkerCopies
<1>4. CASE ApiError \/ Crash
  BY <1>4, KeepCopies, RestartCopies
  DEF ApiError, Crash, Requeue, Forget, objectVars, KeepsCopy, TypeOK
<1>5. CASE LostAnswer
  <2>1. KeepsCopy /\ objectCache' = objectCache
    BY <1>5 DEF LostAnswer, Requeue, Forget, KeepsCopy
  <2>2. CASE UNCHANGED objects
    BY <2>1, <2>2, KeepCopies
  <2>3. CASE pc = "update" /\ WriteStatus(ComputedStatus)
    BY <2>1, <2>3, ComputedStatusType, WriteStatusCopies DEF TypeOK
  <2>. QED BY <1>5, <2>2, <2>3 DEF LostAnswer
<1>6. ASSUME NEW n \in Nodes, EditNode(n) PROVE Copies' /\ objects' = objects
  BY <1>6, KeepCopies DEF EditNode, objectVars, callVars, KeepsCopy
<1>7. CASE Environment /\ Elsewhere
  BY <1>7, EnvironmentCopies DEF TypeOK
<1>. QED BY <1>1, <1>2, <1>3, <1>4, <1>5, <1>6, <1>7 DEF Next

(***************************************************************************)
(* Failed is final for the DaemonJob controller, however old the copy is   *)
(* that a call works with (Reconcile and updateJobFlowStatus,              *)
(* daemonjob_controller.go).                                               *)
(***************************************************************************)
THEOREM FailedIsFinalHolds == Spec => FailedIsFinal
<1>1. Init => Copies
  BY DEF Init, ClusterInit, Copies
<1>2. TypeOK /\ Copies /\ [Next]_vars => Copies' /\ [FailedStays]_objects
  BY NextCopies
<1>. QED BY <1>1, <1>2, TypeInvariant, PTL DEF Spec, FailedIsFinal
-----------------------------------------------------------------------------
(***************************************************************************)
(* When Succeed is right: the code compares the number of completed jobs   *)
(* with the number of nodes it sees at that moment, which number the same  *)
(* things where nodes neither join nor leave, no edit excludes others, and *)
(* no other object has the name.                                           *)
(***************************************************************************)
SameExclusions == \A d \in Owners : \A s, t \in Specs[d] : Nodes \ s = Nodes \ t
NodesStay == "editNode" \notin Disturbances /\ IsFiniteSet(Nodes)

NodeKeys ==
    [d \in Owners |->
       {k \in JobKeys : \E s \in Specs[d] : \E n \in Nodes \ s : k = JobName(d, n)}]

LEMMA NodeCount ==
    ASSUME SameExclusions, NodesStay, NEW d \in Owners, NEW s \in Specs[d]
    PROVE  /\ NodeKeys[d] = {JobName(d, n) : n \in Nodes \ s}
           /\ IsFiniteSet(NodeKeys[d])
           /\ Cardinality(NodeKeys[d]) = Cardinality(Nodes \ s)
<1> DEFINE key == [n \in Nodes \ s |-> JobName(d, n)]
<1>1. Nodes \subseteq Seq(STRING) /\ \A n \in Nodes : JobName(d, n) \in JobKeys
  BY DaemonJobAssumption
<1>2. IsFiniteSet(Nodes \ s)
  BY FS_Subset DEF NodesStay
<1>3. \A m, n \in Nodes \ s : key[m] = key[n] => m = n
  BY <1>1, JobNamesDiffer
<1>4. /\ IsFiniteSet({key[n] : n \in Nodes \ s})
      /\ Cardinality({key[n] : n \in Nodes \ s}) = Cardinality(Nodes \ s)
  <2>. HIDE DEF key
  <2>. QED BY <1>2, <1>3, DistinctValues
<1>5. {key[n] : n \in Nodes \ s} = {JobName(d, n) : n \in Nodes \ s}
  OBVIOUS
<1>6. NodeKeys[d] = {JobName(d, n) : n \in Nodes \ s}
  BY <1>1 DEF NodeKeys, SameExclusions
<1>. QED BY <1>4, <1>5, <1>6

(***************************************************************************)
(* The inductive invariant: a call visits only nodes that are not          *)
(* excluded, every verdict stored is justified, and the list a call has    *)
(* made shows jobs of these nodes only.                                    *)
(***************************************************************************)
Visits == /\ pc = "lookup" => rest \subseteq Nodes \ object.spec
          /\ pc = "create" => node \in Nodes \ object.spec

SucceedInv ==
    /\ nodes = Nodes
    /\ Visits
    /\ VersionsSound(NodeKeys)
    /\ Verdicts(NodeKeys)
    /\ pc = "update" => Lists(NodeKeys[req], list)

LEMMA CreateKey ==
    ASSUME TypeOK, SucceedInv, pc = "create"
    PROVE  /\ object # None
           /\ JobName(req, node) \in JobKeys
           /\ JobName(req, node) \in NodeKeys[req]
<1>1. req \in Owners /\ object \in Live(req) /\ object # None
  BY NoneAssumption DEF TypeOK, ClusterTypeOK
<1>2. object.spec \in Specs[req] /\ node \in Nodes \ object.spec
  BY <1>1 DEF Live, SucceedInv, Visits
<1>. QED BY <1>1, <1>2, NodeType DEF NodeKeys

LEMMA StatusJustified ==
    ASSUME SameExclusions, NodesStay, TypeOK, SucceedInv, pc = "update"
    PROVE  Justified(NodeKeys[req], ComputedStatus.state)
<1>1. req \in Owners /\ object \in Live(req)
  BY NoneAssumption DEF TypeOK, ClusterTypeOK
<1>2. object.spec \in Specs[req]
  BY <1>1 DEF Live
<1>3. Lists(NodeKeys[req], list) /\ list \in List
  BY DEF SucceedInv, TypeOK
<1>4. IsFiniteSet(NodeKeys[req]) /\ Cardinality(NodeKeys[req]) = Cardinality(Wanted(object))
  BY <1>1, <1>2, NodeCount DEF Wanted, SucceedInv
<1>5. Justified(NodeKeys[req], StateOf(object.deleting, Cardinality(NodeKeys[req]), list))
  BY <1>3, <1>4, StateJustified
<1>. QED BY <1>4, <1>5 DEF ComputedStatus

(***************************************************************************)
(* A step that changes no Job and no object, and does not come to the      *)
(* update.                                                                 *)
(***************************************************************************)
LEMMA QuietStep ==
    ASSUME SucceedInv, UNCHANGED <<jobVars, objects, nodes>>, pc' # "update", Visits'
    PROVE  SucceedInv'
<1>1. VersionsSound(NodeKeys)'
  BY DEF SucceedInv, jobVars, VersionsSound, Sound
<1>. QED BY <1>1, KeepVerdicts DEF SucceedInv, jobVars

LEMMA WorkerSucceed ==
    ASSUME SameExclusions, NodesStay, NamesDiffer, TypeOK, SucceedInv, Worker
    PROVE  SucceedInv'
<1>1. ASSUME UNCHANGED jobVars PROVE VersionsSound(NodeKeys)'
  BY <1>1 DEF jobVars, VersionsSound, Sound, SucceedInv
<1>2. CASE GetDaemonJob
  <2>1. pc' \notin {"lookup", "create", "update"} /\ UNCHANGED <<jobVars, objects, nodes>>
    BY <1>2 DEF GetDaemonJob, Leave, objectVars
  <2>. QED BY <2>1, QuietStep DEF Visits
<1>3. CASE ListNodes
  <2>1. pc' \in {"list", "lookup"} /\ UNCHANGED <<jobVars, objects, nodes, object>>
    BY <1>3 DEF ListNodes, Iterate, clusterVars, objectVars, callVars
  <2>2. rest' = Nodes \ object.spec
    BY <1>3 DEF ListNodes, Iterate, Wanted, SucceedInv
  <2>. QED BY <2>1, <2>2, QuietStep DEF Visits
<1>4. CASE GetJob
  <2>1. pc' \in {"list", "lookup", "create"} /\ UNCHANGED <<jobVars, objects, nodes, object>>
    BY <1>4 DEF GetJob, Iterate, clusterVars, objectVars, callVars
  <2>2. rest \subseteq Nodes \ object.spec
    BY <1>4 DEF GetJob, SucceedInv, Visits
  <2>3. PICK n \in rest : \/ Iterate(rest \ {n})
                          \/ pc' = "create" /\ node' = n
    BY <1>4 DEF GetJob
  <2>4. Visits'
    BY <2>1, <2>2, <2>3 DEF Visits, Iterate
  <2>. QED BY <2>1, <2>4, QuietStep
<1>5. CASE CreateJob
  <2>1. pc' = "list" /\ UNCHANGED <<objects, nodes>>
    BY <1>5 DEF CreateJob, objectVars
  <2>2. VersionsSound(NodeKeys)' /\ reported' = reported
    <3>1. CASE MakeJob
      BY <1>5, <3>1, CreateKey, AddSound DEF CreateJob, MakeJob, TypeOK, SucceedInv
    <3>2. CASE UNCHANGED jobVars
      BY <1>1, <3>2 DEF jobVars
    <3>. QED BY <1>5, <3>1, <3>2 DEF CreateJob
  <2>. QED BY <2>1, <2>2, KeepVerdicts DEF SucceedInv, Visits
<1>6. CASE ListJobs
  <2>1. pc' = "update" /\ UNCHANGED <<jobVars, objects, nodes, req>> /\ list' = OwnedList(req)
    BY <1>6 DEF ListJobs, clusterVars, objectVars, callVars
  <2>2. req \in Owners
    BY <1>6 DEF ListJobs, TypeOK, ClusterTypeOK
  <2>3. Lists(NodeKeys[req], OwnedList(req))
    BY <2>2, OwnedListLists DEF TypeOK, SucceedInv
  <2>4. Lists(NodeKeys[req], list)'
    BY <2>1, <2>3 DEF Lists, jobVars
  <2>. QED BY <1>1, <2>1, <2>4, KeepVerdicts DEF SucceedInv, Visits, jobVars
<1>7. CASE UpdateStatus
  <2>1. pc' = "idle" /\ UNCHANGED <<jobVars, nodes>>
    BY <1>7 DEF UpdateStatus, Leave
  <2>2. object # None /\ ComputedStatus \in Status /\ Justified(NodeKeys[req], ComputedStatus.state)
    BY <1>7, ComputedStatusType, StatusJustified DEF UpdateStatus
  <2>. QED BY <1>1, <1>7, <2>1, <2>2, PutStatusVerdicts
           DEF UpdateStatus, TypeOK, SucceedInv, Visits, jobVars
<1>. QED BY <1>2, <1>3, <1>4, <1>5, <1>6, <1>7 DEF Worker

LEMMA NextSucceed ==
    ASSUME SameExclusions, NodesStay, NamesDiffer, TypeOK, SucceedInv, [Next]_vars
    PROVE  SucceedInv'
<1>1. CASE UNCHANGED vars
  <2>1. UNCHANGED <<jobVars, objects, nodes, pc, rest, node, list, req, object>>
    BY <1>1 DEF vars, clusterVars, objectVars, callVars, locals
  <2>2. VersionsSound(NodeKeys)'
    BY <2>1 DEF SucceedInv, jobVars, VersionsSound, Sound
  <2>. QED BY <2>1, <2>2, KeepVerdicts DEF SucceedInv, Visits, Lists, jobVars
<1>2. CASE (\E d \in Owners : Start(d)) \/ ApiError
  <2>1. pc' \notin {"lookup", "create", "update"} /\ UNCHANGED <<jobVars, objects, nodes>>
    BY <1>2 DEF Start, Dequeue, ApiError, Leave, objectVars
  <2>. QED BY <2>1, QuietStep DEF Visits
<1>3. CASE Worker
  BY <1>3, WorkerSucceed
<1>4. CASE LostAnswer
  <2>1. pc' = "idle" /\ UNCHANGED nodes
    BY <1>4 DEF LostAnswer, Leave
  <2>2. CASE pc = "create" /\ MakeJob /\ UNCHANGED objects
    BY <2>1, <2>2, CreateKey, AddSound, KeepVerdicts DEF MakeJob, TypeOK, SucceedInv, Visits
  <2>3. CASE pc = "update" /\ WriteStatus(ComputedStatus) /\ UNCHANGED jobVars
    <3>1. VersionsSound(NodeKeys)'
      BY <2>3 DEF SucceedInv, jobVars, VersionsSound, Sound
    <3>. QED BY <2>1, <2>3, <3>1, ComputedStatusType, StatusJustified, WriteStatusVerdicts
             DEF TypeOK, SucceedInv, Visits, jobVars
  <2>. QED BY <1>4, <2>2, <2>3 DEF LostAnswer
<1>5. CASE Crash
  <2>1. pc' = "idle" /\ UNCHANGED <<objects, nodes>>
    BY <1>5 DEF Crash, Leave, Restart
  <2>. QED BY <1>5, <2>1, RestartSound, KeepVerdicts DEF Crash, TypeOK, SucceedInv, Visits
<1>6. ASSUME NEW n \in Nodes, EditNode(n) PROVE FALSE
  BY <1>6 DEF EditNode, Disturb, NodesStay
<1>7. CASE Environment /\ Elsewhere
  <2>1. VersionsSound(NodeKeys)' /\ reported \subseteq reported'
    BY <1>7, EnvironmentSound DEF TypeOK, SucceedInv
  <2>2. UNCHANGED <<nodes, pc, rest, node, list, req, object>>
    BY <1>7, EnvironmentKeepsCall DEF Elsewhere, locals
  <2>3. Verdicts(NodeKeys)'
    BY <1>7, <2>1, EnvironmentVerdicts DEF TypeOK, SucceedInv
  <2>. QED BY <2>1, <2>2, <2>3 DEF SucceedInv, Visits, Lists
<1>. QED BY <1>1, <1>2, <1>3, <1>4, <1>5, <1>6, <1>7 DEF Next

(***************************************************************************)
(* Succeed is true: while nodes and exclusions stay as they are, it means  *)
(* that the job of every node that is not excluded has been seen to        *)
(* succeed (getAllJobStatusFromDaemonJob, daemonjob_controller.go).        *)
(***************************************************************************)
THEOREM SucceedMeansEveryNodeHolds ==
    ASSUME SameExclusions, NodesStay, NamesDiffer
    PROVE  Spec => []SucceedMeansEveryNode
<1>1. Init => SucceedInv
  <2> SUFFICES ASSUME Init PROVE SucceedInv
    OBVIOUS
  <2>1. VersionsSound(NodeKeys)
    BY DEF Init, ClusterInit, VersionsSound, Sound
  <2>2. \A d \in Owners : objects[d].status.state = ""
    BY DEF Init, ClusterInit, Never, Absent, NoStatus
  <2>. QED BY <2>1, <2>2 DEF Init, SucceedInv, Visits, Verdicts, Justified
<1>2. TypeOK /\ SucceedInv /\ [Next]_vars => SucceedInv'
  BY NextSucceed
<1>3. TypeOK /\ SucceedInv => SucceedMeansEveryNode
  <2> SUFFICES ASSUME TypeOK, SucceedInv, NEW d \in Owners, objects[d].exists,
                      objects[d].status.state = "Succeed", NEW n \in Wanted(objects[d])
               PROVE  <<JobName(d, n), "succeeded">> \in reported
    BY DEF SucceedMeansEveryNode
  <2>1. objects[d].spec \in Specs[d]
    BY DEF TypeOK, ClusterTypeOK, Object, Live, Gone
  <2>2. JobName(d, n) \in NodeKeys[d]
    <3>1. n \in Nodes \ objects[d].spec
      BY DEF Wanted, SucceedInv
    <3>. QED BY <2>1, <3>1, DaemonJobAssumption DEF NodeKeys
  <2>. QED BY <2>2 DEF SucceedInv, Verdicts, Justified
<1>. QED BY <1>1, <1>2, <1>3, TypeInvariant, PTL DEF Spec
-----------------------------------------------------------------------------
(***************************************************************************)
(* No wakeup is lost while the nodes stay the same: the controller does    *)
(* not watch them.                                                         *)
(***************************************************************************)
NodeCounts == [s \in UNION {Specs[d] : d \in Owners} |-> Cardinality(Nodes \ s)]

CurrentInv ==
    /\ nodes = Nodes
    /\ Copies
    /\ History
    /\ AllAwaited(NodeCounts)
    /\ pc = "update" => Fresh(NodeCounts, ComputedStatus.state)

LEMMA CountedNodes ==
    ASSUME TypeOK, nodes = Nodes, object # None
    PROVE  NodeCounts[object.spec] = Cardinality(Wanted(object))
<1>1. req \in Owners /\ object.spec \in Specs[req]
  BY NoneAssumption DEF TypeOK, ClusterTypeOK, Live
<1>. QED BY <1>1 DEF NodeCounts, Wanted

LEMMA ListFresh ==
    ASSUME TypeOK, nodes = Nodes, ListJobs PROVE Fresh(NodeCounts, ComputedStatus.state)'
<1>1. object # None
  BY DEF TypeOK, ListJobs
<1>2. UNCHANGED <<req, object, jobCache, nodes>> /\ list' = OwnedList(req)
  BY DEF ListJobs, clusterVars, jobVars, callVars
<1>3. Cardinality(Wanted(object))' = NodeCounts[object.spec]
  BY <1>1, <1>2, CountedNodes DEF Wanted
<1>4. ComputedStatus'.state = StateOf(object.deleting, NodeCounts[object.spec], OwnedList(req))
  BY <1>2, <1>3 DEF ComputedStatus
<1>5. Expected(NodeCounts, req, object)' =
         StateOf(object.deleting, NodeCounts[object.spec], OwnedList(req))
  BY <1>2 DEF Expected, OwnedList
<1>. QED BY <1>4, <1>5 DEF Fresh

LEMMA WorkerCurrent == ASSUME TypeOK, CurrentInv, Worker PROVE CurrentInv'
<1>. USE DEF CurrentInv
<1>1. Copies'
  BY WorkerCopies
<1>2. ASSUME UNCHANGED clusterVars PROVE History' /\ AllAwaited(NodeCounts)'
  BY <1>2, KeepHistory, CallAwaited DEF clusterVars, jobVars, objectVars, callVars
<1>3. CASE GetDaemonJob
  <2>1. /\ pc' # "update" /\ UNCHANGED <<jobVars, objectVars, nodes>> /\ req \in Owners
    BY <1>3 DEF GetDaemonJob, Leave, TypeOK, ClusterTypeOK
  <2>2. History'
    BY <2>1, KeepHistory DEF jobVars
  <2>3. AllAwaited(NodeCounts)'
    BY <1>3, <2>1, IgnoredAwaited, CallAwaited DEF GetDaemonJob, jobVars, objectVars
  <2>. QED BY <1>1, <2>1, <2>2, <2>3
<1>4. CASE ListNodes \/ GetJob
  <2>1. pc' # "update" /\ UNCHANGED <<clusterVars, nodes>>
    BY <1>4 DEF ListNodes, GetJob, Iterate
  <2>. QED BY <1>1, <1>2, <2>1
<1>5. CASE CreateJob
  <2>1. pc' # "update" /\ UNCHANGED <<objectVars, callVars, nodes>>
    BY <1>5 DEF CreateJob
  <2>2. object # None /\ JobName(req, node) \in JobKeys
    BY <1>5, NodeType DEF CreateJob, TypeOK
  <2>3. History' /\ UNCHANGED jobCache
    BY <1>5, <2>2, AddHistory, KeepHistory DEF CreateJob, MakeJob, jobVars, TypeOK
  <2>4. AllAwaited(NodeCounts)'
    BY <2>1, <2>3, CallAwaited DEF objectVars, callVars
  <2>. QED BY <1>1, <2>1, <2>3, <2>4
<1>6. CASE ListJobs
  BY <1>1, <1>2, <1>6, ListFresh DEF ListJobs
<1>7. CASE UpdateStatus
  <2>1. /\ pc' # "update" /\ UNCHANGED <<jobVars, objectCache, nodes>>
        /\ pc = "update" /\ PutStatus(ComputedStatus)
    BY <1>7 DEF UpdateStatus, Leave
  <2>2. object # None /\ ComputedStatus \in Status /\ ClusterTypeOK
    BY <2>1, ComputedStatusType DEF TypeOK
  <2>3. AllAwaited(NodeCounts)'
    BY <2>1, <2>2, PutStatusAwaited
  <2>. QED BY <1>1, <2>1, <2>3, KeepHistory DEF jobVars
<1>. QED BY <1>3, <1>4, <1>5, <1>6, <1>7 DEF Worker

LEMMA NextCurrent ==
    ASSUME NamesDiffer, "relist" \notin Disturbances, "editNode" \notin Disturbances,
           TypeOK, CurrentInv, [Next]_vars
    PROVE  CurrentInv'
<1>. USE DEF CurrentInv
<1>1. Copies'
  BY NextCopies
<1>2. CASE UNCHANGED vars
  <2>1. UNCHANGED <<jobVars, objectVars, callVars, pc, list, nodes>>
    BY <1>2 DEF vars, clusterVars, locals
  <2>2. History' /\ AllAwaited(NodeCounts)'
    BY <2>1, KeepHistory, CallAwaited DEF jobVars, objectVars, callVars
  <2>3. ComputedStatus' = ComputedStatus
    BY <2>1 DEF ComputedStatus, Wanted, callVars
  <2>4. ASSUME Fresh(NodeCounts, ComputedStatus.state)
        PROVE  Fresh(NodeCounts, ComputedStatus.state)'
    BY <2>1, <2>3, <2>4 DEF Fresh, Expected, OwnedList, jobVars, objectVars, callVars
  <2>. QED BY <1>1, <2>1, <2>2, <2>4
<1>3. ASSUME NEW d \in Owners, Start(d) PROVE CurrentInv'
  <2>1. pc' # "update" /\ Dequeue(d) /\ UNCHANGED nodes
    BY <1>3 DEF Start
  <2>2. History' /\ AllAwaited(NodeCounts)'
    BY <2>1, KeepHistory, DequeueAwaited DEF Dequeue, jobVars
  <2>. QED BY <1>1, <2>1, <2>2
<1>4. CASE Worker
  BY <1>4, WorkerCurrent
<1>5. CASE ApiError
  <2>1. /\ pc' # "update" /\ UNCHANGED <<jobVars, objectVars, nodes>>
        /\ queue \subseteq queue' /\ req \in queue'
    BY <1>5 DEF ApiError, Leave, Requeue, Forget, Enqueue
  <2>2. History' /\ AllAwaited(NodeCounts)'
    BY <2>1, KeepHistory, CallAwaited DEF jobVars, objectVars
  <2>. QED BY <1>1, <2>1, <2>2
<1>6. CASE LostAnswer
  <2>1. /\ pc' # "update" /\ UNCHANGED <<objectCache, nodes>>
        /\ queue \subseteq queue' /\ req \in queue'
    BY <1>6 DEF LostAnswer, Leave, Requeue, Forget, Enqueue
  <2>2. CASE pc = "create" /\ MakeJob /\ UNCHANGED objects
    <3>1. object # None /\ JobName(req, node) \in JobKeys
      BY <2>2, NodeType DEF TypeOK
    <3>2. History' /\ UNCHANGED jobCache
      BY <2>2, <3>1, AddHistory DEF MakeJob, TypeOK
    <3>. QED BY <1>1, <2>1, <2>2, <3>2, CallAwaited
  <2>3. CASE pc = "update" /\ WriteStatus(ComputedStatus) /\ UNCHANGED jobVars
    <3>1. object # None /\ ComputedStatus \in Status /\ ClusterTypeOK
      BY <2>3, ComputedStatusType DEF TypeOK
    <3>2. AllAwaited(NodeCounts)'
      BY <2>1, <2>3, <3>1, WriteStatusAwaited
    <3>. QED BY <1>1, <2>1, <2>3, <3>2, KeepHistory DEF jobVars
  <2>. QED BY <1>6, <2>2, <2>3 DEF LostAnswer
<1>7. CASE Crash
  BY <1>1, <1>7, RestartAwaited DEF Crash, Leave, TypeOK
<1>8. ASSUME NEW n \in Nodes, EditNode(n) PROVE FALSE
  BY <1>8 DEF EditNode, Disturb
<1>9. CASE Environment /\ Elsewhere
  <2>1. History' /\ AllAwaited(NodeCounts)'
    BY <1>9, EnvironmentAwaited DEF TypeOK
  <2>2. UNCHANGED <<pc, list, nodes, object>> /\ (pc = "update" => req \in Owners)
    BY <1>9, EnvironmentKeepsCall DEF Elsewhere, locals, TypeOK, ClusterTypeOK
  <2>3. ComputedStatus' = ComputedStatus
    BY <2>2 DEF ComputedStatus, Wanted
  <2>4. pc = "update" => Fresh(NodeCounts, ComputedStatus.state)'
    BY <1>9, <2>2, <2>3, EnvironmentAwaited DEF TypeOK, Fresh
  <2>. QED BY <1>1, <2>1, <2>2, <2>4
<1>. QED BY <1>2, <1>3, <1>4, <1>5, <1>6, <1>7, <1>8, <1>9 DEF Next

(***************************************************************************)
(* As long as no watch breaks and the nodes stay the same, a DaemonJob     *)
(* that is not Failed shows the state its jobs give it whenever nothing is *)
(* left to do (the handlers and Reconcile of daemonjob_controller.go, the  *)
(* Watches of main.go).                                                    *)
(***************************************************************************)
THEOREM StatusCurrentHolds ==
    ASSUME NamesDiffer, "relist" \notin Disturbances, "editNode" \notin Disturbances
    PROVE  Spec => []StatusCurrent
<1>1. Init => CurrentInv
  <2> SUFFICES ASSUME Init PROVE CurrentInv
    OBVIOUS
  <2>1. Copies
    BY DEF Init, ClusterInit, Copies
  <2>2. History
    BY DEF Init, ClusterInit, History
  <2>3. \A o \in Owners : ~objects[o].exists
    BY DEF Init, ClusterInit, Never, Absent
  <2>. QED BY <2>1, <2>2, <2>3 DEF Init, CurrentInv, AllAwaited, Awaited, Ignored
<1>2. TypeOK /\ CurrentInv /\ [Next]_vars => CurrentInv'
  BY NextCurrent
<1>3. TypeOK /\ CurrentInv => StatusCurrent
  <2> SUFFICES ASSUME TypeOK, CurrentInv, Quiescent, NEW d \in Owners, ~Ignored(objects[d])
               PROVE  objects[d].status.state =
                         StateOf(objects[d].deleting, Cardinality(Wanted(objects[d])), OwnedList(d))
    BY DEF StatusCurrent
  <2>1. objects[d].spec \in Specs[d] /\ nodes = Nodes
    BY DEF TypeOK, ClusterTypeOK, Object, Live, Gone, Ignored, CurrentInv
  <2>2. NodeCounts[objects[d].spec] = Cardinality(Wanted(objects[d]))
    BY <2>1 DEF NodeCounts, Wanted
  <2>3. Awaited(NodeCounts, d) /\ queue = {} /\ objectCache = objects /\ req # d
    BY NoneAssumption DEF CurrentInv, AllAwaited, Quiescent, CacheCurrent
  <2>. QED BY <2>2, <2>3 DEF Awaited, Expected
<1>. QED BY <1>1, <1>2, <1>3, TypeInvariant, PTL DEF Spec
=============================================================================
