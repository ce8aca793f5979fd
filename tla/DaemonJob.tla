----------------------------- MODULE DaemonJob -----------------------------
(***************************************************************************)
(* The DaemonJob controller (pkg/controller/daemonjob_controller.go): one  *)
(* job on every node that spec.excludeNodeList does not name.  Owners are  *)
(* the DaemonJob objects; the spec of one is the set of node names its     *)
(* excludeNodeList splits into.                                            *)
(***************************************************************************)
EXTENDS Cluster

CONSTANT Nodes         \* the names nodes may have, sequences of tokens

ASSUME DaemonJobAssumption ==
    /\ Nodes \subseteq Seq(STRING)
    /\ \A d \in Owners : \A n \in Nodes : JobName(d, n) \in JobKeys

VARIABLES
    nodes,         \* the informer cache of Nodes, by name
    pc,            \* the point the call is at
    rest,          \* the nodes the loop of deployDaemonJob has not visited
    node,          \* the node it is creating a job for
    list           \* the job statuses the status will be made from

locals == <<pc, rest, node, list>>
vars == <<clusterVars, nodes, locals>>

PCs == {"idle", "get", "nodes", "lookup", "create", "list", "update"}

TypeOK ==
    /\ ClusterTypeOK
    /\ nodes \subseteq Nodes
    /\ pc \in PCs
    /\ pc = "idle" <=> req = None
    /\ pc \in {"idle", "get"} <=> object = None
    /\ IF pc = "lookup" THEN rest \in (SUBSET Nodes) \ {{}} ELSE rest = {}
    /\ IF pc = "create" THEN node \in Nodes ELSE node = None
    /\ IF pc = "update" THEN list \in List ELSE list = NoStatus.list

Init ==
    /\ ClusterInit
    /\ nodes = Nodes
    /\ pc = "idle"
    /\ rest = {}
    /\ node = None
    /\ list = NoStatus.list
----------------------------------------------------------------------------
Leave == pc' = "idle" /\ rest' = {} /\ node' = None /\ list' = NoStatus.list

Start(d) == Dequeue(d) /\ pc' = "get" /\ UNCHANGED <<nodes, rest, node, list>>

GetDaemonJob ==
    /\ pc = "get"
    /\ LET d == objectCache[req] IN
         \/ Ignored(d) /\ Finish /\ Leave
         \/ /\ ~Ignored(d)
            /\ object' = d
            /\ pc' = "nodes"
            /\ UNCHANGED <<queue, req, rest, node, list>>
    /\ UNCHANGED <<jobVars, objectVars, nodes, budget>>

(***************************************************************************)
(* The nodes a DaemonJob is for.                                           *)
(***************************************************************************)
Wanted(d) == nodes \ d.spec

Iterate(left) ==
    /\ pc' = IF left = {} THEN "list" ELSE "lookup"
    /\ rest' = left
    /\ UNCHANGED <<node, list>>

ListNodes ==
    /\ pc = "nodes"
    /\ Iterate(Wanted(object))
    /\ UNCHANGED <<clusterVars, nodes>>

(***************************************************************************)
(* One turn of the loop.  The list of a cache comes in no order, so that   *)
(* any node may be next.  What is looked up is a job with the name of the  *)
(* DaemonJob, not the job of the node.                                     *)
(***************************************************************************)
GetJob ==
    /\ pc = "lookup"
    /\ \E n \in rest :
         \/ /\ Cached(JobName(req, <<>>))
            /\ Iterate(rest \ {n})
         \/ /\ ~Cached(JobName(req, <<>>))
            /\ pc' = "create"
            /\ node' = n
            /\ rest' = {}
            /\ UNCHANGED list
    /\ UNCHANGED <<clusterVars, nodes>>

(***************************************************************************)
(* Create, at the API server.  AlreadyExists breaks out of the loop, and a *)
(* job created returns nil from it: the call makes one job at the most.    *)
(***************************************************************************)
MakeJob == Add(JobName(req, node), NewJob)

CreateJob ==
    /\ pc = "create"
    /\ \/ MakeJob
       \/ jobs[JobName(req, node)] # None /\ UNCHANGED jobVars
    /\ pc' = "list"
    /\ node' = None
    /\ UNCHANGED <<objectVars, callVars, budget, nodes, rest, list>>

(***************************************************************************)
(* getAllJobStatusFromDaemonJob: the jobs are listed first, the nodes once *)
(* more after them, right before the update.                               *)
(***************************************************************************)
ListJobs ==
    /\ pc = "list"
    /\ pc' = "update"
    /\ list' = OwnedList(req)
    /\ UNCHANGED <<clusterVars, nodes, rest, node>>

ComputedStatus ==
    [state |-> StateOf(object.deleting, Cardinality(Wanted(object)), list), list |-> list]

UpdateStatus ==
    /\ pc = "update"
    /\ PutStatus(ComputedStatus)
    /\ Leave
    /\ UNCHANGED <<jobVars, objectCache, nodes, budget>>

Worker == GetDaemonJob \/ ListNodes \/ GetJob \/ CreateJob \/ ListJobs \/ UpdateStatus
----------------------------------------------------------------------------
(***************************************************************************)
(* A read or a write fails, or takes effect and its answer is lost; the    *)
(* operator stops and starts again; a node joins or leaves the cluster,    *)
(* which the controller does not watch.                                    *)
(***************************************************************************)
ApiError ==
    /\ pc # "idle"
    /\ Disturb("apiError")
    /\ Requeue /\ Leave
    /\ UNCHANGED <<jobVars, objectVars, nodes>>

LostAnswer ==
    /\ \/ pc = "create" /\ MakeJob /\ UNCHANGED objects
       \/ pc = "update" /\ WriteStatus(ComputedStatus) /\ UNCHANGED jobVars
    /\ Disturb("apiError")
    /\ Requeue /\ Leave
    /\ UNCHANGED <<objectCache, nodes>>

Crash == Restart /\ Leave /\ UNCHANGED nodes

EditNode(n) ==
    /\ Disturb("editNode")
    /\ nodes' = IF n \in nodes THEN nodes \ {n} ELSE nodes \cup {n}
    /\ UNCHANGED <<jobVars, objectVars, callVars, locals>>
----------------------------------------------------------------------------
Elsewhere == UNCHANGED <<nodes, locals>>

Next ==
    \/ \E d \in Owners : Start(d)
    \/ Worker
    \/ ApiError \/ LostAnswer \/ Crash
    \/ \E n \in Nodes : EditNode(n)
    \/ Environment /\ Elsewhere

(***************************************************************************)
(* Fairness: as for the JobFlow controller.                                *)
(***************************************************************************)
Fairness ==
    /\ WF_vars(Worker)
    /\ \A d \in Owners :
         /\ SF_vars(Start(d))
         /\ WF_vars(OnObject(d) /\ Elsewhere)
         /\ WF_vars(Finalize(d) /\ Elsewhere)
    /\ \A k \in JobKeys :
         /\ WF_vars(DeliverJob(k) /\ Elsewhere)
         /\ WF_vars(Pod(k) /\ Elsewhere)
         /\ WF_vars(CollectJob(k) /\ Elsewhere)

Spec == Init /\ [][Next]_vars
FairSpec == Spec /\ Fairness
----------------------------------------------------------------------------
(***************************************************************************)
(* Succeed is true while nodes and exclusions stay as they are: it is      *)
(* written only when the job of every node that is not excluded has been   *)
(* seen at succeeded 1 (getAllJobStatusFromDaemonJob), though a call makes *)
(* one job at the most and compares two counts.                            *)
(***************************************************************************)
SucceedMeansEveryNode ==
    \A d \in Owners : objects[d].exists /\ objects[d].status.state = "Succeed" =>
       \A n \in Wanted(objects[d]) : <<JobName(d, n), "succeeded">> \in reported

(***************************************************************************)
(* No wakeup is lost: when nothing is left to do, every object that is not *)
(* Failed carries the state its jobs give it (the handlers, the Watches of *)
(* main.go and the retries of Reconcile).                                  *)
(***************************************************************************)
StatusCurrent ==
    Quiescent => \A d \in Owners : LET o == objects[d] IN ~Ignored(o) =>
       o.status.state = StateOf(o.deleting, Cardinality(Wanted(o)), OwnedList(d))

(***************************************************************************)
(* README.md: "Except these nodes are not created, jobs must be created".  *)
(* When nothing is left to do, every node that is not excluded has its job *)
(* (deployDaemonJob).                                                      *)
(***************************************************************************)
EveryNodeServed ==
    Quiescent => \A d \in Owners : ~Ignored(objects[d]) =>
       \A n \in Wanted(objects[d]) : Cached(JobName(d, n))
============================================================================
