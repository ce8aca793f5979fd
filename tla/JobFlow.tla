------------------------------ MODULE JobFlow ------------------------------
(***************************************************************************)
(* The JobFlow controller: Reconcile in pkg/controller/                    *)
(* jobflow_controller.go, deployJobFlow and updateJobFlowStatus in         *)
(* helper.go.  Owners are the JobFlow objects.                             *)
(*                                                                         *)
(* Every read of a call is answered by an informer cache that may lag      *)
(* behind the API server; every write goes to the API server.  Each read   *)
(* and each write is a step of its own, so that deliveries, pods and users *)
(* interleave with a call in progress.                                     *)
(***************************************************************************)
EXTENDS Cluster

CONSTANT Templates     \* the JobTemplate objects, by namespace and name

(***************************************************************************)
(* One entry of spec.flows.  ref is the JobTemplate the entry refers to,   *)
(* None when the entry carries its own job spec.                           *)
(***************************************************************************)
Flow == [name : Seq(STRING), deps : Seq(Seq(STRING)), ref : Templates \cup {None}]

ASSUME JobFlowAssumption ==
    \A f \in Owners : \A s \in Specs[f] :
       s \in Seq(Flow) /\ \A j \in DOMAIN s : JobName(f, s[j].name) \in JobKeys

VARIABLES
    jobTemplates,  \* the informer cache of JobTemplates, by presence
    pc,            \* the point the call is at
    idx,           \* the entry of object.spec it is at
    depIdx,        \* the dependency of that entry it is at
    flag,          \* whether the dependencies seen so far are complete
    status         \* the status it has computed

locals == <<pc, idx, depIdx, flag, status>>
vars == <<clusterVars, jobTemplates, locals>>

PCs == {"idle", "get", "prepare", "lookup", "dependency", "create", "list", "update"}

TypeOK ==
    /\ ClusterTypeOK
    /\ jobTemplates \subseteq Templates
    /\ pc \in PCs
    /\ pc = "idle" <=> req = None
    /\ pc \in {"idle", "get"} <=> object = None
    /\ IF pc \in {"prepare", "lookup", "dependency", "create"}
         THEN idx \in 1 .. Len(object.spec) ELSE idx = 0
    /\ IF pc = "dependency"
         THEN depIdx \in 1 .. Len(object.spec[idx].deps) ELSE depIdx = 0
    /\ flag \in BOOLEAN
    /\ IF pc = "update" THEN status \in Status ELSE status = NoStatus

Init ==
    /\ ClusterInit
    /\ jobTemplates = Templates
    /\ pc = "idle"
    /\ idx = 0
    /\ depIdx = 0
    /\ flag = FALSE
    /\ status = NoStatus
----------------------------------------------------------------------------
(***************************************************************************)
(* Moving through the loop of deployJobFlow: on to entry n of spec, or out *)
(* of the loop when there is none; SkipToStatus leaves the loop early, by  *)
(* break or with a BadRequest error, which Reconcile follows with the      *)
(* status update as it does a nil error.                                   *)
(***************************************************************************)
Visit_PastEnd(spec, n) ==          \* mutant: the loop goes one entry too far
    /\ pc' = IF n <= Len(spec) + 1 THEN "prepare" ELSE "list"
    /\ idx' = IF n <= Len(spec) + 1 THEN n ELSE 0
    /\ depIdx' = 0
    /\ flag' = FALSE
    /\ UNCHANGED status

Visit(spec, n) ==
    /\ pc' = IF n <= Len(spec) THEN "prepare" ELSE "list"
    /\ idx' = IF n <= Len(spec) THEN n ELSE 0
    /\ depIdx' = 0
    /\ flag' = FALSE
    /\ UNCHANGED status
NextFlow == Visit(object.spec, idx + 1)
SkipToStatus == Visit(object.spec, Len(object.spec) + 1)
GoTo(point) == pc' = point /\ UNCHANGED <<idx, depIdx, flag, status>>
Leave == pc' = "idle" /\ idx' = 0 /\ depIdx' = 0 /\ flag' = FALSE /\ status' = NoStatus

ThisFlow == object.spec[idx]
ThisJob == JobName(req, ThisFlow.name)
ThisDependency == JobName(req, ThisFlow.deps[depIdx])

Start(f) == Dequeue(f) /\ GoTo("get") /\ UNCHANGED jobTemplates

(***************************************************************************)
(* Reconcile reads the object.                                             *)
(***************************************************************************)
GetJobFlow ==
    /\ pc = "get"
    /\ LET o == objectCache[req] IN
         \/ Ignored(o) /\ Finish /\ Leave
         \/ ~Ignored(o) /\ object' = o /\ Visit(o.spec, 1) /\ UNCHANGED <<queue, req>>
    /\ UNCHANGED <<jobVars, objectVars, jobTemplates, budget>>

(***************************************************************************)
(* prepareJob builds the job of the entry before it is known whether the   *)
(* job exists.  A JobTemplate that is not there is a BadRequest and ends   *)
(* the whole deployment.                                                   *)
(***************************************************************************)
TemplateFound(entry) == entry.ref \in jobTemplates \cup {None}

PrepareJob ==
    /\ pc = "prepare"
    /\ IF TemplateFound(ThisFlow) THEN GoTo("lookup") ELSE SkipToStatus
    /\ UNCHANGED <<clusterVars, jobTemplates>>

(***************************************************************************)
(* The entry is skipped when its job exists, created when it depends on    *)
(* nothing, and otherwise its dependencies are looked at.                  *)
(***************************************************************************)
GetJob ==
    /\ pc = "lookup"
    /\ \/ Cached(ThisJob) /\ NextFlow
       \/ ~Cached(ThisJob) /\ ThisFlow.deps = <<>> /\ GoTo("create")
       \/ /\ ~Cached(ThisJob) /\ ThisFlow.deps # <<>>
          /\ pc' = "dependency"
          /\ depIdx' = 1
          /\ flag' = TRUE
          /\ UNCHANGED <<idx, status>>
    /\ UNCHANGED <<clusterVars, jobTemplates>>

(***************************************************************************)
(* One turn of the loop over the dependencies.  A missing one ends the     *)
(* loop, an incomplete one clears the flag and lets it go on, a failed one *)
(* ends the deployment with a BadRequest even if the flag is clear.        *)
(***************************************************************************)
StillComplete_Last(s) == s.succeeded = 1    \* mutant: the last one decides
StillComplete_Any(s) == flag                \* mutant: it is enough to exist

StillComplete(s) == flag /\ s.succeeded = 1
DependencyFailed(s) == s.failed = 1

LookAt(s) ==
    \/ DependencyFailed(s) /\ SkipToStatus
    \/ /\ ~DependencyFailed(s)
       /\ depIdx < Len(ThisFlow.deps)
       /\ depIdx' = depIdx + 1
       /\ flag' = StillComplete(s)
       /\ UNCHANGED <<pc, idx, status>>
    \/ /\ ~DependencyFailed(s)
       /\ depIdx = Len(ThisFlow.deps)
       /\ StillComplete(s)
       /\ pc' = "create"
       /\ depIdx' = 0
       /\ flag' = FALSE
       /\ UNCHANGED <<idx, status>>
    \/ /\ ~DependencyFailed(s)
       /\ depIdx = Len(ThisFlow.deps)
       /\ ~StillComplete(s)
       /\ NextFlow

GetDependency_Leaves ==     \* mutant: a missing dependency ends the deployment
    /\ pc = "dependency"
    /\ IF Cached(ThisDependency) THEN LookAt(jobCache[ThisDependency].status) ELSE SkipToStatus
    /\ UNCHANGED <<clusterVars, jobTemplates>>

GetDependency ==
    /\ pc = "dependency"
    /\ IF Cached(ThisDependency) THEN LookAt(jobCache[ThisDependency].status) ELSE NextFlow
    /\ UNCHANGED <<clusterVars, jobTemplates>>

(***************************************************************************)
(* Create, at the API server.  AlreadyExists (the cache did not show the   *)
(* job yet) moves on to the next entry when the job has no dependencies,   *)
(* but leaves the loop when it has some.                                   *)
(***************************************************************************)
CreateJob ==
    /\ pc = "create"
    /\ \/ Add(ThisJob, NewJob) /\ NextFlow
       \/ jobs[ThisJob] # None /\ ThisFlow.deps = <<>> /\ NextFlow /\ UNCHANGED jobVars
       \/ jobs[ThisJob] # None /\ ThisFlow.deps # <<>> /\ SkipToStatus /\ UNCHANGED jobVars
    /\ UNCHANGED <<objectVars, callVars, jobTemplates, budget>>

ListJobs ==
    /\ pc = "list"
    /\ pc' = "update"
    /\ status' = [state |-> StateOf(object.deleting, Len(object.spec), OwnedList(req)),
                  list  |-> OwnedList(req)]
    /\ UNCHANGED <<clusterVars, jobTemplates, idx, depIdx, flag>>

UpdateStatus ==
    /\ pc = "update"
    /\ PutStatus(status)
    /\ Leave
    /\ UNCHANGED <<jobVars, objectCache, jobTemplates, budget>>

Worker ==
    \/ GetJobFlow \/ PrepareJob \/ GetJob \/ GetDependency
    \/ CreateJob \/ ListJobs \/ UpdateStatus
----------------------------------------------------------------------------
(***************************************************************************)
(* A read or a write fails with an error other than those handled above:   *)
(* Reconcile returns it.  An entry without jobTemplateRef reads nothing in *)
(* prepareJob.                                                             *)
(***************************************************************************)
ApiError ==
    /\ pc # "idle"
    /\ pc = "prepare" => ThisFlow.ref # None
    /\ Disturb("apiError")
    /\ Requeue /\ Leave
    /\ UNCHANGED <<jobVars, objectVars, jobTemplates>>

(***************************************************************************)
(* Create is refused with 400 BadRequest, which Reconcile takes for the    *)
(* error of a failed dependency: no retry.                                 *)
(***************************************************************************)
CreateBadRequest ==
    /\ pc = "create"
    /\ Disturb("badRequest")
    /\ SkipToStatus
    /\ UNCHANGED <<jobVars, objectVars, callVars, jobTemplates>>

(***************************************************************************)
(* A write takes effect and its answer is lost: the caller sees an error   *)
(* and retries what has been done.                                         *)
(***************************************************************************)
LostAnswer ==
    /\ \/ pc = "create" /\ Add(ThisJob, NewJob) /\ UNCHANGED objects
       \/ pc = "update" /\ WriteStatus(status) /\ UNCHANGED jobVars
    /\ Disturb("apiError")
    /\ Requeue /\ Leave
    /\ UNCHANGED <<objectCache, jobTemplates>>

Crash == Restart /\ Leave /\ UNCHANGED jobTemplates

(***************************************************************************)
(* A JobTemplate is created or deleted, as seen by the cache: nothing else *)
(* reads it, and the JobFlow controller does not watch JobTemplates.       *)
(***************************************************************************)
EditJobTemplate(t) ==
    /\ Disturb("editTemplate")
    /\ jobTemplates' = IF t \in jobTemplates THEN jobTemplates \ {t}
                                            ELSE jobTemplates \cup {t}
    /\ UNCHANGED <<jobVars, objectVars, callVars, locals>>
----------------------------------------------------------------------------
Elsewhere == UNCHANGED <<jobTemplates, locals>>

Next ==
    \/ \E f \in Owners : Start(f)
    \/ Worker
    \/ ApiError \/ CreateBadRequest \/ LostAnswer \/ Crash
    \/ \E t \in Templates : EditJobTemplate(t)
    \/ Environment /\ Elsewhere

(***************************************************************************)
(* Fairness: the worker goroutine runs, the queue is first in first out    *)
(* (so each request in it is taken sooner or later), watches deliver, the  *)
(* Job controller starts pods and each pod ends, the collector collects.   *)
(* Users and failures are under no obligation.                             *)
(***************************************************************************)
Fairness ==
    /\ WF_vars(Worker)
    /\ \A f \in Owners :
         /\ SF_vars(Start(f))
         /\ WF_vars(OnObject(f) /\ Elsewhere)
         /\ WF_vars(Finalize(f) /\ Elsewhere)
    /\ \A k \in JobKeys :
         /\ WF_vars(DeliverJob(k) /\ Elsewhere)
         /\ WF_vars(Pod(k) /\ Elsewhere)
         /\ WF_vars(CollectJob(k) /\ Elsewhere)

Spec == Init /\ [][Next]_vars
FairSpec == Spec /\ Fairness
----------------------------------------------------------------------------
(***************************************************************************)
(* No job starts before its dependencies: a Job that appears at the API    *)
(* server is one of the entries of the spec the running call has read, and *)
(* the job of each of its dependencies has been seen at succeeded 1,       *)
(* whatever the caches missed and however often the call was cut short or  *)
(* repeated (deployJobFlow, helper.go).                                    *)
(***************************************************************************)
StartsInOrder ==
    \A k \in JobKeys : jobs[k] = None /\ jobs'[k] # None =>
       \E j \in DOMAIN object.spec :
          /\ k = JobName(req, object.spec[j].name)
          /\ \A d \in DOMAIN object.spec[j].deps :
               <<JobName(req, object.spec[j].deps[d]), "succeeded">> \in reported

DependencyOrder == [][StartsInOrder]_vars

(***************************************************************************)
(* Succeed is true: it is written only when every job of the flow has been *)
(* seen at succeeded 1.  The code (getAllJobStatus, helper.go) concludes   *)
(* this from a count.                                                      *)
(***************************************************************************)
JobsOf(f) == {JobName(f, objects[f].spec[j].name) : j \in DOMAIN objects[f].spec}

SucceedMeansAll ==
    \A f \in Owners : objects[f].exists /\ objects[f].status.state = "Succeed" =>
       \A k \in JobsOf(f) : <<k, "succeeded">> \in reported

(***************************************************************************)
(* A verdict is true: Succeed as above, and Failed only when one of the    *)
(* jobs of the flow has been seen at failed 1 (getAllJobStatus, helper.go).*)
(***************************************************************************)
VerdictSound ==
    /\ SucceedMeansAll
    /\ \A f \in Owners : objects[f].exists /\ objects[f].status.state = "Failed" =>
         \E k \in JobsOf(f) : <<k, "failed">> \in reported

(***************************************************************************)
(* No wakeup is lost: when the worker and the queue are empty and the      *)
(* caches show what the API server has, every object that is not Failed    *)
(* carries the state its jobs give it (the handlers and the Watches of     *)
(* main.go, the retries of Reconcile).                                     *)
(***************************************************************************)
StatusCurrent ==
    Quiescent => \A f \in Owners : LET o == objects[f] IN ~Ignored(o) =>
       o.status.state = StateOf(o.deleting, Len(o.spec), OwnedList(f))

(***************************************************************************)
(* No entry is left behind: when moreover every job has ended, no object   *)
(* that is neither Failed nor being deleted has an entry left whose        *)
(* JobTemplate is there and whose dependencies are complete without a job. *)
(* While a job has yet to end an entry may be left so: a call that finds   *)
(* the job of an earlier entry already made leaves the loop, and the       *)
(* creation it did not see wakes nobody; only what becomes of that job     *)
(* does (deployJobFlow, helper.go).                                        *)
(***************************************************************************)
Ready(f, entry) ==
    /\ TemplateFound(entry)
    /\ \A d \in DOMAIN entry.deps :
         /\ Cached(JobName(f, entry.deps[d]))
         /\ jobCache[JobName(f, entry.deps[d])].status.succeeded = 1

NoneLeftBehind ==
    Quiescent /\ (\A k \in JobKeys : jobs[k] # None => Ended(jobs[k].status)) =>
       \A f \in Owners : ~Ignored(objects[f]) /\ ~objects[f].deleting =>
          \A j \in DOMAIN objects[f].spec :
             Ready(f, objects[f].spec[j]) => Cached(JobName(f, objects[f].spec[j].name))

(***************************************************************************)
(* Every JobFlow comes to a verdict and keeps one: once the disturbances   *)
(* are over, each object that exists ends up Succeed or Failed for good    *)
(* (Reconcile with its watches, its retries and the pods of its jobs).     *)
(***************************************************************************)
Settles ==
    <>[](\A f \in Owners :
           objects[f].exists => objects[f].status.state \in {"Succeed", "Failed"})
----------------------------------------------------------------------------
(***************************************************************************)
(* README.md: "job2 depends on job1 to complete before starting".  A Job   *)
(* that appears finds the jobs it depends on complete, with as many        *)
(* succeeded pods as they ask for (deployJobFlow, helper.go).              *)
(***************************************************************************)
DependenciesComplete ==
    [][\A k \in JobKeys : jobs[k] = None /\ jobs'[k] # None =>
         \A j \in DOMAIN object.spec : k = JobName(req, object.spec[j].name) =>
            \A d \in DOMAIN object.spec[j].deps :
               LET dependency == jobs[JobName(req, object.spec[j].deps[d])] IN
               dependency # None => dependency.status.succeeded = Completions]_vars
============================================================================
