------------------------------ MODULE Cluster ------------------------------
(***************************************************************************)
(* What a controller of the operator runs against, the same for the        *)
(* JobFlow and for the DaemonJob controller: the API server with its Jobs  *)
(* and its custom resources, the informer caches every read is answered    *)
(* from, the work queue and the worker of controller-runtime, the Job      *)
(* controller, the garbage collector and the users.                        *)
(*                                                                         *)
(* A controller module EXTENDS this one, adds the locals of its Reconcile  *)
(* and says which steps the call takes.  The actions here constrain the    *)
(* variables declared here and no others.                                  *)
(***************************************************************************)
EXTENDS JobState, Sequences

CONSTANTS
    Owners,          \* the custom resources a user may create
    Namespace,       \* Namespace[o]: the namespace of o
    Name,            \* Name[o]: its name, a sequence of tokens joined by "-"
    Specs,           \* Specs[o]: the values the spec of o may be given
    JobKeys,         \* the namespaced names of Jobs
    Completions,     \* spec.completions of every Job
    Parallelism,     \* spec.parallelism of every Job
    MaxLag,          \* how many versions of a Job its cached copy may lag behind
    Disturbances,    \* the kinds of disturbance that may happen
    MaxDisturbances  \* how many of them may happen in a behaviour

DisturbanceKinds == {"deleteJob", "relist", "deleteObject", "foreground", "recreate",
                     "editObject", "editTemplate",
                     "apiError", "badRequest", "restart", "editNode"}

ASSUME ClusterAssumption ==
    /\ Namespace \in [Owners -> STRING]
    /\ Name \in [Owners -> Seq(STRING)]
    /\ DOMAIN Specs = Owners
    /\ {Completions, Parallelism, MaxLag} \subseteq Nat \ {0}
    /\ Disturbances \subseteq DisturbanceKinds
    /\ MaxDisturbances \in Nat

(***************************************************************************)
(* The key of a Job.  Its name is the name of its owner and that of a flow *)
(* entry or a node, glued with "-" as concatenation does to sequences of   *)
(* tokens: <<"a">> and <<"b", "c">> give the same Job as <<"a", "b">> and  *)
(* <<"c">>.                                                                *)
(***************************************************************************)
JobName(o, n) == <<Namespace[o], Name[o] \o n>>

(***************************************************************************)
(* A Job has one owner reference, with the name and the uid of the object  *)
(* it was made for.                                                        *)
(***************************************************************************)
Job == [owner : Owners, uid : Nat, status : JobStatus]
Version == Job \cup {None}

(***************************************************************************)
(* A custom resource.  exists is FALSE before it is created and after it   *)
(* is deleted; uid counts its incarnations; rv is its resourceVersion, an  *)
(* opaque token that is only compared with the one in a copy.              *)
(***************************************************************************)
List == [JobKeys -> JobStatus \cup {None}]
Status == [state : States, list : List]
NoStatus == [state |-> "", list |-> [k \in JobKeys |-> None]]
Tokens == 0 .. 2
Live(o) == [exists : {TRUE}, uid : Nat, rv : Tokens, spec : Specs[o],
            deleting : BOOLEAN, status : Status]
Gone == [exists : {FALSE}, uid : Nat, rv : Tokens, spec : {None},
         deleting : {FALSE}, status : {NoStatus}]
Object(o) == Live(o) \cup Gone
Absent(uid) == [exists |-> FALSE, uid |-> uid, rv |-> 0, spec |-> None,
                deleting |-> FALSE, status |-> NoStatus]
Never == Absent(0)

ASSUME NoneAssumption ==
    None \notin Job /\ None \notin JobStatus /\ \A o \in Owners : None # o /\ None \notin Object(o)

VARIABLES
    jobs,          \* API server: key |-> Job or None
    watch,         \* key |-> the versions the cache has not seen, oldest first
    jobCache,      \* key |-> the version the cache shows
    reported,      \* history: <<key, counter>> for each counter shown at 1
    objects,       \* API server: the custom resources
    objectCache,   \* the informer cache of them
    queue,         \* the work queue of the controller
    req,           \* the request its only worker reconciles, None when idle
    object,        \* the copy of the object the call has read, None before
    budget         \* how many disturbances are left

jobVars == <<jobs, watch, jobCache, reported>>
objectVars == <<objects, objectCache>>
callVars == <<queue, req, object>>
clusterVars == <<jobVars, objectVars, callVars, budget>>

ClusterTypeOK ==
    /\ jobs \in [JobKeys -> Version]
    /\ watch \in [JobKeys -> Seq(Version)]
    /\ jobCache \in [JobKeys -> Version]
    /\ reported \subseteq JobKeys \X {"succeeded", "failed"}
    /\ DOMAIN objects = Owners /\ \A o \in Owners : objects[o] \in Object(o)
    /\ DOMAIN objectCache = Owners /\ \A o \in Owners : objectCache[o] \in Object(o)
    /\ queue \subseteq Owners
    /\ req \in Owners \cup {None}
    /\ object # None => req # None /\ object \in Live(req)
    /\ budget \in 0 .. MaxDisturbances

ClusterInit ==
    /\ jobs = [k \in JobKeys |-> None]
    /\ watch = [k \in JobKeys |-> <<>>]
    /\ jobCache = jobs
    /\ reported = {}
    /\ objects = [o \in Owners |-> Never]
    /\ objectCache = objects
    /\ queue = {}
    /\ req = None
    /\ object = None
    /\ budget = MaxDisturbances

Disturb(kind) ==
    /\ kind \in Disturbances
    /\ budget > 0
    /\ budget' = budget - 1
----------------------------------------------------------------------------
(***************************************************************************)
(* Jobs at the API server.  Each change is a version the watch will carry, *)
(* None when the Job is deleted.                                           *)
(***************************************************************************)
Put(k, version) ==
    /\ Len(watch[k]) < MaxLag
    /\ jobs' = [jobs EXCEPT ![k] = version]
    /\ watch' = [watch EXCEPT ![k] = Append(@, version)]
    /\ UNCHANGED jobCache
Add(k, job) == jobs[k] = None /\ Put(k, job) /\ UNCHANGED reported
Remove(k) == jobs[k] # None /\ Put(k, None) /\ UNCHANGED reported

(***************************************************************************)
(* The Job controller.  The operator forces backoffLimit 0 and             *)
(* restartPolicy Never, so the first failing pod ends its Job; the pods    *)
(* still running then are stopped, and counted as failed or not.           *)
(***************************************************************************)
SetStatus(k, s) ==
    /\ Put(k, [jobs[k] EXCEPT !.status = s])
    /\ reported' = reported \cup {r \in {k} \X {"succeeded", "failed"} : s[r[2]] = 1}

PodStarts(k, s) ==
    /\ s.failed = 0
    /\ s.active < Parallelism
    /\ s.active + s.succeeded < Completions
    /\ SetStatus(k, [s EXCEPT !.active = @ + 1])

PodSucceeds(k, s) ==
    /\ s.active > 0
    /\ SetStatus(k, [s EXCEPT !.active = @ - 1, !.succeeded = @ + 1])

PodFails(k, s) ==
    /\ s.active > 0
    /\ \E n \in 1 .. s.active : SetStatus(k, [s EXCEPT !.active = 0, !.failed = n])

\* A Job none of whose pods can move any more.
Ended(s) == s.active = 0 /\ (s.failed > 0 \/ s.succeeded >= Completions)

Pod(k) ==
    /\ jobs[k] # None
    /\ LET s == jobs[k].status IN PodStarts(k, s) \/ PodSucceeds(k, s) \/ PodFails(k, s)
    /\ UNCHANGED <<objectVars, callVars, budget>>

(***************************************************************************)
(* A Job is removed by a user or by its ttl, or collected because its      *)
(* owner is gone or being deleted in the foreground.                       *)
(***************************************************************************)
DeleteJob(k) ==
    /\ Remove(k)
    /\ Disturb("deleteJob")
    /\ UNCHANGED <<objectVars, callVars>>

Orphan(job) == ~objects[job.owner].exists \/ objects[job.owner].uid # job.uid

CollectJob(k) ==
    /\ Remove(k)
    /\ Orphan(jobs[k]) \/ objects[jobs[k].owner].deleting
    /\ UNCHANGED <<objectVars, callVars, budget>>
----------------------------------------------------------------------------
(***************************************************************************)
(* Custom resources at the API server.  A version gets a resourceVersion   *)
(* that no copy of an earlier version has.                                 *)
(***************************************************************************)
NewToken(o) ==
    CHOOSE v \in Tokens : /\ v # objectCache[o].rv
                          /\ (req = o /\ object # None) => v # object.rv
Store(o, new) == objects' = [objects EXCEPT ![o] = [new EXCEPT !.rv = NewToken(o)]]

Edit(o, new) == Store(o, new) /\ UNCHANGED <<jobVars, objectCache, callVars>>

(***************************************************************************)
(* The users.  Creating an object again and every other change after the   *)
(* first creation are disturbances.                                        *)
(***************************************************************************)
CreateObject(o) ==
    /\ ~objects[o].exists
    /\ IF objects[o].uid = 0 THEN UNCHANGED budget ELSE Disturb("recreate")
    /\ \E s \in Specs[o] :
         Edit(o, [objects[o] EXCEPT !.exists = TRUE, !.uid = @ + 1, !.spec = s])

EditObject(o) ==
    /\ objects[o].exists
    /\ Disturb("editObject")
    /\ \E s \in Specs[o] \ {objects[o].spec} : Edit(o, [objects[o] EXCEPT !.spec = s])

DeleteObject(o) ==
    /\ objects[o].exists
    /\ Disturb("deleteObject")
    /\ Edit(o, Absent(objects[o].uid))

DeleteInForeground(o) ==
    /\ objects[o].exists /\ ~objects[o].deleting
    /\ Disturb("foreground")
    /\ Edit(o, [objects[o] EXCEPT !.deleting = TRUE])

(***************************************************************************)
(* The garbage collector removes the foregroundDeletion finalizer: no Job  *)
(* blocks it, the owner references do not ask for that.                    *)
(***************************************************************************)
Finalize(o) ==
    /\ objects[o].exists /\ objects[o].deleting
    /\ Edit(o, Absent(objects[o].uid))
    /\ UNCHANGED budget
----------------------------------------------------------------------------
(***************************************************************************)
(* The informer of Jobs takes the oldest version it has not seen, and runs *)
(* the handler registered for what it means.  No CreateFunc is registered: *)
(* a Job that appears enqueues nothing.                                    *)
(***************************************************************************)
Observe(k) ==
    /\ watch[k] # <<>>
    /\ jobCache' = [jobCache EXCEPT ![k] = Head(watch[k])]
    /\ watch' = [watch EXCEPT ![k] = Tail(@)]
    /\ UNCHANGED <<jobs, reported, objectVars, req, object, budget>>

Enqueue(o) == queue' = queue \cup {o}

OnCreateJob(k) == Observe(k) /\ jobCache[k] = None /\ UNCHANGED queue

OnUpdateJob_SuccessOnly(k) ==      \* mutant: a failure wakes nobody
    /\ Observe(k)
    /\ jobCache[k] # None /\ Head(watch[k]) # None
    /\ IF Head(watch[k]).status.succeeded = 1 THEN Enqueue(Head(watch[k]).owner)
                                              ELSE UNCHANGED queue

OnUpdateJob(k) ==
    /\ Observe(k)
    /\ jobCache[k] # None /\ Head(watch[k]) # None
    /\ Enqueue(Head(watch[k]).owner)

OnDeleteJob(k) ==
    /\ Observe(k)
    /\ jobCache[k] # None /\ Head(watch[k]) = None
    /\ Enqueue(jobCache[k].owner)

DeliverJob(k) == OnCreateJob(k) \/ OnUpdateJob(k) \/ OnDeleteJob(k)

(***************************************************************************)
(* For(...): every change of a custom resource enqueues it.  The versions  *)
(* between the cached one and the present one may be skipped, since the    *)
(* request is the same for each.                                           *)
(***************************************************************************)
OnObject(o) ==
    /\ objectCache[o] # objects[o]
    /\ objectCache' = [objectCache EXCEPT ![o] = objects[o]]
    /\ Enqueue(o)
    /\ UNCHANGED <<jobVars, objects, req, object, budget>>

(***************************************************************************)
(* A broken watch is replaced by a list: the versions in between are never *)
(* seen.                                                                   *)
(***************************************************************************)
Relist ==
    /\ Disturb("relist")
    /\ watch' = [k \in JobKeys |-> IF jobCache[k] = jobs[k] THEN <<>> ELSE <<jobs[k]>>]
    /\ UNCHANGED <<jobs, jobCache, reported, objectVars, callVars>>

CacheCurrent == (\A k \in JobKeys : watch[k] = <<>>) /\ objectCache = objects
Quiescent == req = None /\ queue = {} /\ CacheCurrent
----------------------------------------------------------------------------
(***************************************************************************)
(* The worker takes a request.  A request added while the worker holds the *)
(* same one stays in the queue until it is done with it.                   *)
(***************************************************************************)
Dequeue(o) ==
    /\ req = None
    /\ o \in queue
    /\ req' = o
    /\ queue' = queue \ {o}
    /\ UNCHANGED <<jobVars, objectVars, object, budget>>

(***************************************************************************)
(* What a call reads.  Cached is a Get of a Job.  Nothing is done for an   *)
(* object that is gone or whose state is Failed.  The status is made from  *)
(* a List of every Job of the cluster: those with an owner reference to an *)
(* object of this name are kept, and neither the namespace nor the uid of  *)
(* the reference is compared.                                              *)
(***************************************************************************)
Cached(k) == k \in JobKeys /\ jobCache[k] # None

Ignored_OnlyFailed(o) == o.status.state = "Failed"    \* mutant: NotFound is not looked at
Ignored_OnlyAbsent(o) == ~o.exists    \* mutant: Failed is not looked at
Ignored(o) == ~o.exists \/ o.status.state = "Failed"

OwnedList(o) ==
    [k \in JobKeys |-> IF jobCache[k] # None /\ Name[jobCache[k].owner] = Name[o]
                         THEN jobCache[k].status ELSE None]

(***************************************************************************)
(* The job a call makes, with an owner reference to the object it has read.*)
(***************************************************************************)
NewJob_FirstUid == [owner |-> req, uid |-> 1, status |-> NewStatus]
    \* mutant: the uid of the first object of the name, whichever was read

NewJob == [owner |-> req, uid |-> object.uid, status |-> NewStatus]

(***************************************************************************)
(* How a call of Reconcile ends.  With a nil error the request is          *)
(* forgotten; with an error controller-runtime adds it back, rate limited, *)
(* whatever the Result says.                                               *)
(***************************************************************************)
Forget == req' = None /\ object' = None
Finish == Forget /\ UNCHANGED queue
Requeue == Forget /\ Enqueue(req)

(***************************************************************************)
(* Status().Update carries the resourceVersion of the copy: the API server *)
(* refuses it when the object has changed since.  A write that changes     *)
(* nothing leaves the resourceVersion as it is.  NotFound is no error.     *)
(***************************************************************************)
WriteStatus(s) ==
    /\ objects[req].exists
    /\ objects[req].rv = object.rv
    /\ IF s = objects[req].status THEN UNCHANGED objects
                                  ELSE Store(req, [objects[req] EXCEPT !.status = s])

PutStatus(s) ==
    \/ WriteStatus(s) /\ Finish
    \/ ~objects[req].exists /\ Finish /\ UNCHANGED objects
    \/ objects[req].exists /\ objects[req].rv # object.rv /\ Requeue /\ UNCHANGED objects

(***************************************************************************)
(* The operator stops and starts again: the queue and the call in progress *)
(* are lost, the caches are listed anew before the controller starts, and  *)
(* each object of the first list is an Add event.                          *)
(***************************************************************************)
Restart ==
    /\ Disturb("restart")
    /\ Forget
    /\ watch' = [k \in JobKeys |-> <<>>]
    /\ jobCache' = jobs
    /\ objectCache' = objects
    /\ queue' = {o \in Owners : objects[o].exists}
    /\ UNCHANGED <<jobs, reported, objects>>
----------------------------------------------------------------------------
(***************************************************************************)
(* What goes on around the controller.                                     *)
(***************************************************************************)
Environment ==
    \/ Relist
    \/ \E k \in JobKeys : Pod(k) \/ DeliverJob(k) \/ DeleteJob(k) \/ CollectJob(k)
    \/ \E o \in Owners :
         \/ OnObject(o) \/ CreateObject(o) \/ EditObject(o)
         \/ DeleteObject(o) \/ DeleteInForeground(o) \/ Finalize(o)
----------------------------------------------------------------------------
(***************************************************************************)
(* Failed is final: as long as the object lives no step takes its state    *)
(* from Failed to another one, even when a call that read an older version *)
(* is still on its way to the status update (Reconcile of both             *)
(* controllers, jobflow_controller.go and daemonjob_controller.go).        *)
(***************************************************************************)
FailedStays ==
    \A o \in Owners :
       /\ objects[o].exists /\ objects[o].status.state = "Failed"
       /\ objects'[o].exists /\ objects'[o].uid = objects[o].uid
       => objects'[o].status.state = "Failed"

FailedIsFinal == [][FailedStays]_objects

(***************************************************************************)
(* In the end no job outlives its object: the controller stops recreating  *)
(* the jobs of an object that is gone, and the jobs a new object of the    *)
(* same name finds are replaced by its own (the owner references made by   *)
(* prepareJob, helper.go, and prepareJobFromDaemonJob).                    *)
(***************************************************************************)
NoOrphans == <>[](\A k \in JobKeys : jobs[k] # None => ~Orphan(jobs[k]))
============================================================================
