---------------------------- MODULE JobTemplate ----------------------------
(***************************************************************************)
(* The JobTemplate controller (pkg/controller/                             *)
(* jobflow_template_controller.go): it keeps in status.dependencyList the  *)
(* names of the Jobs made from a JobTemplate.  A Job and its JobTemplate   *)
(* are tied by an annotation only, which prepareJob (helper.go) writes and *)
(* which the handlers of the Job watch take apart again.                   *)
(***************************************************************************)
EXTENDS Naturals, Sequences, FiniteSets

CONSTANTS
    None,
    Templates,        \* the JobTemplates a user may create
    Namespace,        \* Namespace[t]
    Name,             \* Name[t]: its name, as the parts between the dots
    JobKeys,          \* the Jobs, each a pair of a namespace and a name
    MaxLag,           \* how many versions of a Job its cached copy may lag behind
    Disturbances,     \* the kinds of disturbance that may happen
    MaxDisturbances   \* how many of them may happen in a behaviour

ASSUME JobTemplateAssumption ==
    /\ Namespace \in [Templates -> STRING]
    /\ Name \in [Templates -> Seq(STRING) \ {<<>>}]
    /\ JobKeys \subseteq STRING \X STRING
    /\ MaxLag \in Nat \ {0}
    /\ Disturbances \subseteq {"deleteJob", "deleteTemplate", "editTemplate", "relist",
                               "apiError", "restart"}
    /\ MaxDisturbances \in Nat
    /\ None \notin Templates \cup Seq(STRING)

(***************************************************************************)
(* The annotation createByJobTemplate: namespace and name joined by a dot. *)
(* As a sequence of parts it is also what splitting at the dots gives.  A  *)
(* Job without the annotation has no parts.                                *)
(***************************************************************************)
Connection(t) == <<Namespace[t]>> \o Name[t]
Annotations == {Connection(t) : t \in Templates} \cup {<<>>}
Version == Annotations \cup {None}

Tokens == 0 .. 2
Names == {k[2] : k \in JobKeys}
Object == [exists : BOOLEAN, rv : Tokens, dependencyList : Seq(Names)]
Absent == [exists |-> FALSE, rv |-> 0, dependencyList |-> <<>>]

ASSUME ObjectAssumption == None \notin Object

VARIABLES
    jobs,          \* API server: key |-> the annotation of the Job, None without one
    watch,         \* key |-> the versions the cache has not seen, oldest first
    jobCache,      \* key |-> the version the cache shows
    templates,     \* API server: the JobTemplates
    templateCache, \* the informer cache of them
    queue,         \* the work queue
    req,           \* the request the worker reconciles, None when idle
    pc,            \* the point the call is at
    object,        \* the JobTemplate it has read
    found,         \* the Jobs it has listed
    linked,        \* history: <<key, template>> for each Job made from a template
    budget         \* how many disturbances are left

jobVars == <<jobs, watch, jobCache, linked>>
templateVars == <<templates, templateCache>>
call == <<req, pc, object, found>>
vars == <<jobVars, templateVars, queue, call, budget>>

TypeOK ==
    /\ jobs \in [JobKeys -> Version] /\ jobCache \in [JobKeys -> Version]
    /\ watch \in [JobKeys -> Seq(Version)]
    /\ templates \in [Templates -> Object] /\ templateCache \in [Templates -> Object]
    /\ queue \subseteq Templates
    /\ req \in Templates \cup {None}
    /\ pc \in {"idle", "get", "list", "update"}
    /\ pc = "idle" <=> req = None
    /\ IF pc \in {"list", "update"} THEN object \in Object ELSE object = None
    /\ IF pc = "update" THEN found \in (SUBSET JobKeys) \ {{}} ELSE found = {}
    /\ linked \subseteq JobKeys \X Templates
    /\ budget \in 0 .. MaxDisturbances

Init ==
    /\ jobs = [k \in JobKeys |-> None]
    /\ jobCache = jobs
    /\ watch = [k \in JobKeys |-> <<>>]
    /\ templates = [t \in Templates |-> Absent]
    /\ templateCache = templates
    /\ queue = {}
    /\ req = None /\ pc = "idle" /\ object = None /\ found = {}
    /\ linked = {}
    /\ budget = MaxDisturbances

Disturb(kind) == kind \in Disturbances /\ budget > 0 /\ budget' = budget - 1
----------------------------------------------------------------------------
(***************************************************************************)
(* The API server and its users.  A Job is made from a JobTemplate by the  *)
(* JobFlow controller, or has nothing to do with one; its status changes   *)
(* any number of times, which is a version with the same annotation.       *)
(***************************************************************************)
Put(k, version) ==
    /\ Len(watch[k]) < MaxLag
    /\ jobs' = [jobs EXCEPT ![k] = version]
    /\ watch' = [watch EXCEPT ![k] = Append(@, version)]
    /\ UNCHANGED <<jobCache, templateVars, queue, call>>

MadeFrom(k, annotation) == {<<k, t>> : t \in {u \in Templates : Connection(u) = annotation}}

CreateJob(k) ==
    /\ jobs[k] = None
    /\ \E annotation \in Annotations :
         /\ Put(k, annotation)
         /\ linked' = linked \cup MadeFrom(k, annotation)
    /\ UNCHANGED budget
ChangeJob(k) == jobs[k] # None /\ Put(k, jobs[k]) /\ UNCHANGED <<linked, budget>>
DeleteJob(k) == jobs[k] # None /\ Put(k, None) /\ Disturb("deleteJob") /\ UNCHANGED linked

NewToken(t) ==
    CHOOSE v \in Tokens :
       v # templateCache[t].rv /\ (req = t /\ object # None => v # object.rv)
Store(t, new) == templates' = [templates EXCEPT ![t] = [new EXCEPT !.rv = NewToken(t)]]

EditTemplate(t) ==
    /\ \/ ~templates[t].exists /\ Store(t, [Absent EXCEPT !.exists = TRUE]) /\ UNCHANGED budget
       \/ templates[t].exists /\ Store(t, templates[t]) /\ Disturb("editTemplate")
       \/ templates[t].exists /\ Store(t, Absent) /\ Disturb("deleteTemplate")
    /\ UNCHANGED <<jobVars, templateCache, queue, call>>
----------------------------------------------------------------------------
(***************************************************************************)
(* The handlers of the Job watch split the annotation at every dot and     *)
(* take the first two parts for a namespace and a name.                    *)
(***************************************************************************)
Woken(annotation) ==
    {t \in Templates : annotation # <<>> /\ Namespace[t] = annotation[1]
                                         /\ Name[t] = <<annotation[2]>>}
Wake(annotation) == queue' = queue \cup Woken(annotation)

Observe(k) ==
    /\ watch[k] # <<>>
    /\ jobCache' = [jobCache EXCEPT ![k] = Head(watch[k])]
    /\ watch' = [watch EXCEPT ![k] = Tail(@)]
    /\ UNCHANGED <<jobs, linked, templateVars, call, budget>>

JobCreateTemplateHandler(k) ==
    Observe(k) /\ jobCache[k] = None /\ Head(watch[k]) # None /\ Wake(Head(watch[k]))
JobUpdateTemplateHandler(k) ==
    Observe(k) /\ jobCache[k] # None /\ Head(watch[k]) # None /\ Wake(Head(watch[k]))
JobDeleteTemplateHandler_Silent(k) ==      \* mutant: a Job that goes wakes nobody
    Observe(k) /\ jobCache[k] # None /\ Head(watch[k]) = None /\ UNCHANGED queue
JobDeleteTemplateHandler(k) ==
    Observe(k) /\ jobCache[k] # None /\ Head(watch[k]) = None /\ Wake(jobCache[k])

DeliverJob(k) ==
    \/ JobCreateTemplateHandler(k) \/ JobUpdateTemplateHandler(k)
    \/ JobDeleteTemplateHandler(k)

(***************************************************************************)
(* For(JobTemplate): each change of an object enqueues it, the controller's*)
(* own writes included.                                                    *)
(***************************************************************************)
OnTemplate(t) ==
    /\ templateCache[t] # templates[t]
    /\ templateCache' = [templateCache EXCEPT ![t] = templates[t]]
    /\ queue' = queue \cup {t}
    /\ UNCHANGED <<jobVars, templates, call, budget>>

\* A broken watch is replaced by a list: versions in between are never seen.
Relist ==
    /\ Disturb("relist")
    /\ watch' = [k \in JobKeys |-> IF jobCache[k] = jobs[k] THEN <<>> ELSE <<jobs[k]>>]
    /\ UNCHANGED <<jobs, jobCache, linked, templateVars, queue, call>>
----------------------------------------------------------------------------
(***************************************************************************)
(* Reconcile.                                                              *)
(***************************************************************************)
Leave == req' = None /\ pc' = "idle" /\ object' = None /\ found' = {}
Finish == Leave /\ UNCHANGED queue
Requeue == Leave /\ queue' = queue \cup {req}

Start(t) ==
    /\ req = None /\ t \in queue
    /\ req' = t /\ queue' = queue \ {t} /\ pc' = "get"
    /\ UNCHANGED <<jobVars, templateVars, object, found, budget>>

GetJobTemplate ==
    /\ pc = "get"
    /\ IF templateCache[req].exists
         THEN object' = templateCache[req] /\ pc' = "list" /\ UNCHANGED <<queue, req, found>>
         ELSE Finish
    /\ UNCHANGED <<jobVars, templateVars, budget>>

(***************************************************************************)
(* updateJobTemplateStatus keeps, of all Jobs of the cluster, those whose  *)
(* annotation is the one of this object; with none it returns before the   *)
(* update.                                                                 *)
(***************************************************************************)
Users_ByParts(t) == {k \in JobKeys : jobCache[k] # None /\ t \in Woken(jobCache[k])}  \* mutant
Users(t) == {k \in JobKeys : jobCache[k] = Connection(t)}

ListJobs_Always ==    \* mutant: a list with nobody on it is written, too
    /\ pc = "list"
    /\ found' = Users(req) /\ pc' = "update"
    /\ UNCHANGED <<jobVars, templateVars, queue, req, object, budget>>

ListJobs ==
    /\ pc = "list"
    /\ IF Users(req) = {} THEN Finish
       ELSE found' = Users(req) /\ pc' = "update" /\ UNCHANGED <<queue, req, object>>
    /\ UNCHANGED <<jobVars, templateVars, budget>>

(***************************************************************************)
(* The cached list comes in any order, and so do the names written.  The   *)
(* update is refused when the object has changed since it was read; one    *)
(* that changes nothing leaves the object as it is.                        *)
(***************************************************************************)
Orders(S) ==
    {[i \in DOMAIN f |-> f[i][2]] :
        f \in {g \in [1 .. Cardinality(S) -> S] : \A i, j \in DOMAIN g : g[i] = g[j] => i = j}}

WriteList ==
    /\ templates[req].exists /\ templates[req].rv = object.rv
    /\ \E names \in Orders(found) :
         IF names = object.dependencyList THEN UNCHANGED templates
         ELSE Store(req, [templates[req] EXCEPT !.dependencyList = names])

UpdateStatus ==
    /\ pc = "update"
    /\ \/ WriteList /\ Finish
       \/ ~templates[req].exists /\ Finish /\ UNCHANGED templates
       \/ /\ templates[req].exists /\ templates[req].rv # object.rv
          /\ Requeue /\ UNCHANGED templates
    /\ UNCHANGED <<jobVars, templateCache, budget>>

Worker == GetJobTemplate \/ ListJobs \/ UpdateStatus

(***************************************************************************)
(* A read or a write fails, or a write takes effect and its answer is lost:*)
(* Reconcile returns the error and controller-runtime tries again.         *)
(***************************************************************************)
ApiError ==
    /\ pc # "idle"
    /\ UNCHANGED templates \/ (pc = "update" /\ WriteList)
    /\ Disturb("apiError")
    /\ Requeue
    /\ UNCHANGED <<jobVars, templateCache>>

Crash ==
    /\ Disturb("restart")
    /\ Leave
    /\ watch' = [k \in JobKeys |-> <<>>]
    /\ jobCache' = jobs
    /\ templateCache' = templates
    /\ queue' = {t \in Templates : templates[t].exists}
    /\ UNCHANGED <<jobs, linked, templates>>
----------------------------------------------------------------------------
Next ==
    \/ Worker \/ ApiError \/ Crash \/ Relist
    \/ \E t \in Templates : Start(t) \/ OnTemplate(t) \/ EditTemplate(t)
    \/ \E k \in JobKeys : CreateJob(k) \/ ChangeJob(k) \/ DeleteJob(k) \/ DeliverJob(k)

(***************************************************************************)
(* Fairness: the worker runs and takes each request sooner or later, the   *)
(* watches deliver.  Users, the JobFlow controller and failures are under  *)
(* no obligation.                                                          *)
(***************************************************************************)
Fairness ==
    /\ WF_vars(Worker)
    /\ \A t \in Templates : SF_vars(Start(t)) /\ WF_vars(OnTemplate(t))
    /\ \A k \in JobKeys : WF_vars(DeliverJob(k))

Spec == Init /\ [][Next]_vars
FairSpec == Spec /\ Fairness
----------------------------------------------------------------------------
ListOf(t) == {templates[t].dependencyList[i] : i \in DOMAIN templates[t].dependencyList}

(***************************************************************************)
(* No Job is charged to the wrong JobTemplate: a name in a dependencyList  *)
(* is that of a Job made from this JobTemplate, although the namespace and *)
(* the name are glued into one annotation, a name may have dots itself and *)
(* the handlers, which split at every dot, then wake another JobTemplate   *)
(* (updateJobTemplateStatus and the handlers below it).                    *)
(***************************************************************************)
ListSound ==
    \A t \in Templates : \A n \in ListOf(t) : \E k \in JobKeys : k[2] = n /\ <<k, t>> \in linked

(***************************************************************************)
(* No wakeup is lost: with nothing queued, nothing running and the caches  *)
(* current, the list of each JobTemplate that has Jobs names exactly them  *)
(* (the handlers, the retries of Reconcile and the conflict of the status  *)
(* update).  It says nothing of a JobTemplate whose last Job is gone, which*)
(* keeps its list, nor of one with a dot in its name, which its Jobs do    *)
(* not wake.                                                               *)
(***************************************************************************)
Quiescent ==
    /\ req = None /\ queue = {}
    /\ \A k \in JobKeys : watch[k] = <<>>
    /\ templateCache = templates

Current(t) ==
    templates[t].exists /\ Users(t) # {} /\ Len(Name[t]) = 1
       => ListOf(t) = {k[2] : k \in Users(t)}

ListCurrent == Quiescent => \A t \in Templates : Current(t)

(***************************************************************************)
(* The list becomes right and stays so, even if the names come in another  *)
(* order each time and every write wakes the controller again, so that it  *)
(* may never be quiescent (Reconcile with the random order of the cached   *)
(* list).                                                                  *)
(***************************************************************************)
ListConverges == <>[](\A t \in Templates : Current(t))
============================================================================
