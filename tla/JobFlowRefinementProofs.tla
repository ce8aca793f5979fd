---------------------- MODULE JobFlowRefinementProofs ----------------------
(***************************************************************************)
(* The JobFlow controller implements FlowOrder, step by step, for every    *)
(* cluster, every plan and every bound.                                    *)
(***************************************************************************)
EXTENDS JobFlowRefinement, JobFlowProofs

(***************************************************************************)
(* The promise is for a flow with one spec, whose entries depend on each   *)
(* other only and whose jobs are no jobs of another flow, and that nobody  *)
(* deletes.                                                                *)
(***************************************************************************)
OnePlan ==
    /\ Promised \in Owners
    /\ \E s : Specs[Promised] = {s}
    /\ \A j \in DOMAIN Plan : \A n \in DOMAIN Plan[j].deps :
         \E i \in DOMAIN Plan : Plan[i].name = Plan[j].deps[n]
OwnJobs == \A o \in Owners \ {Promised} : EntryKeys[o] \cap FlowJobs = {}
NeverDeleted == Disturbances \cap {"deleteObject", "foreground"} = {}

LEMMA PlanFacts ==
    ASSUME OnePlan, OneJobEach, SameEntries
    PROVE  /\ Specs[Promised] = {Plan}
           /\ Plan \in Seq(Flow)
           /\ FlowJobs = EntryKeys[Promised]
           /\ FlowJobs \subseteq JobKeys
           /\ \A i, j \in DOMAIN Plan : KeyOf(Plan[i].name) = KeyOf(Plan[j].name) => i = j
<1>1. Specs[Promised] = {Plan} /\ Promised \in Owners
  BY DEF OnePlan, Plan
<1>2. Plan \in Seq(Flow)
  BY <1>1, JobFlowAssumption
<1>3. FlowJobs = EntryKeys[Promised]
  BY <1>1, EntryCount DEF FlowJobs, KeyOf
<1>4. \A j \in DOMAIN Plan : Plan[j].name \in Seq(STRING)
  <2>1. \A j \in DOMAIN Plan : Plan[j] \in Flow
    BY <1>2
  <2>. QED BY <2>1 DEF Flow
<1>5. \A i, j \in DOMAIN Plan : KeyOf(Plan[i].name) = KeyOf(Plan[j].name) => i = j
  BY <1>1, <1>4, JobNamesDiffer DEF KeyOf, OneJobEach
<1>. QED BY <1>1, <1>2, <1>3, <1>5 DEF EntryKeys

(***************************************************************************)
(* What a step can do to the Jobs of the cluster: nothing, make one,       *)
(* remove one, or change the status of one, which shows at most one        *)
(* counter at 1 that had not been shown.                                   *)
(***************************************************************************)
Only(k) == \A l \in JobKeys \ {k} : jobs'[l] = jobs[l]
Makes(k) == /\ jobs[k] = None /\ jobs'[k] # None /\ Only(k) /\ reported' = reported
            /\ object # None
Removes(k) == jobs[k] # None /\ jobs'[k] = None /\ Only(k) /\ reported' = reported
Counts(k) ==
    /\ jobs[k] # None /\ jobs'[k] # None /\ Only(k)
    /\ reported' \in {reported, reported \cup {<<k, "succeeded">>},
                      reported \cup {<<k, "failed">>}}
JobsStay == UNCHANGED <<jobs, reported>>

LEMMA PodCounts ==
    ASSUME ClusterTypeOK, VersionsSound(EntryKeys), NEW k \in JobKeys, Pod(k) PROVE Counts(k)
<1> DEFINE old == jobs[k].status
           shown(s) == {r \in {k} \X {"succeeded", "failed"} : s[r[2]] = 1}
<1>1. jobs[k] # None /\ old \in JobStatus
  BY DEF Pod, ClusterTypeOK, Version, Job
<1>2. /\ old.succeeded = 1 => <<k, "succeeded">> \in reported
      /\ old.failed = 1 => <<k, "failed">> \in reported
  BY <1>1 DEF VersionsSound, Sound
<1>3. PICK s \in JobStatus :
         SetStatus(k, s) /\ (s.failed = old.failed \/ s.succeeded = old.succeeded)
  <2>1. CASE PodStarts(k, old)
    <3> DEFINE s == [old EXCEPT !.active = @ + 1]
    <3>1. s \in JobStatus /\ s.failed = old.failed
      BY <1>1 DEF JobStatus
    <3>. QED BY <2>1, <3>1 DEF PodStarts
  <2>2. CASE PodSucceeds(k, old)
    <3> DEFINE s == [old EXCEPT !.active = @ - 1, !.succeeded = @ + 1]
    <3>1. old.active - 1 \in Nat /\ old.succeeded + 1 \in Nat
      BY <1>1, <2>2 DEF PodSucceeds, JobStatus
    <3>2. s \in JobStatus /\ s.failed = old.failed
      BY <1>1, <3>1, CountersType DEF JobStatus
    <3>. QED BY <2>2, <3>2 DEF PodSucceeds
  <2>3. CASE PodFails(k, old)
    <3>1. PICK n \in 1 .. old.active : SetStatus(k, [old EXCEPT !.active = 0, !.failed = n])
      BY <2>3 DEF PodFails
    <3> DEFINE s == [old EXCEPT !.active = 0, !.failed = n]
    <3>2. n \in Nat
      OBVIOUS
    <3>3. s \in JobStatus /\ s.succeeded = old.succeeded
      BY <1>1, <3>2, CountersType DEF JobStatus
    <3>. QED BY <3>1, <3>3
  <2>. QED BY <2>1, <2>2, <2>3 DEF Pod
<1>4. shown(s) \subseteq {<<k, "succeeded">>, <<k, "failed">>}
  OBVIOUS
<1>5. reported' = reported \cup shown(s) /\ Put(k, [jobs[k] EXCEPT !.status = s])
  BY <1>3 DEF SetStatus
<1>6. [jobs[k] EXCEPT !.status = s] # None
  BY <1>1, NoneAssumption DEF ClusterTypeOK, Version, Job
<1>7. jobs'[k] # None /\ Only(k)
  BY <1>5, <1>6 DEF Put, ClusterTypeOK, Only
<1>. QED BY <1>1, <1>2, <1>3, <1>4, <1>5, <1>7 DEF Counts

LEMMA RemoveRemoves ==
    ASSUME ClusterTypeOK, NEW k \in JobKeys, Remove(k) PROVE Removes(k)
<1>. QED BY DEF Remove, Put, Removes, Only, ClusterTypeOK

LEMMA AddMakes ==
    ASSUME ClusterTypeOK, object # None, NEW k \in JobKeys, Add(k, NewJob) PROVE Makes(k)
<1>1. NewJob # None
  BY NewJobType, NoneAssumption
<1>. QED BY <1>1 DEF Add, Put, Makes, Only, ClusterTypeOK

(***************************************************************************)
(* What it can do to the objects: no object is ever being deleted, the     *)
(* users write no status, and a call writes none over Failed.              *)
(***************************************************************************)
NoneDeleting == \A o \in Owners : ~objects[o].deleting
Silent == objects'[Promised].status = objects[Promised].status
Speaks == Silent \/ objects[Promised].status.state # "Failed"

LEMMA StoreSpeaks ==
    ASSUME ClusterTypeOK, NoneDeleting, Promised \in Owners,
           NEW o \in Owners, NEW new \in Object(o), Store(o, new), ~new.deleting
    PROVE  /\ NoneDeleting'
           /\ Silent \/ (o = Promised /\ new.status # objects[o].status)
<1>1. /\ [new EXCEPT !.rv = NewToken(o)].status = new.status
      /\ [new EXCEPT !.rv = NewToken(o)].deleting = new.deleting
  BY DEF Object, Live, Gone
<1>2. /\ objects'[o].status = new.status /\ objects'[o].deleting = new.deleting
      /\ \A p \in Owners \ {o} : objects'[p] = objects[p]
  BY <1>1 DEF Store, ClusterTypeOK
<1>. QED BY <1>2 DEF NoneDeleting, Silent

LEMMA ChangeSilent ==
    ASSUME NeverDeleted, ClusterTypeOK, NoneDeleting, Promised \in Owners,
           NEW o \in Owners, Change(o)
    PROVE  NoneDeleting' /\ Silent
<1>1. CASE CreateObject(o)
  <2>1. PICK s \in Specs[o] :
          Edit(o, [objects[o] EXCEPT !.exists = TRUE, !.uid = @ + 1, !.spec = s])
    BY <1>1 DEF CreateObject
  <2>2. objects[o] \in Gone
    BY <1>1 DEF CreateObject, ClusterTypeOK, Object, Live
  <2> DEFINE new == [objects[o] EXCEPT !.exists = TRUE, !.uid = @ + 1, !.spec = s]
  <2>3. new \in Object(o) /\ new.status = objects[o].status /\ ~new.deleting
    BY <2>2, CreatedType DEF Object, Gone
  <2>. QED BY <2>1, <2>3, StoreSpeaks DEF Edit
<1>2. CASE EditObject(o)
  <2>1. PICK s \in Specs[o] : Edit(o, [objects[o] EXCEPT !.spec = s])
    BY <1>2 DEF EditObject
  <2>2. objects[o] \in Live(o) /\ ~objects[o].deleting
    BY <1>2 DEF EditObject, ClusterTypeOK, Object, Gone, NoneDeleting
  <2> DEFINE new == [objects[o] EXCEPT !.spec = s]
  <2>3. new \in Object(o) /\ new.status = objects[o].status /\ ~new.deleting
    BY <2>2 DEF Object, Live
  <2>. QED BY <2>1, <2>3, StoreSpeaks DEF Edit
<1>3. ASSUME DeleteObject(o) \/ DeleteInForeground(o) \/ Finalize(o) PROVE FALSE
  BY <1>3 DEF DeleteObject, DeleteInForeground, Finalize, Disturb, NeverDeleted, NoneDeleting
<1>. QED BY <1>1, <1>2, <1>3 DEF Change

LEMMA WriteStatusSpeaks ==
    ASSUME ClusterTypeOK, Copies, NoneDeleting, Promised \in Owners, object # None,
           NEW s \in Status, WriteStatus(s)
    PROVE  NoneDeleting' /\ Speaks
<1>1. /\ req \in Owners /\ object = objects[req] /\ objects[req] \in Live(req)
      /\ objects[req].status.state # "Failed" /\ ~objects[req].deleting
  BY DEF ClusterTypeOK, WriteStatus, Copies, NoneDeleting
<1> DEFINE new == [objects[req] EXCEPT !.status = s]
<1>2. new \in Object(req) /\ ~new.deleting
  BY <1>1 DEF Live, Object
<1>3. CASE Store(req, new)
  BY <1>1, <1>2, <1>3, StoreSpeaks DEF Speaks
<1>4. CASE UNCHANGED objects
  BY <1>4 DEF NoneDeleting, Speaks, Silent
<1>. QED BY <1>3, <1>4 DEF WriteStatus

(***************************************************************************)
(* So a step changes a Job or what the flow shows, and not both.           *)
(***************************************************************************)
Seeable ==
    /\ NoneDeleting'
    /\ \/ JobsStay /\ Speaks
       \/ Silent /\ \E k \in JobKeys : Makes(k) \/ Removes(k) \/ Counts(k)

LEMMA EnvironmentSeeable ==
    ASSUME NeverDeleted, Promised \in Owners, ClusterTypeOK, VersionsSound(EntryKeys),
           NoneDeleting, Environment
    PROVE  Seeable
<1>1. ASSUME UNCHANGED objects PROVE NoneDeleting' /\ Silent
  BY <1>1 DEF NoneDeleting, Silent
<1>2. ASSUME NEW k \in JobKeys, Pod(k) PROVE Seeable
  BY <1>1, <1>2, PodCounts DEF Pod, objectVars, Seeable
<1>3. ASSUME NEW k \in JobKeys, DeleteJob(k) \/ CollectJob(k) PROVE Seeable
  BY <1>1, <1>3, RemoveRemoves DEF DeleteJob, CollectJob, objectVars, Seeable
<1>4. CASE Relist \/ (\E k \in JobKeys : DeliverJob(k)) \/ (\E o \in Owners : OnObject(o))
  <2>1. UNCHANGED <<jobs, reported, objects>>
    BY <1>4 DEF Relist, DeliverJob, OnCreateJob, OnUpdateJob, OnDeleteJob, Observe, OnObject,
                jobVars, objectVars
  <2>. QED BY <1>1, <2>1 DEF Seeable, JobsStay, Speaks
<1>5. ASSUME NEW o \in Owners, Change(o) PROVE Seeable
  <2>1. UNCHANGED <<jobs, reported>>
    BY <1>5, ChangeIsEdit DEF Edit, jobVars
  <2>. QED BY <1>5, <2>1, ChangeSilent DEF Seeable, JobsStay, Speaks
<1>. QED BY <1>2, <1>3, <1>4, <1>5 DEF Environment, Change

LEMMA NextSeeable ==
    ASSUME NeverDeleted, Promised \in Owners, TypeOK, Copies, VersionsSound(EntryKeys),
           NoneDeleting, [Next]_vars
    PROVE  Seeable
<1>1. ASSUME UNCHANGED <<jobs, reported, objects>> PROVE Seeable
  BY <1>1 DEF NoneDeleting, Silent, Speaks, JobsStay, Seeable
<1>2. CASE UNCHANGED vars
  BY <1>1, <1>2 DEF vars, clusterVars, jobVars, objectVars
<1>3. CASE (\E f \in Owners : Start(f)) \/ ApiError \/ CreateBadRequest \/ Crash
           \/ \E t \in Templates : EditJobTemplate(t)
  <2>1. UNCHANGED <<jobs, reported, objects>>
    BY <1>3 DEF Start, Dequeue, ApiError, CreateBadRequest, Crash, Restart, EditJobTemplate,
                jobVars, objectVars
  <2>. QED BY <1>1, <2>1
<1>4. CASE GetJobFlow \/ PrepareJob \/ GetJob \/ GetDependency \/ ListJobs
  <2>1. UNCHANGED <<jobs, reported, objects>>
    BY <1>4 DEF GetJobFlow, PrepareJob, GetJob, GetDependency, ListJobs, clusterVars, jobVars,
                objectVars
  <2>. QED BY <1>1, <2>1
<1>5. ASSUME pc = "create", Add(ThisJob, NewJob), UNCHANGED objects PROVE Seeable
  <2>1. ThisJob \in JobKeys /\ Makes(ThisJob)
    BY <1>5, FlowType, AddMakes DEF TypeOK
  <2>. QED BY <1>5, <2>1 DEF Seeable, NoneDeleting, Silent
<1>6. ASSUME pc = "update", WriteStatus(status), UNCHANGED jobVars PROVE Seeable
  BY <1>6, WriteStatusSpeaks DEF TypeOK, Seeable, JobsStay, jobVars
<1>7. CASE CreateJob
  BY <1>1, <1>5, <1>7 DEF CreateJob, jobVars, objectVars
<1>8. CASE UpdateStatus
  BY <1>1, <1>6, <1>8 DEF UpdateStatus, PutStatus, jobVars
<1>9. CASE LostAnswer
  BY <1>5, <1>6, <1>9 DEF LostAnswer
<1>10. CASE Environment /\ Elsewhere
  BY <1>10, EnvironmentSeeable DEF TypeOK
<1>. QED BY <1>2, <1>3, <1>4, <1>7, <1>8, <1>9, <1>10 DEF Next, Worker
----------------------------------------------------------------------------
(***************************************************************************)
(* The refinement.  What FlowOrder sees of the state:                      *)
(***************************************************************************)
Present == {k \in FlowJobs : jobs[k] # None}

LEMMA MakesBegins ==
    ASSUME OnePlan, OwnJobs, OneJobEach, SameEntries, TypeOK, StartsInOrder, Silent,
           NEW k \in FlowJobs, Makes(k)
    PROVE  Order!Begin(k)
<1>1. k \in JobKeys /\ k \in EntryKeys[Promised]
  BY PlanFacts
<1>2. req \in Owners /\ object.spec \in Specs[req]
  BY SpecType DEF Makes
<1>3. PICK j \in DOMAIN object.spec :
         /\ k = JobName(req, object.spec[j].name)
         /\ \A d \in DOMAIN object.spec[j].deps :
              <<JobName(req, object.spec[j].deps[d]), "succeeded">> \in reported
  BY <1>1 DEF Makes, StartsInOrder
<1>4. k \in EntryKeys[req]
  BY <1>1, <1>2, <1>3 DEF EntryKeys
<1>5. req = Promised /\ object.spec = Plan
  <2>1. req = Promised
    BY <1>2, <1>4 DEF OwnJobs
  <2>. QED BY <1>2, <2>1, PlanFacts
<1>6. Waits[k] \subseteq Shown("succeeded")
  <2> SUFFICES ASSUME NEW x \in Waits[k] PROVE x \in Shown("succeeded")
    OBVIOUS
  <2>1. PICK i \in DOMAIN Plan : /\ KeyOf(Plan[i].name) = k
                                 /\ \E n \in DOMAIN Plan[i].deps : x = KeyOf(Plan[i].deps[n])
    BY DEF Waits
  <2>2. i = j
    BY <1>3, <1>5, <2>1, PlanFacts DEF KeyOf
  <2>3. PICK n \in DOMAIN Plan[i].deps : x = KeyOf(Plan[i].deps[n])
    BY <2>1
  <2>4. x \in FlowJobs
    BY <2>3 DEF OnePlan, FlowJobs
  <2>. QED BY <1>3, <1>5, <2>2, <2>3, <2>4 DEF KeyOf, Shown
<1>7. Present' = Present \cup {k} /\ k \notin Present
  BY PlanFacts DEF Present, Makes, Only
<1>8. Shown("succeeded")' = Shown("succeeded") /\ Shown("failed")' = Shown("failed")
      /\ Verdict' = Verdict
  BY DEF Makes, Shown, Silent, Verdict
<1>. QED BY <1>6, <1>7, <1>8 DEF Order!Begin, Present

LEMMA JobRefines ==
    ASSUME OnePlan, OwnJobs, OneJobEach, SameEntries, TypeOK, [StartsInOrder]_vars, Silent,
           NEW k \in JobKeys, Makes(k) \/ Removes(k) \/ Counts(k)
    PROVE  [Order!Next]_(Order!vars)
<1>1. Verdict' = Verdict
  BY DEF Silent, Verdict
<1>2. CASE k \notin FlowJobs
  <2>1. Present' = Present
    BY <1>2, PlanFacts DEF Present, Makes, Removes, Counts, Only
  <2>2. Shown("succeeded")' = Shown("succeeded") /\ Shown("failed")' = Shown("failed")
    BY <1>2 DEF Shown, Makes, Removes, Counts
  <2>. QED BY <1>1, <2>1, <2>2 DEF Order!vars, Present
<1>3. CASE k \in FlowJobs /\ Makes(k)
  <2>1. StartsInOrder
    BY <1>3 DEF Makes, vars, clusterVars, jobVars
  <2>. QED BY <1>3, <2>1, MakesBegins DEF Order!Next
<1>4. CASE k \in FlowJobs /\ Removes(k)
  <2>1. Present' = Present \ {k} /\ k \in Present
    BY <1>4, PlanFacts DEF Present, Removes, Only
  <2>2. Shown("succeeded")' = Shown("succeeded") /\ Shown("failed")' = Shown("failed")
    BY <1>4 DEF Shown, Removes
  <2>3. Order!Vanish(k)
    BY <1>1, <2>1, <2>2 DEF Order!Vanish, Present
  <2>. QED BY <1>4, <2>3 DEF Order!Next
<1>5. CASE k \in FlowJobs /\ Counts(k)
  <2>1. Present' = Present /\ k \in Present
    BY <1>5, PlanFacts DEF Present, Counts, Only
  <2>2. CASE reported' = reported
    <3>1. Shown("succeeded")' = Shown("succeeded") /\ Shown("failed")' = Shown("failed")
      BY <2>2 DEF Shown
    <3>. QED BY <1>1, <2>1, <3>1 DEF Order!vars, Present
  <2>3. CASE reported' = reported \cup {<<k, "succeeded">>}
    <3>1. Shown("succeeded")' = Shown("succeeded") \cup {k} /\ Shown("failed")' = Shown("failed")
      BY <1>5, <2>3 DEF Shown
    <3>2. Order!Succeed(k)
      BY <1>1, <2>1, <3>1 DEF Order!Succeed, Present
    <3>. QED BY <1>5, <3>2 DEF Order!Next
  <2>4. CASE reported' = reported \cup {<<k, "failed">>}
    <3>1. Shown("failed")' = Shown("failed") \cup {k} /\ Shown("succeeded")' = Shown("succeeded")
      BY <1>5, <2>4 DEF Shown
    <3>2. Order!Break(k)
      BY <1>1, <2>1, <3>1 DEF Order!Break, Present
    <3>. QED BY <1>5, <3>2 DEF Order!Next
  <2>. QED BY <1>5, <2>2, <2>3, <2>4 DEF Counts
<1>. QED BY <1>2, <1>3, <1>4, <1>5

LEMMA SpeechRefines ==
    ASSUME OnePlan, OneJobEach, SameEntries, Verdicts(EntryKeys)', JobsStay, Speaks
    PROVE  [Order!Next]_(Order!vars)
<1>1. /\ Present' = Present
      /\ Shown("succeeded")' = Shown("succeeded") /\ Shown("failed")' = Shown("failed")
  BY DEF Present, Shown, JobsStay
<1>2. CASE Silent
  <2>1. Verdict' = Verdict
    BY <1>2 DEF Silent, Verdict
  <2>. QED BY <1>1, <2>1 DEF Order!vars, Present
<1>3. CASE objects[Promised].status.state # "Failed"
  <2>1. Verdict # "Failed"
    BY <1>3 DEF Verdict
  <2>2. Justified(FlowJobs, objects[Promised].status.state)'
    BY PlanFacts DEF OnePlan, Verdicts, Justified
  <2>3. \/ Verdict' = "Succeed" /\ FlowJobs \subseteq Shown("succeeded")
        \/ Verdict' = "Failed" /\ Shown("failed") # {}
        \/ Verdict' = "Open"
    BY <2>2 DEF Verdict, Justified, Shown, JobsStay
  <2>4. Order!Conclude
    BY <1>1, <2>1, <2>3 DEF Order!Conclude, Present
  <2>. QED BY <2>4 DEF Order!Next
<1>. QED BY <1>2, <1>3 DEF Speaks

RefinementInv == Copies /\ VerdictInv /\ DependenciesSeen /\ NoneDeleting

(***************************************************************************)
(* Every step of the controller and of what surrounds it is a step of      *)
(* FlowOrder or changes nothing it sees: jobs begin after what they wait   *)
(* for, Succeed and Failed are true when they are written, and Failed is   *)
(* never taken back (deployJobFlow and updateJobFlowStatus, helper.go).    *)
(***************************************************************************)
THEOREM FlowOrderImplemented ==
    ASSUME OnePlan, OwnJobs, NeverDeleted, OneJobEach, SameEntries, NamesDiffer
    PROVE  Spec => ImplementsFlowOrder
<1>1. Init => RefinementInv /\ Order!Init
  <2> SUFFICES ASSUME Init PROVE RefinementInv /\ Order!Init
    OBVIOUS
  <2>1. /\ jobs = [k \in JobKeys |-> None] /\ reported = {} /\ object = None
        /\ \A o \in Owners : /\ objects[o] = objectCache[o] /\ ~objects[o].deleting
                             /\ objects[o].status.state = ""
    BY DEF Init, ClusterInit, Never, Absent, NoStatus
  <2>2. Copies /\ NoneDeleting
    BY <2>1 DEF Copies, NoneDeleting
  <2>3. VersionsSound(EntryKeys) /\ DependenciesSeen
    BY DEF Init, ClusterInit, VersionsSound, Sound, DependenciesSeen
  <2>4. VerdictInv
    BY <2>1, <2>3 DEF Init, VerdictInv, Verdicts, Justified
  <2>5. Order!Init
    BY <2>1, PlanFacts DEF Order!Init, OnePlan, Shown, Verdict
  <2>. QED BY <2>2, <2>3, <2>4, <2>5 DEF RefinementInv
<1>2. TypeOK /\ RefinementInv /\ [Next]_vars => RefinementInv' /\ [Order!Next]_(Order!vars)
  <2> SUFFICES ASSUME TypeOK, RefinementInv, [Next]_vars
               PROVE  RefinementInv' /\ [Order!Next]_(Order!vars)
    OBVIOUS
  <2>1. Copies' /\ VerdictInv'
    BY NextCopies, NextVerdicts DEF RefinementInv
  <2>2. DependenciesSeen' /\ [StartsInOrder]_vars
    BY NextOrder DEF RefinementInv, VerdictInv
  <2>3. Seeable
    BY NextSeeable DEF RefinementInv, VerdictInv, OnePlan
  <2>4. [Order!Next]_(Order!vars)
    BY <2>1, <2>2, <2>3, JobRefines, SpeechRefines DEF Seeable, VerdictInv
  <2>. QED BY <2>1, <2>2, <2>3, <2>4 DEF RefinementInv, Seeable
<1>. QED BY <1>1, <1>2, TypeInvariant, PTL DEF Spec, ImplementsFlowOrder, Order!Spec
============================================================================
