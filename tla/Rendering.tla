----------------------------- MODULE Rendering -----------------------------
(***************************************************************************)
(* How the JobFlow and the DaemonJob controller turn their objects into    *)
(* Jobs (prepareJob in helper.go, prepareJobFromDaemonJob in               *)
(* daemonjob_controller.go).  Both write into the slices of the object     *)
(* they have read, and hand that same object to the status update.  What   *)
(* is looked at here is whose memory such a write reaches: the informer    *)
(* cache, the stored object, or the next rendering.  Which Jobs are made   *)
(* and when is the matter of JobFlow and DaemonJob.                        *)
(***************************************************************************)
EXTENDS DeepCopy

CONSTANTS
    FlowSpecs,      \* the JobFlow specs users write
    TemplateSpecs,  \* the JobTemplate specs
    DaemonSpecs,    \* the DaemonJob specs
    Nodes,
    None,
    MaxEdits        \* how often users write a spec

(***************************************************************************)
(* The objects, with all their references at one place: names stand for    *)
(* volumes, mounts and variables, a map is a sequence of keys and values.  *)
(***************************************************************************)
RefAt(place, S) == {Nil} \cup [at : {place}, is : Seq(S)]
Names(place) == RefAt(place, STRING)
Map(place) == RefAt(place, STRING \X STRING)

ContainerAt(place) == [Env : Names(place), VolumeMounts : Names(place)]
PodSpecAt(place) ==
    [Volumes : Names(place), Containers : RefAt(place, ContainerAt(place)),
     NodeName : Nodes \cup {None}]
JobSpecAt(place) == [Labels : Map(place), Annotations : Map(place), Pod : PodSpecAt(place)]

GlobalParamsAt(place) ==
    [Env : Names(place), Labels : Map(place), Annotations : Map(place), NodeName : Nodes \cup {None}]
FlowAt(place) ==
    [JobTemplateRef : BOOLEAN, JobTemplate : JobSpecAt(place),
     Dependencies : Names(place), ShareVolumeMounts : Names(place)]
ErrorHandlerAt(place) == [PodSpec : PodSpecAt(place), JobTemplate : JobSpecAt(place)]

JobFlowSpecAt(place) ==
    [GlobalParams : GlobalParamsAt(place), Flows : RefAt(place, FlowAt(place)),
     ShareVolumes : Names(place), ErrorHandler : ErrorHandlerAt(place)]
JobTemplateSpecAt(place) == [JobTemplate : JobSpecAt(place)]
DaemonJobSpecAt(place) ==
    [GlobalParams : GlobalParamsAt(place), JobSpec : JobSpecAt(place),
     ExcludeNodeList : SUBSET Nodes]

JobStatusListAt(place) == [JobStatusList : RefAt(place, {"status"})]
JobFlowAt(place) == [Spec : JobFlowSpecAt(place), Status : JobStatusListAt(place)]
JobTemplateAt(place) ==
    [Spec : JobTemplateSpecAt(place), Status : [DependencyList : Names(place)]]
DaemonJobAt(place) == [Spec : DaemonJobSpecAt(place), Status : JobStatusListAt(place)]

\* A Job as it is handed to the API server; one made from a JobTemplate is marked.
Mark == <<"createByJobTemplate", "ref">>
RenderedJob ==
    [Labels : Map("call"), Annotations : RefAt("call", (STRING \X STRING) \cup {Mark}),
     RestartPolicy : {"Never"}, BackoffLimit : {0}, Spec : JobSpecAt("call")]

ASSUME RenderingAssumption ==
    /\ FlowSpecs \subseteq JobFlowSpecAt("cache")
    /\ TemplateSpecs \subseteq JobTemplateSpecAt("cache")
    /\ DaemonSpecs \subseteq DaemonJobSpecAt("cache")
    /\ MaxEdits \in Nat

ASSUME NoneAssumption ==
    /\ None \notin FlowSpecs /\ None \notin TemplateSpecs /\ None \notin DaemonSpecs
    /\ None \notin Nodes /\ None \notin Nat
    /\ \A place \in {"cache", "call"} :
          None \notin JobFlowAt(place) \cup JobTemplateAt(place) \cup DaemonJobAt(place)
    /\ None \notin RenderedJob

Kinds == {"JobFlow", "JobTemplate", "DaemonJob"}
Controllers == {"JobFlow", "DaemonJob"}
SpecsOf == [JobFlow |-> FlowSpecs, JobTemplate |-> TemplateSpecs, DaemonJob |-> DaemonSpecs]

EmptyStatus ==
    [JobFlow |-> [JobStatusList |-> Nil],
     JobTemplate |-> [DependencyList |-> Nil],
     DaemonJob |-> [JobStatusList |-> Nil]]

VARIABLES
    asked,    \* kind |-> the spec a user wrote last
    server,   \* kind |-> the stored object, or None
    cache,    \* kind |-> the object of the informer cache, or None
    shown,    \* kind |-> what the watch delivered last
    call,     \* controller |-> the reconcile under way
    edits     \* how many specs may still be written

vars == <<asked, server, cache, shown, call, edits>>

Idle == [pc |-> "idle", object |-> None, read |-> None, left |-> {}, entry |-> None,
         template |-> None, job |-> None]

TypeOK ==
    /\ \A k \in Kinds :
          /\ asked[k] \in SpecsOf[k] \cup {None}
          /\ asked[k] = None <=> server[k] = None
    /\ \A c \in Controllers :
          /\ call[c].pc \in {"idle", "prepare", "create", "status"}
          /\ call[c].pc = "idle" => call[c] = Idle
          /\ call[c].pc = "create" <=> call[c].job # None
          /\ call[c].pc = "create" <=> call[c].entry # None
    /\ edits \in 0 .. MaxEdits

Init ==
    /\ asked = [k \in Kinds |-> None]
    /\ server = asked /\ cache = asked /\ shown = asked
    /\ call = [c \in Controllers |-> Idle]
    /\ edits = MaxEdits

(***************************************************************************)
(* Users, and the watch that brings the stored object into the cache.      *)
(***************************************************************************)
Write(k) ==
    /\ edits > 0
    /\ edits' = edits - 1
    /\ \E spec \in SpecsOf[k] \ {asked[k]} :
          /\ asked' = [asked EXCEPT ![k] = spec]
          /\ server' = [server EXCEPT ![k] =
                IF @ = None THEN [Spec |-> spec, Status |-> EmptyStatus[k]]
                            ELSE [@ EXCEPT !.Spec = spec]]
    /\ UNCHANGED <<cache, shown, call>>

Delete(k) ==
    /\ edits > 0 /\ server[k] # None
    /\ edits' = edits - 1
    /\ asked' = [asked EXCEPT ![k] = None]
    /\ server' = [server EXCEPT ![k] = None]
    /\ UNCHANGED <<cache, shown, call>>

Deliver(k) ==
    /\ shown[k] # server[k]
    /\ shown' = [shown EXCEPT ![k] = server[k]]
    /\ cache' = [cache EXCEPT ![k] = server[k]]
    /\ UNCHANGED <<asked, server, call, edits>>

\* client.Get answers with a deep copy of the cached object.
GotJobFlow == JobFlowDeepCopyInto(cache["JobFlow"], "call")
GotJobTemplate == JobTemplateDeepCopyInto(cache["JobTemplate"], "call")
GotDaemonJob == DaemonJobDeepCopyInto(cache["DaemonJob"], "call")

Begin(c, object, entries) ==
    /\ call[c].pc = "idle" /\ cache[c] # None
    /\ call' = [call EXCEPT ![c] =
          [Idle EXCEPT !.pc = "prepare", !.object = object, !.read = shown[c], !.left = entries]]
    /\ UNCHANGED <<asked, server, cache, shown, edits>>

\* The entries of the flow in order, and the nodes in the order of a cached list.
GetJobFlow == Begin("JobFlow", GotJobFlow, DOMAIN cache["JobFlow"].Spec.Flows.is)
GetDaemonJob == Begin("DaemonJob", GotDaemonJob, Nodes \ cache["DaemonJob"].Spec.ExcludeNodeList)

(***************************************************************************)
(* Rendering.  append on a slice that is full, as copies and decoded nil   *)
(* slices are, makes a slice of its own.                                   *)
(***************************************************************************)
Joined(own, shared) ==
    IF own.at = "nil" THEN shared ELSE Ref("call", own.is \o shared.is)

Shares(spec, flow) == Len(spec.ShareVolumes.is) # 0 /\ Len(flow.ShareVolumeMounts.is) # 0

\* The entries of a map in a map of its own, over the entries already there.
Fresh(entries, map) == Ref("call", entries \o map.is)

JobFlowContainer(c, spec, flow) ==
    [VolumeMounts |-> IF Shares(spec, flow) THEN Joined(c.VolumeMounts, flow.ShareVolumeMounts)
                                            ELSE c.VolumeMounts,
     Env |-> IF spec.GlobalParams.Env.at = "nil" THEN c.Env ELSE spec.GlobalParams.Env]

\* What prepareJob leaves in the array of containers of base, in place.
JobFlowContainers(base, spec, flow) ==
    [base.Pod.Containers EXCEPT !.is =
        [k \in DOMAIN @ |-> JobFlowContainer(@[k], spec, flow)]]

Preset(param, own) == IF param.at = "nil" THEN own ELSE Fresh(<<>>, param)

PreparedJob(spec, flow, base) ==
    LET g == spec.GlobalParams
        mark == IF flow.JobTemplateRef THEN <<Mark>> ELSE <<>>
    IN  [Labels |-> Fresh(<<>>, g.Labels),
         Annotations |-> Fresh(mark, g.Annotations),
         RestartPolicy |-> "Never",
         BackoffLimit |-> 0,
         Spec |->
            [Labels |-> Preset(g.Labels, base.Labels),
             Annotations |-> Preset(g.Annotations, base.Annotations),
             Pod |-> [Volumes |-> IF Shares(spec, flow) THEN Joined(base.Pod.Volumes, spec.ShareVolumes)
                                                        ELSE base.Pod.Volumes,
                      Containers |-> JobFlowContainers(base, spec, flow),
                      NodeName |-> IF g.NodeName = None THEN base.Pod.NodeName ELSE g.NodeName]]]

\* A JobFlow whose entry i has these containers.
WithEntry(o, i, containers) ==
    [o EXCEPT !.Spec.Flows.is[i].JobTemplate.Pod.Containers = containers]

\* The cached object o when containers at place are written through entry i.
ThroughEntry(o, i, containers) ==
    IF containers.at = "cache" THEN WithEntry(o, i, containers) ELSE o

NextEntry == LET left == call["JobFlow"].left IN CHOOSE n \in left : \A m \in left : n <= m

PrepareJob ==
    LET cl == call["JobFlow"]
        i == NextEntry
        spec == cl.object.Spec
        flow == spec.Flows.is[i]
        byRef == flow.JobTemplateRef
        base == IF byRef THEN GotJobTemplate.Spec.JobTemplate ELSE flow.JobTemplate
        containers == JobFlowContainers(base, spec, flow)
    IN  /\ cl.pc = "prepare" /\ cl.left # {}
        /\ byRef => cache["JobTemplate"] # None
        /\ call' = [call EXCEPT !["JobFlow"] =
              [cl EXCEPT !.pc = "create", !.entry = i, !.left = cl.left \ {i},
                         !.template = IF byRef THEN shown["JobTemplate"] ELSE None,
                         !.job = PreparedJob(spec, flow, base),
                         !.object = IF byRef THEN cl.object ELSE WithEntry(cl.object, i, containers)]]
        /\ cache' = IF byRef
              THEN IF containers.at = "cache"
                     THEN [cache EXCEPT !["JobTemplate"].Spec.JobTemplate.Pod.Containers = containers]
                     ELSE cache
              ELSE [cache EXCEPT !["JobFlow"] =
                      IF @ = None THEN @ ELSE ThroughEntry(@, i, containers)]
        /\ UNCHANGED <<asked, server, shown, edits>>

NoJobTemplate_GoesOn ==   \* mutant: the error of prepareJob is not looked at
    LET cl == call["JobFlow"]
    IN  /\ cl.pc = "prepare" /\ cl.left # {}
        /\ cl.object.Spec.Flows.is[NextEntry].JobTemplateRef
        /\ cache["JobTemplate"] = None
        /\ call' = [call EXCEPT !["JobFlow"] =
              [cl EXCEPT !.pc = "create", !.entry = NextEntry, !.left = cl.left \ {NextEntry}]]
        /\ UNCHANGED <<asked, server, cache, shown, edits>>

\* A JobTemplate that is missing is a bad request: the call goes on with the status.
NoJobTemplate ==
    LET cl == call["JobFlow"]
    IN  /\ cl.pc = "prepare" /\ cl.left # {}
        /\ cl.object.Spec.Flows.is[NextEntry].JobTemplateRef
        /\ cache["JobTemplate"] = None
        /\ call' = [call EXCEPT !["JobFlow"].pc = "status", !["JobFlow"].left = {}]
        /\ UNCHANGED <<asked, server, cache, shown, edits>>

DaemonContainers(spec) ==
    [spec.JobSpec.Pod.Containers EXCEPT !.is =
        [k \in DOMAIN @ |->
            IF spec.GlobalParams.Env.at = "nil" THEN @[k]
            ELSE [@[k] EXCEPT !.Env = spec.GlobalParams.Env]]]

PreparedJobFromDaemonJob(spec, node) ==
    LET g == spec.GlobalParams
        base == spec.JobSpec
    IN  [Labels |-> g.Labels,
         Annotations |-> g.Annotations,
         RestartPolicy |-> "Never",
         BackoffLimit |-> 0,
         Spec |->
            [Labels |-> IF g.Labels.at = "nil" THEN base.Labels ELSE g.Labels,
             Annotations |-> IF g.Annotations.at = "nil" THEN base.Annotations ELSE g.Annotations,
             Pod |-> [base.Pod EXCEPT !.Containers = DaemonContainers(spec), !.NodeName = node]]]

\* A DaemonJob with these containers.
WithContainers(o, containers) == [o EXCEPT !.Spec.JobSpec.Pod.Containers = containers]

PrepareJobFromDaemonJob ==
    LET cl == call["DaemonJob"]
        containers == DaemonContainers(cl.object.Spec)
    IN  /\ cl.pc = "prepare"
        /\ \E node \in cl.left :
              call' = [call EXCEPT !["DaemonJob"] =
                  [cl EXCEPT !.pc = "create", !.entry = node, !.left = cl.left \ {node},
                             !.job = PreparedJobFromDaemonJob(cl.object.Spec, node),
                             !.object = WithContainers(cl.object, containers)]]
        /\ cache' = [cache EXCEPT !["DaemonJob"] =
              IF @ # None /\ containers.at = "cache" THEN WithContainers(@, containers) ELSE @]
        /\ UNCHANGED <<asked, server, shown, edits>>

(***************************************************************************)
(* The Job is created, or found to be there or to have to wait, and the    *)
(* loop goes on or is left; an error ends the call before the status.      *)
(***************************************************************************)
Create(c) ==
    /\ call[c].pc = "create"
    /\ \E on \in {call[c].left, {}} :
          call' = [call EXCEPT ![c] =
              [@ EXCEPT !.pc = IF on = {} THEN "status" ELSE "prepare", !.left = on,
                        !.entry = None, !.template = None, !.job = None]]
    /\ UNCHANGED <<asked, server, cache, shown, edits>>

\* A call with nothing to prepare comes straight to the status.
NothingLeft(c) ==
    /\ call[c].pc = "prepare" /\ call[c].left = {}
    /\ call' = [call EXCEPT ![c].pc = "status"]
    /\ UNCHANGED <<asked, server, cache, shown, edits>>

Abandon(c) ==
    /\ call[c].pc # "idle"
    /\ call' = [call EXCEPT ![c] = Idle]
    /\ UNCHANGED <<asked, server, cache, shown, edits>>

\* The write of the status subresource: the spec in the body does not count.
Stored_Whole(c, object) ==   \* mutant
    IF c = "JobFlow" THEN JobFlowDeepCopyInto(object, "cache") ELSE DaemonJobDeepCopyInto(object, "cache")
Stored(c, object) == [server[c] EXCEPT !.Status = object.Status]

UpdateStatus(c) ==
    /\ call[c].pc = "status"
    /\ server' = IF server[c] = call[c].read
          THEN [server EXCEPT ![c] =
                  Stored(c, [call[c].object EXCEPT !.Status.JobStatusList = Ref("cache", <<"status">>)])]
          ELSE server
    /\ call' = [call EXCEPT ![c] = Idle]
    /\ UNCHANGED <<asked, cache, shown, edits>>

Next ==
    \/ \E k \in Kinds : Write(k) \/ Delete(k) \/ Deliver(k)
    \/ GetJobFlow \/ PrepareJob \/ NoJobTemplate
    \/ GetDaemonJob \/ PrepareJobFromDaemonJob
    \/ \E c \in Controllers : Create(c) \/ NothingLeft(c) \/ Abandon(c) \/ UpdateStatus(c)

Spec == Init /\ [][Next]_vars

(***************************************************************************)
(* What a controller has read, and writes into, shares no memory with the  *)
(* informer cache, and neither would a copy of a list of what the cache    *)
(* holds (the deep copies of zz_generated.deepcopy.go).                    *)
(***************************************************************************)
Listing(k) == [Items |-> IF cache[k] = None THEN Nil ELSE Ref("cache", <<cache[k], cache[k]>>)]
CopiesShareNothing ==
    /\ call["JobFlow"].object # None => "cache" \notin JobFlowPlaces(call["JobFlow"].object)
    /\ call["DaemonJob"].object # None => "cache" \notin DaemonJobPlaces(call["DaemonJob"].object)
    /\ "cache" \notin
          ListPlaces(JobFlowListDeepCopyInto(Listing("JobFlow"), "call"), JobFlowPlaces)
            \cup ListPlaces(JobTemplateListDeepCopyInto(Listing("JobTemplate"), "call"), JobTemplatePlaces)
            \cup ListPlaces(DaemonJobListDeepCopyInto(Listing("DaemonJob"), "call"), DaemonJobPlaces)

(***************************************************************************)
(* The cache shows what the watch delivered, however many jobs have been   *)
(* rendered from it (prepareJob writes into the containers it is given).   *)
(***************************************************************************)
CacheIntact == cache = shown

(***************************************************************************)
(* No reconcile changes the spec a user wrote, although the status is      *)
(* updated with an object into which jobs have been rendered               *)
(* (updateJobFlowStatus, helper.go).                                       *)
(***************************************************************************)
SpecUntouched == \A k \in Kinds : server[k] # None => server[k].Spec = asked[k]

(***************************************************************************)
(* A job is what the specs delivered to the call say, however often they   *)
(* have been rendered before: the shared volumes and mounts once beside    *)
(* its own, the global env, labels, annotations and node, no restarts;     *)
(* only a job made from a JobTemplate carries its name (prepareJob); a job *)
(* of a DaemonJob is for its node (prepareJobFromDaemonJob).               *)
(***************************************************************************)
Either(param, own) == IF param.at = "nil" THEN own.is ELSE param.is

FlowJobRight(spec, flow, base, job) ==
    LET shares == spec.ShareVolumes.is # <<>> /\ flow.ShareVolumeMounts.is # <<>>
        g == spec.GlobalParams
        Extra(shared) == IF shares THEN shared.is ELSE <<>>
    IN  /\ job.Spec.Pod.Volumes.is = base.Pod.Volumes.is \o Extra(spec.ShareVolumes)
        /\ DOMAIN job.Spec.Pod.Containers.is = DOMAIN base.Pod.Containers.is
        /\ \A k \in DOMAIN base.Pod.Containers.is :
              LET own == base.Pod.Containers.is[k]
                  made == job.Spec.Pod.Containers.is[k]
              IN  /\ made.VolumeMounts.is = own.VolumeMounts.is \o Extra(flow.ShareVolumeMounts)
                  /\ made.Env.is = Either(g.Env, own.Env)
        /\ job.Spec.Labels.is = Either(g.Labels, base.Labels)
        /\ job.Spec.Annotations.is = Either(g.Annotations, base.Annotations)
        /\ ToSet(g.Labels.is) = ToSet(job.Labels.is)
        /\ ToSet(g.Annotations.is) = {a \in ToSet(job.Annotations.is) : a[1] # "createByJobTemplate"}
        /\ flow.JobTemplateRef <=> \E a \in ToSet(job.Annotations.is) : a[1] = "createByJobTemplate"
        /\ job.Spec.Pod.NodeName = IF g.NodeName = None THEN base.Pod.NodeName ELSE g.NodeName
        /\ job.RestartPolicy = "Never" /\ job.BackoffLimit = 0

DaemonJobRight(spec, node, job) ==
    LET base == spec.JobSpec
        g == spec.GlobalParams
    IN  /\ job.Spec.Pod.NodeName = node
        /\ job.Spec.Pod.Volumes.is = base.Pod.Volumes.is
        /\ \A k \in DOMAIN base.Pod.Containers.is :
              /\ job.Spec.Pod.Containers.is[k].VolumeMounts.is = base.Pod.Containers.is[k].VolumeMounts.is
              /\ job.Spec.Pod.Containers.is[k].Env.is = Either(g.Env, base.Pod.Containers.is[k].Env)
        /\ job.Labels.is = g.Labels.is /\ job.Spec.Labels.is = Either(g.Labels, base.Labels)
        /\ job.Annotations.is = g.Annotations.is
        /\ job.Spec.Annotations.is = Either(g.Annotations, base.Annotations)

RenderedRight ==
    /\ LET cl == call["JobFlow"]
       IN  cl.job # None =>
              LET spec == cl.read.Spec
                  flow == spec.Flows.is[cl.entry]
              IN  FlowJobRight(spec, flow,
                      IF flow.JobTemplateRef THEN cl.template.Spec.JobTemplate ELSE flow.JobTemplate,
                      cl.job)
    /\ LET cl == call["DaemonJob"]
       IN  cl.job # None => DaemonJobRight(cl.read.Spec, cl.entry, cl.job)
=============================================================================
