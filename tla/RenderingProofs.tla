--------------------------- MODULE RenderingProofs ---------------------------
(***************************************************************************)
(* What the deep copies and the rendering guarantee for every spec: no     *)
(* write of a controller reaches the informer cache or the spec of a user, *)
(* and each Job is the one its specs ask for.                              *)
(***************************************************************************)
EXTENDS Rendering, SequenceTheorems, NaturalsInduction, WellFoundedInduction, TLAPS

(***************************************************************************)
(* A reference moved to a place is there or nil, and names the same value. *)
(***************************************************************************)
LEMMA MovedAt ==
    ASSUME NEW p, NEW q, NEW S, NEW ref \in RefAt(p, S) PROVE Moved(ref, q) \in RefAt(q, S)
<1>. QED BY DEF RefAt, Moved, Nil, Ref

LEMMA MovedValue ==
    ASSUME NEW S, NEW ref \in RefAt("cache", S)
    PROVE  /\ Moved(ref, "call").is = ref.is
           /\ Moved(ref, "call").at = "nil" <=> ref.at = "nil"
<1>. QED BY DEF RefAt, Moved, Nil, Ref

(***************************************************************************)
(* The deep copy of a value at one place is a value at the other.          *)
(***************************************************************************)
LEMMA ContainerCopied ==
    ASSUME NEW p, NEW q, NEW x \in ContainerAt(p)
    PROVE  ContainerDeepCopyInto(x, q) \in ContainerAt(q)
<1>1. Moved(x.Env, q) \in Names(q) /\ Moved(x.VolumeMounts, q) \in Names(q)
  BY MovedAt DEF ContainerAt, Names
<1>. QED BY <1>1 DEF ContainerAt, ContainerDeepCopyInto

LEMMA ContainersCopied ==
    ASSUME NEW p, NEW q, NEW ref \in RefAt(p, ContainerAt(p))
    PROVE  MovedEach(ref, q, ContainerDeepCopyInto) \in RefAt(q, ContainerAt(q))
<1>1. CASE ref.at = "nil"
  BY <1>1 DEF MovedEach, RefAt
<1>2. CASE ref.at # "nil"
  <2>1. ref.is \in Seq(ContainerAt(p))
    BY <1>2 DEF RefAt, Nil
  <2>2. [i \in DOMAIN ref.is |-> ContainerDeepCopyInto(ref.is[i], q)] \in Seq(ContainerAt(q))
    BY <2>1, ContainerCopied
  <2>. QED BY <1>2, <2>2 DEF MovedEach, RefAt, Ref
<1>. QED BY <1>1, <1>2

LEMMA PodSpecCopied ==
    ASSUME NEW p, NEW q, NEW x \in PodSpecAt(p)
    PROVE  PodSpecDeepCopyInto(x, q) \in PodSpecAt(q)
<1>1. Moved(x.Volumes, q) \in Names(q)
  BY MovedAt DEF PodSpecAt, Names
<1>2. MovedEach(x.Containers, q, ContainerDeepCopyInto) \in RefAt(q, ContainerAt(q))
  BY ContainersCopied DEF PodSpecAt
<1>. QED BY <1>1, <1>2 DEF PodSpecAt, PodSpecDeepCopyInto

LEMMA JobSpecCopied ==
    ASSUME NEW p, NEW q, NEW x \in JobSpecAt(p)
    PROVE  JobSpecDeepCopyInto(x, q) \in JobSpecAt(q)
<1>1. Moved(x.Labels, q) \in Map(q) /\ Moved(x.Annotations, q) \in Map(q)
  BY MovedAt DEF JobSpecAt, Map
<1>2. PodSpecDeepCopyInto(x.Pod, q) \in PodSpecAt(q)
  BY PodSpecCopied DEF JobSpecAt
<1>. QED BY <1>1, <1>2 DEF JobSpecAt, JobSpecDeepCopyInto

LEMMA FlowCopied ==
    ASSUME NEW p, NEW q, NEW x \in FlowAt(p)
    PROVE  FlowDeepCopyInto(x, q) \in FlowAt(q)
<1>1. Moved(x.Dependencies, q) \in Names(q) /\ Moved(x.ShareVolumeMounts, q) \in Names(q)
  BY MovedAt DEF FlowAt, Names
<1>2. JobSpecDeepCopyInto(x.JobTemplate, q) \in JobSpecAt(q)
  BY JobSpecCopied DEF FlowAt
<1>. QED BY <1>1, <1>2 DEF FlowAt, FlowDeepCopyInto

LEMMA FlowsCopied ==
    ASSUME NEW p, NEW q, NEW ref \in RefAt(p, FlowAt(p))
    PROVE  MovedEach(ref, q, FlowDeepCopyInto) \in RefAt(q, FlowAt(q))
<1>1. CASE ref.at = "nil"
  BY <1>1 DEF MovedEach, RefAt
<1>2. CASE ref.at # "nil"
  <2>1. ref.is \in Seq(FlowAt(p))
    BY <1>2 DEF RefAt, Nil
  <2>2. [i \in DOMAIN ref.is |-> FlowDeepCopyInto(ref.is[i], q)] \in Seq(FlowAt(q))
    BY <2>1, FlowCopied
  <2>. QED BY <1>2, <2>2 DEF MovedEach, RefAt, Ref
<1>. QED BY <1>1, <1>2

LEMMA GlobalParamsCopied ==
    ASSUME NEW p, NEW q, NEW x \in GlobalParamsAt(p)
    PROVE  GlobalParamsDeepCopyInto(x, q) \in GlobalParamsAt(q)
<1>1. Moved(x.Env, q) \in Names(q) /\ Moved(x.Labels, q) \in Map(q) /\ Moved(x.Annotations, q) \in Map(q)
  BY MovedAt DEF GlobalParamsAt, Map, Names
<1>. QED BY <1>1 DEF GlobalParamsAt, GlobalParamsDeepCopyInto

LEMMA ErrorHandlerCopied ==
    ASSUME NEW p, NEW q, NEW x \in ErrorHandlerAt(p)
    PROVE  ErrorHandlerDeepCopyInto(x, q) \in ErrorHandlerAt(q)
<1>1. PodSpecDeepCopyInto(x.PodSpec, q) \in PodSpecAt(q)
  BY PodSpecCopied DEF ErrorHandlerAt
<1>2. JobSpecDeepCopyInto(x.JobTemplate, q) \in JobSpecAt(q)
  BY JobSpecCopied DEF ErrorHandlerAt
<1>. QED BY <1>1, <1>2 DEF ErrorHandlerAt, ErrorHandlerDeepCopyInto

LEMMA JobFlowSpecCopied ==
    ASSUME NEW p, NEW q, NEW x \in JobFlowSpecAt(p)
    PROVE  JobFlowSpecDeepCopyInto(x, q) \in JobFlowSpecAt(q)
<1>1. Moved(x.ShareVolumes, q) \in Names(q)
  BY MovedAt DEF JobFlowSpecAt, Names
<1>2. MovedEach(x.Flows, q, FlowDeepCopyInto) \in RefAt(q, FlowAt(q))
  BY FlowsCopied DEF JobFlowSpecAt
<1>3. GlobalParamsDeepCopyInto(x.GlobalParams, q) \in GlobalParamsAt(q)
  BY GlobalParamsCopied DEF JobFlowSpecAt
<1>4. ErrorHandlerDeepCopyInto(x.ErrorHandler, q) \in ErrorHandlerAt(q)
  BY ErrorHandlerCopied DEF JobFlowSpecAt
<1>. QED BY <1>1, <1>2, <1>3, <1>4 DEF JobFlowSpecAt, JobFlowSpecDeepCopyInto

LEMMA JobFlowCopied ==
    ASSUME NEW p, NEW q, NEW x \in JobFlowAt(p)
    PROVE  JobFlowDeepCopyInto(x, q) \in JobFlowAt(q)
<1>1. JobFlowSpecDeepCopyInto(x.Spec, q) \in JobFlowSpecAt(q)
  BY JobFlowSpecCopied DEF JobFlowAt
<1>2. JobFlowStatusDeepCopyInto(x.Status, q) \in JobStatusListAt(q)
  BY MovedAt DEF JobFlowAt, JobStatusListAt, JobFlowStatusDeepCopyInto
<1>. QED BY <1>1, <1>2 DEF JobFlowAt, JobFlowDeepCopyInto

LEMMA JobTemplateCopied ==
    ASSUME NEW p, NEW q, NEW x \in JobTemplateAt(p)
    PROVE  JobTemplateDeepCopyInto(x, q) \in JobTemplateAt(q)
<1>1. JobTemplateSpecDeepCopyInto(x.Spec, q) \in JobTemplateSpecAt(q)
  BY JobSpecCopied DEF JobTemplateAt, JobTemplateSpecAt, JobTemplateSpecDeepCopyInto
<1>2. JobTemplateStatusDeepCopyInto(x.Status, q) \in [DependencyList : Names(q)]
  BY MovedAt DEF JobTemplateAt, JobTemplateStatusDeepCopyInto, Names
<1>. QED BY <1>1, <1>2 DEF JobTemplateAt, JobTemplateDeepCopyInto

LEMMA DaemonJobCopied ==
    ASSUME NEW p, NEW q, NEW x \in DaemonJobAt(p)
    PROVE  DaemonJobDeepCopyInto(x, q) \in DaemonJobAt(q)
<1>1. DaemonGlobalParamsDeepCopyInto(x.Spec.GlobalParams, q) \in GlobalParamsAt(q)
  BY GlobalParamsCopied
  DEF DaemonJobAt, DaemonJobSpecAt, DaemonGlobalParamsDeepCopyInto, GlobalParamsDeepCopyInto
<1>2. JobSpecDeepCopyInto(x.Spec.JobSpec, q) \in JobSpecAt(q)
  BY JobSpecCopied DEF DaemonJobAt, DaemonJobSpecAt
<1>3. DaemonJobSpecDeepCopyInto(x.Spec, q) \in DaemonJobSpecAt(q)
  BY <1>1, <1>2 DEF DaemonJobAt, DaemonJobSpecAt, DaemonJobSpecDeepCopyInto
<1>4. DaemonJobStatusDeepCopyInto(x.Status, q) \in JobStatusListAt(q)
  BY MovedAt DEF DaemonJobAt, JobStatusListAt, DaemonJobStatusDeepCopyInto
<1>. QED BY <1>3, <1>4 DEF DaemonJobAt, DaemonJobDeepCopyInto

LEMMA JobFlowsCopied ==
    ASSUME NEW p, NEW q, NEW ref \in RefAt(p, JobFlowAt(p))
    PROVE  MovedEach(ref, q, JobFlowDeepCopyInto) \in RefAt(q, JobFlowAt(q))
<1>1. CASE ref.at = "nil"
  BY <1>1 DEF MovedEach, RefAt
<1>2. CASE ref.at # "nil"
  <2>1. ref.is \in Seq(JobFlowAt(p))
    BY <1>2 DEF RefAt, Nil
  <2>2. [i \in DOMAIN ref.is |-> JobFlowDeepCopyInto(ref.is[i], q)] \in Seq(JobFlowAt(q))
    BY <2>1, JobFlowCopied
  <2>. QED BY <1>2, <2>2 DEF MovedEach, RefAt, Ref
<1>. QED BY <1>1, <1>2

LEMMA JobTemplatesCopied ==
    ASSUME NEW p, NEW q, NEW ref \in RefAt(p, JobTemplateAt(p))
    PROVE  MovedEach(ref, q, JobTemplateDeepCopyInto) \in RefAt(q, JobTemplateAt(q))
<1>1. CASE ref.at = "nil"
  BY <1>1 DEF MovedEach, RefAt
<1>2. CASE ref.at # "nil"
  <2>1. ref.is \in Seq(JobTemplateAt(p))
    BY <1>2 DEF RefAt, Nil
  <2>2. [i \in DOMAIN ref.is |-> JobTemplateDeepCopyInto(ref.is[i], q)] \in Seq(JobTemplateAt(q))
    BY <2>1, JobTemplateCopied
  <2>. QED BY <1>2, <2>2 DEF MovedEach, RefAt, Ref
<1>. QED BY <1>1, <1>2

LEMMA DaemonJobsCopied ==
    ASSUME NEW p, NEW q, NEW ref \in RefAt(p, DaemonJobAt(p))
    PROVE  MovedEach(ref, q, DaemonJobDeepCopyInto) \in RefAt(q, DaemonJobAt(q))
<1>1. CASE ref.at = "nil"
  BY <1>1 DEF MovedEach, RefAt
<1>2. CASE ref.at # "nil"
  <2>1. ref.is \in Seq(DaemonJobAt(p))
    BY <1>2 DEF RefAt, Nil
  <2>2. [i \in DOMAIN ref.is |-> DaemonJobDeepCopyInto(ref.is[i], q)] \in Seq(DaemonJobAt(q))
    BY <2>1, DaemonJobCopied
  <2>. QED BY <1>2, <2>2 DEF MovedEach, RefAt, Ref
<1>. QED BY <1>1, <1>2

(***************************************************************************)
(* A value at the place of a call refers to no place of the cache.         *)
(***************************************************************************)
LEMMA RefPlace ==
    ASSUME NEW p, NEW S, NEW ref \in RefAt(p, S)
    PROVE  ref.at \in {"nil", p} /\ ref.is \in Seq(S) /\ ToSet(ref.is) \subseteq S
<1>1. ref.at \in {"nil", p} /\ ref.is \in Seq(S)
  <2>1. CASE ref = Nil
    <3>1. <<>> \in Seq(S)
      BY EmptySeq
    <3>. QED BY <2>1, <3>1 DEF Nil
  <2>2. CASE ref \in [at : {p}, is : Seq(S)]
    BY <2>2
  <2>. QED BY <2>1, <2>2 DEF RefAt
<1>. QED BY <1>1 DEF ToSet

LEMMA PodSpecPlace ==
    ASSUME NEW x \in PodSpecAt("call") PROVE "cache" \notin PodSpecPlaces(x)
<1>1. x.Volumes.at \in {"nil", "call"} /\ x.Containers.at \in {"nil", "call"}
      /\ ToSet(x.Containers.is) \subseteq ContainerAt("call")
  BY RefPlace DEF PodSpecAt, Names
<1>2. \A c \in ContainerAt("call") : c.Env.at \in {"nil", "call"} /\ c.VolumeMounts.at \in {"nil", "call"}
  BY RefPlace DEF ContainerAt, Names
<1>. QED BY <1>1, <1>2 DEF PodSpecPlaces

LEMMA JobSpecPlace ==
    ASSUME NEW x \in JobSpecAt("call") PROVE "cache" \notin JobSpecPlaces(x)
<1>1. x.Labels.at \in {"nil", "call"} /\ x.Annotations.at \in {"nil", "call"}
  BY RefPlace DEF JobSpecAt, Map
<1>. QED BY <1>1, PodSpecPlace DEF JobSpecAt, JobSpecPlaces

LEMMA GlobalParamsPlace ==
    ASSUME NEW x \in GlobalParamsAt("call") PROVE "cache" \notin ParamPlaces(x)
<1>. QED BY RefPlace DEF GlobalParamsAt, ParamPlaces, Map, Names

LEMMA FlowPlace ==
    ASSUME NEW x \in FlowAt("call") PROVE "cache" \notin FlowPlaces(x)
<1>1. x.Dependencies.at \in {"nil", "call"} /\ x.ShareVolumeMounts.at \in {"nil", "call"}
  BY RefPlace DEF FlowAt, Names
<1>. QED BY <1>1, JobSpecPlace DEF FlowAt, FlowPlaces

LEMMA JobFlowPlace ==
    ASSUME NEW x \in JobFlowAt("call") PROVE "cache" \notin JobFlowPlaces(x)
<1>1. x.Spec \in JobFlowSpecAt("call") /\ x.Status \in JobStatusListAt("call")
  BY DEF JobFlowAt
<1>2. /\ x.Spec.Flows.at \in {"nil", "call"} /\ x.Spec.ShareVolumes.at \in {"nil", "call"}
      /\ ToSet(x.Spec.Flows.is) \subseteq FlowAt("call")
  BY <1>1, RefPlace DEF JobFlowSpecAt, Names
<1>3. x.Status.JobStatusList.at \in {"nil", "call"}
  BY <1>1, RefPlace DEF JobStatusListAt
<1>4. /\ "cache" \notin ParamPlaces(x.Spec.GlobalParams)
      /\ "cache" \notin PodSpecPlaces(x.Spec.ErrorHandler.PodSpec)
      /\ "cache" \notin JobSpecPlaces(x.Spec.ErrorHandler.JobTemplate)
  BY <1>1, GlobalParamsPlace, PodSpecPlace, JobSpecPlace DEF JobFlowSpecAt, ErrorHandlerAt
<1>. QED BY <1>2, <1>3, <1>4, FlowPlace DEF JobFlowPlaces

LEMMA JobTemplatePlace ==
    ASSUME NEW x \in JobTemplateAt("call") PROVE "cache" \notin JobTemplatePlaces(x)
<1>1. x.Status.DependencyList.at \in {"nil", "call"}
  BY RefPlace DEF JobTemplateAt, Names
<1>. QED BY <1>1, JobSpecPlace DEF JobTemplateAt, JobTemplateSpecAt, JobTemplatePlaces

LEMMA DaemonJobPlace ==
    ASSUME NEW x \in DaemonJobAt("call") PROVE "cache" \notin DaemonJobPlaces(x)
<1>1. x.Status.JobStatusList.at \in {"nil", "call"}
  BY RefPlace DEF DaemonJobAt, JobStatusListAt
<1>. QED BY <1>1, GlobalParamsPlace, JobSpecPlace DEF DaemonJobAt, DaemonJobSpecAt, DaemonJobPlaces

(***************************************************************************)
(* A copy of a list refers to no place of the cache either.                *)
(***************************************************************************)
LEMMA ListingAt ==
    ASSUME NEW k, NEW S, cache[k] \in S \cup {None} PROVE Listing(k).Items \in RefAt("cache", S)
<1>1. CASE cache[k] = None
  BY <1>1 DEF Listing, RefAt
<1>2. CASE cache[k] # None
  <2>1. <<cache[k], cache[k]>> \in Seq(S)
    BY <1>2
  <2>. QED BY <1>2, <2>1 DEF Listing, RefAt, Ref
<1>. QED BY <1>1, <1>2

LEMMA JobFlowListPlace ==
    ASSUME NEW items \in RefAt("cache", JobFlowAt("cache"))
    PROVE  "cache" \notin ListPlaces(JobFlowListDeepCopyInto([Items |-> items], "call"), JobFlowPlaces)
<1> DEFINE copy == JobFlowListDeepCopyInto([Items |-> items], "call")
<1>1. copy.Items = MovedEach(items, "call", JobFlowDeepCopyInto)
  BY DEF JobFlowListDeepCopyInto
<1>2. copy.Items \in RefAt("call", JobFlowAt("call"))
  BY <1>1, JobFlowsCopied
<1>. HIDE DEF copy
<1>3. copy.Items.at \in {"nil", "call"} /\ ToSet(copy.Items.is) \subseteq JobFlowAt("call")
  BY <1>2, RefPlace
<1>4. "cache" \notin ListPlaces(copy, JobFlowPlaces)
  BY <1>3, JobFlowPlace DEF ListPlaces
<1>. QED BY <1>4 DEF copy

LEMMA JobTemplateListPlace ==
    ASSUME NEW items \in RefAt("cache", JobTemplateAt("cache"))
    PROVE  "cache" \notin ListPlaces(JobTemplateListDeepCopyInto([Items |-> items], "call"), JobTemplatePlaces)
<1> DEFINE copy == JobTemplateListDeepCopyInto([Items |-> items], "call")
<1>1. copy.Items = MovedEach(items, "call", JobTemplateDeepCopyInto)
  BY DEF JobTemplateListDeepCopyInto
<1>2. copy.Items \in RefAt("call", JobTemplateAt("call"))
  BY <1>1, JobTemplatesCopied
<1>. HIDE DEF copy
<1>3. copy.Items.at \in {"nil", "call"} /\ ToSet(copy.Items.is) \subseteq JobTemplateAt("call")
  BY <1>2, RefPlace
<1>4. "cache" \notin ListPlaces(copy, JobTemplatePlaces)
  BY <1>3, JobTemplatePlace DEF ListPlaces
<1>. QED BY <1>4 DEF copy

LEMMA DaemonJobListPlace ==
    ASSUME NEW items \in RefAt("cache", DaemonJobAt("cache"))
    PROVE  "cache" \notin ListPlaces(DaemonJobListDeepCopyInto([Items |-> items], "call"), DaemonJobPlaces)
<1> DEFINE copy == DaemonJobListDeepCopyInto([Items |-> items], "call")
<1>1. copy.Items = MovedEach(items, "call", DaemonJobDeepCopyInto)
  BY DEF DaemonJobListDeepCopyInto
<1>2. copy.Items \in RefAt("call", DaemonJobAt("call"))
  BY <1>1, DaemonJobsCopied
<1>. HIDE DEF copy
<1>3. copy.Items.at \in {"nil", "call"} /\ ToSet(copy.Items.is) \subseteq DaemonJobAt("call")
  BY <1>2, RefPlace
<1>4. "cache" \notin ListPlaces(copy, DaemonJobPlaces)
  BY <1>3, DaemonJobPlace DEF ListPlaces
<1>. QED BY <1>4 DEF copy

(***************************************************************************)
(* Rendering with values of the call leaves values of the call.            *)
(***************************************************************************)
LEMMA MapEach ==
    ASSUME NEW p, NEW S, NEW ref \in RefAt(p, S), NEW f,
           DOMAIN f = DOMAIN ref.is, \A k \in DOMAIN ref.is : f[k] \in S,
           f = [k \in DOMAIN ref.is |-> f[k]]
    PROVE  [ref EXCEPT !.is = f] \in RefAt(p, S)
<1>1. CASE ref = Nil
  <2>1. f = <<>>
    BY <1>1 DEF Nil
  <2>2. [ref EXCEPT !.is = f] = Nil
    BY <1>1, <2>1 DEF Nil
  <2>. QED BY <2>2 DEF RefAt
<1>2. CASE ref \in [at : {p}, is : Seq(S)]
  <2>1. ref.is \in Seq(S)
    BY <1>2
  <2>2. f = [k \in DOMAIN ref.is |-> f[k]]
    OBVIOUS
  <2>3. f \in Seq(S)
    BY <2>1, <2>2
  <2>. QED BY <1>2, <2>3 DEF RefAt
<1>. QED BY <1>1, <1>2 DEF RefAt

LEMMA JoinedAt ==
    ASSUME NEW S, NEW own \in RefAt("call", S), NEW shared \in RefAt("call", S)
    PROVE  /\ Joined(own, shared) \in RefAt("call", S)
           /\ Joined(own, shared).is = own.is \o shared.is
<1>1. own.is \in Seq(S) /\ shared.is \in Seq(S)
  BY RefPlace
<1>2. CASE own.at = "nil"
  <2>1. own.is = <<>>
    BY <1>2 DEF RefAt, Nil
  <2>2. <<>> \o shared.is = shared.is
    BY <1>1
  <2>. QED BY <1>2, <2>1, <2>2 DEF Joined
<1>3. CASE own.at # "nil"
  <2>1. own.is \o shared.is \in Seq(S)
    BY <1>1
  <2>. QED BY <1>3, <2>1 DEF Joined, Ref, RefAt
<1>. QED BY <1>2, <1>3

LEMMA FreshAt ==
    ASSUME NEW S, NEW entries \in Seq(S), NEW map \in RefAt("call", S)
    PROVE  Fresh(entries, map) \in RefAt("call", S)
<1>1. entries \o map.is \in Seq(S)
  BY RefPlace
<1>. QED BY <1>1 DEF Fresh, Ref, RefAt

LEMMA JobFlowContainerAt ==
    ASSUME NEW spec \in JobFlowSpecAt("call"), NEW flow \in FlowAt("call"),
           NEW c \in ContainerAt("call")
    PROVE  JobFlowContainer(c, spec, flow) \in ContainerAt("call")
<1>1. /\ c.Env \in Names("call") /\ c.VolumeMounts \in Names("call")
      /\ flow.ShareVolumeMounts \in Names("call") /\ spec.GlobalParams.Env \in Names("call")
  BY DEF ContainerAt, FlowAt, JobFlowSpecAt, GlobalParamsAt
<1>2. Joined(c.VolumeMounts, flow.ShareVolumeMounts) \in Names("call")
  BY <1>1, JoinedAt DEF Names
<1>. QED BY <1>1, <1>2 DEF JobFlowContainer, ContainerAt

LEMMA JobFlowContainersAt ==
    ASSUME NEW spec \in JobFlowSpecAt("call"), NEW flow \in FlowAt("call"),
           NEW base \in JobSpecAt("call")
    PROVE  /\ JobFlowContainers(base, spec, flow) \in RefAt("call", ContainerAt("call"))
           /\ DOMAIN JobFlowContainers(base, spec, flow).is = DOMAIN base.Pod.Containers.is
           /\ \A k \in DOMAIN base.Pod.Containers.is :
                 JobFlowContainers(base, spec, flow).is[k]
                   = JobFlowContainer(base.Pod.Containers.is[k], spec, flow)
<1> DEFINE old == base.Pod.Containers
           f == [k \in DOMAIN old.is |-> JobFlowContainer(old.is[k], spec, flow)]
<1>1. old \in RefAt("call", ContainerAt("call"))
  BY DEF JobSpecAt, PodSpecAt
<1>2. ToSet(old.is) \subseteq ContainerAt("call") /\ old.is \in Seq(ContainerAt("call"))
  BY <1>1, RefPlace
<1>3. \A k \in DOMAIN old.is : f[k] \in ContainerAt("call")
  BY <1>2, JobFlowContainerAt
<1>4. DOMAIN f = DOMAIN old.is /\ f = [k \in DOMAIN old.is |-> f[k]]
  OBVIOUS
<1>5. JobFlowContainers(base, spec, flow) = [old EXCEPT !.is = f]
  BY DEF JobFlowContainers
<1>6. [old EXCEPT !.is = f].is = f
  BY <1>1 DEF RefAt, Nil
<1>7. \A k \in DOMAIN old.is : f[k] = JobFlowContainer(old.is[k], spec, flow)
  OBVIOUS
<1>. HIDE DEF f
<1>8. [old EXCEPT !.is = f] \in RefAt("call", ContainerAt("call"))
  BY <1>1, <1>3, <1>4, MapEach
<1>. QED BY <1>4, <1>5, <1>6, <1>7, <1>8

LEMMA MarkedMap == Map("call") \subseteq RefAt("call", (STRING \X STRING) \cup {Mark})
<1>1. Seq(STRING \X STRING) \subseteq Seq((STRING \X STRING) \cup {Mark})
  OBVIOUS
<1>. QED BY <1>1 DEF Map, RefAt

LEMMA PreparedJobAt ==
    ASSUME NEW spec \in JobFlowSpecAt("call"), NEW flow \in FlowAt("call"),
           NEW base \in JobSpecAt("call")
    PROVE  PreparedJob(spec, flow, base) \in RenderedJob
<1> DEFINE g == spec.GlobalParams
           mark == IF flow.JobTemplateRef THEN <<Mark>> ELSE <<>>
           Entry == (STRING \X STRING) \cup {Mark}
           labels == Preset(g.Labels, base.Labels)
           annotations == Preset(g.Annotations, base.Annotations)
           volumes == IF Shares(spec, flow) THEN Joined(base.Pod.Volumes, spec.ShareVolumes)
                                            ELSE base.Pod.Volumes
           containers == JobFlowContainers(base, spec, flow)
           nodeName == IF g.NodeName = None THEN base.Pod.NodeName ELSE g.NodeName
<1>1. /\ g.Labels \in Map("call") /\ g.Annotations \in Map("call")
      /\ g.NodeName \in Nodes \cup {None}
      /\ base.Labels \in Map("call") /\ base.Annotations \in Map("call")
      /\ base.Pod.Volumes \in Names("call") /\ spec.ShareVolumes \in Names("call")
      /\ base.Pod.NodeName \in Nodes \cup {None}
  BY DEF JobFlowSpecAt, GlobalParamsAt, JobSpecAt, PodSpecAt
<1>2. <<>> \in Seq(STRING \X STRING) /\ mark \in Seq(Entry)
  <2>1. \A e \in Entry : <<e>> \in Seq(Entry)
    OBVIOUS
  <2>. QED BY <2>1, EmptySeq
<1>3. g.Annotations \in RefAt("call", Entry)
  BY <1>1, MarkedMap
<1>. HIDE DEF g, mark, Entry
<1>4. /\ Fresh(<<>>, g.Labels) \in Map("call") /\ Fresh(mark, g.Annotations) \in RefAt("call", Entry)
      /\ labels \in Map("call") /\ annotations \in Map("call")
  BY <1>1, <1>2, <1>3, FreshAt DEF Map, Preset
<1>5. volumes \in Names("call")
  BY <1>1, JoinedAt DEF Names
<1>6. containers \in RefAt("call", ContainerAt("call"))
  BY JobFlowContainersAt
<1>7. nodeName \in Nodes \cup {None}
  BY <1>1
<1>8. PreparedJob(spec, flow, base) =
        [Labels |-> Fresh(<<>>, g.Labels), Annotations |-> Fresh(mark, g.Annotations),
         RestartPolicy |-> "Never", BackoffLimit |-> 0,
         Spec |-> [Labels |-> labels, Annotations |-> annotations,
                   Pod |-> [Volumes |-> volumes, Containers |-> containers, NodeName |-> nodeName]]]
  BY DEF PreparedJob, g, mark
<1>. HIDE DEF labels, annotations, volumes, containers, nodeName
<1>9. [Volumes |-> volumes, Containers |-> containers, NodeName |-> nodeName] \in PodSpecAt("call")
  BY <1>5, <1>6, <1>7 DEF PodSpecAt
<1>. QED BY <1>4, <1>8, <1>9 DEF RenderedJob, JobSpecAt, Entry

DaemonContainer(spec, c) ==
    IF spec.GlobalParams.Env.at = "nil" THEN c ELSE [c EXCEPT !.Env = spec.GlobalParams.Env]

LEMMA DaemonContainersAt ==
    ASSUME NEW spec \in DaemonJobSpecAt("call")
    PROVE  LET old == spec.JobSpec.Pod.Containers
           IN  /\ DaemonContainers(spec) \in RefAt("call", ContainerAt("call"))
               /\ DOMAIN DaemonContainers(spec).is = DOMAIN old.is
               /\ \A k \in DOMAIN old.is :
                     /\ old.is[k] \in ContainerAt("call")
                     /\ DaemonContainers(spec).is[k] = DaemonContainer(spec, old.is[k])
<1> DEFINE old == spec.JobSpec.Pod.Containers
           f == [k \in DOMAIN old.is |-> DaemonContainer(spec, old.is[k])]
<1>1. old \in RefAt("call", ContainerAt("call")) /\ spec.GlobalParams.Env \in Names("call")
  BY DEF DaemonJobSpecAt, JobSpecAt, PodSpecAt, GlobalParamsAt
<1>2. ToSet(old.is) \subseteq ContainerAt("call") /\ old.is \in Seq(ContainerAt("call"))
  BY <1>1, RefPlace
<1>3. \A c \in ContainerAt("call") : DaemonContainer(spec, c) \in ContainerAt("call")
  BY <1>1 DEF ContainerAt, DaemonContainer
<1>4. \A k \in DOMAIN old.is : old.is[k] \in ContainerAt("call")
  BY <1>2
<1>5. /\ \A k \in DOMAIN old.is : f[k] \in ContainerAt("call")
      /\ \A k \in DOMAIN old.is : f[k] = DaemonContainer(spec, old.is[k])
  BY <1>3, <1>4
<1>6. DOMAIN f = DOMAIN old.is /\ f = [k \in DOMAIN old.is |-> f[k]]
  OBVIOUS
<1>7. DaemonContainers(spec) = [old EXCEPT !.is = f]
  BY DEF DaemonContainers, DaemonContainer
<1>8. [old EXCEPT !.is = f].is = f
  BY <1>1 DEF RefAt, Nil
<1>. HIDE DEF f
<1>9. [old EXCEPT !.is = f] \in RefAt("call", ContainerAt("call"))
  BY <1>1, <1>5, <1>6, MapEach
<1>. QED BY <1>4, <1>5, <1>6, <1>7, <1>8, <1>9

LEMMA PreparedFromDaemonJobAt ==
    ASSUME NEW spec \in DaemonJobSpecAt("call"), NEW node \in Nodes
    PROVE  PreparedJobFromDaemonJob(spec, node) \in RenderedJob
<1> DEFINE g == spec.GlobalParams
           base == spec.JobSpec
           labels == IF g.Labels.at = "nil" THEN base.Labels ELSE g.Labels
           annotations == IF g.Annotations.at = "nil" THEN base.Annotations ELSE g.Annotations
           pod == [base.Pod EXCEPT !.Containers = DaemonContainers(spec), !.NodeName = node]
<1>1. /\ g.Labels \in Map("call") /\ g.Annotations \in Map("call")
      /\ labels \in Map("call") /\ annotations \in Map("call")
      /\ base.Pod \in PodSpecAt("call")
  BY DEF DaemonJobSpecAt, JobSpecAt, GlobalParamsAt
<1>2. DaemonContainers(spec) \in RefAt("call", ContainerAt("call"))
  BY DaemonContainersAt
<1>3. pod \in PodSpecAt("call")
  BY <1>1, <1>2 DEF PodSpecAt
<1>4. PreparedJobFromDaemonJob(spec, node) =
        [Labels |-> g.Labels, Annotations |-> g.Annotations, RestartPolicy |-> "Never",
         BackoffLimit |-> 0, Spec |-> [Labels |-> labels, Annotations |-> annotations, Pod |-> pod]]
  BY DEF PreparedJobFromDaemonJob
<1>. HIDE DEF g, base, labels, annotations, pod
<1>. QED BY <1>1, <1>3, <1>4, MarkedMap DEF RenderedJob, JobSpecAt
-----------------------------------------------------------------------------
(***************************************************************************)
(* The types.  What the cache and the server keep refers to their own      *)
(* memory, what a call works on refers to the memory of the call.          *)
(***************************************************************************)
ObjectAt ==
    [JobFlow |-> JobFlowAt("cache"), JobTemplate |-> JobTemplateAt("cache"),
     DaemonJob |-> DaemonJobAt("cache")]
Points == {"idle", "prepare", "create", "status"}
FlowCall ==
    [pc : Points, object : JobFlowAt("call") \cup {None}, read : JobFlowAt("cache") \cup {None},
     left : SUBSET Nat, entry : Nat \cup {None}, template : JobTemplateAt("cache") \cup {None},
     job : RenderedJob \cup {None}]
DaemonCall ==
    [pc : Points, object : DaemonJobAt("call") \cup {None}, read : DaemonJobAt("cache") \cup {None},
     left : SUBSET Nodes, entry : Nodes \cup {None}, template : {None},
     job : RenderedJob \cup {None}]

Typed ==
    /\ asked \in [Kinds -> FlowSpecs \cup TemplateSpecs \cup DaemonSpecs \cup {None}]
    /\ \A k \in Kinds :
          /\ server[k] \in ObjectAt[k] \cup {None}
          /\ shown[k] \in ObjectAt[k] \cup {None}
          /\ asked[k] \in SpecsOf[k] \cup {None}
          /\ asked[k] = None <=> server[k] = None
    /\ DOMAIN server = Kinds /\ server = [k \in Kinds |-> server[k]]
    /\ DOMAIN shown = Kinds /\ shown = [k \in Kinds |-> shown[k]]
    /\ edits \in 0 .. MaxEdits
    /\ call = [c \in Controllers |-> call[c]]
    /\ call["JobFlow"] \in FlowCall /\ call["DaemonJob"] \in DaemonCall

Phases ==
    \A c \in Controllers :
       /\ call[c].pc = "idle" <=> call[c].object = None
       /\ call[c].pc = "idle" <=> call[c].read = None
       /\ call[c].pc = "idle" => call[c] = Idle
       /\ call[c].pc = "create" <=> call[c].job # None
       /\ call[c].pc = "create" <=> call[c].entry # None

\* The entries still to be rendered are entries of the flow that was read.
Left ==
    call["JobFlow"].object # None =>
       call["JobFlow"].left \subseteq DOMAIN call["JobFlow"].object.Spec.Flows.is

IntactInv == Typed /\ Phases /\ Left /\ cache = shown /\ SpecUntouched

LEMMA IdleType == Idle \in FlowCall /\ Idle \in DaemonCall
<1>. QED BY DEF Idle, FlowCall, DaemonCall, Points

LEMMA IdleIs ==
    /\ Idle.pc = "idle" /\ Idle.object = None /\ Idle.read = None
    /\ Idle.entry = None /\ Idle.job = None
<1>. QED BY DEF Idle

LEMMA InitIntact == ASSUME Init PROVE IntactInv
<1>1. Typed
  BY IdleType, RenderingAssumption DEF Init, Typed, Kinds, Controllers
<1>2. Phases
  BY DEF Init, Phases, Idle, Controllers
<1>3. Left
  BY DEF Init, Left, Idle, Controllers
<1>. QED BY <1>1, <1>2, <1>3 DEF Init, IntactInv, SpecUntouched

(***************************************************************************)
(* Users and the watch.                                                    *)
(***************************************************************************)
LEMMA WriteIntact ==
    ASSUME IntactInv, NEW k \in Kinds, Write(k) \/ Delete(k) \/ Deliver(k) PROVE IntactInv'
<1>. USE DEF IntactInv
<1>1. UNCHANGED call /\ Phases' /\ Left'
  BY DEF Write, Delete, Deliver, Phases, Left
<1>2. CASE Write(k)
  <2>1. PICK spec \in SpecsOf[k] :
          /\ asked' = [asked EXCEPT ![k] = spec]
          /\ server' = [server EXCEPT ![k] =
                IF server[k] = None THEN [Spec |-> spec, Status |-> EmptyStatus[k]]
                                    ELSE [server[k] EXCEPT !.Spec = spec]]
    BY <1>2 DEF Write
  <2> DEFINE new == IF server[k] = None THEN [Spec |-> spec, Status |-> EmptyStatus[k]]
                                        ELSE [server[k] EXCEPT !.Spec = spec]
  <2>2. new \in ObjectAt[k] /\ new.Spec = spec
    <3>1. Nil \in Names("cache")
      BY DEF Names, RefAt
    <3>2. /\ [JobStatusList |-> Nil] \in JobStatusListAt("cache")
          /\ [DependencyList |-> Nil] \in [DependencyList : Names("cache")]
      BY <3>1 DEF JobStatusListAt, RefAt
    <3>3. CASE k = "JobFlow"
      BY <3>2, <3>3, RenderingAssumption DEF Typed, ObjectAt, EmptyStatus, JobFlowAt, SpecsOf
    <3>4. CASE k = "JobTemplate"
      BY <3>2, <3>4, RenderingAssumption DEF Typed, ObjectAt, EmptyStatus, JobTemplateAt, SpecsOf
    <3>5. CASE k = "DaemonJob"
      BY <3>2, <3>5, RenderingAssumption DEF Typed, ObjectAt, EmptyStatus, DaemonJobAt, SpecsOf
    <3>. QED BY <3>3, <3>4, <3>5 DEF Kinds
  <2>3. new # None /\ spec # None
    BY <2>2, NoneAssumption DEF ObjectAt, Kinds, SpecsOf
  <2>. HIDE DEF new
  <2>4. /\ server'[k] = new /\ asked'[k] = spec
        /\ \A j \in Kinds \ {k} : server'[j] = server[j] /\ asked'[j] = asked[j]
        /\ DOMAIN server' = Kinds /\ server' = [j \in Kinds |-> server'[j]]
    BY <2>1 DEF Typed, new
  <2>5. asked' \in [Kinds -> FlowSpecs \cup TemplateSpecs \cup DaemonSpecs \cup {None}]
    BY <2>1 DEF Typed, Kinds, SpecsOf
  <2>6. edits' \in 0 .. MaxEdits /\ UNCHANGED <<cache, shown>>
    BY <1>2, RenderingAssumption DEF Write, Typed
  <2>7. Typed'
    BY <1>1, <2>2, <2>3, <2>4, <2>5, <2>6 DEF Typed
  <2>8. SpecUntouched'
    BY <2>2, <2>4 DEF SpecUntouched
  <2>. QED BY <1>1, <2>6, <2>7, <2>8
<1>3. CASE Delete(k)
  <2>1. /\ server'[k] = None /\ asked'[k] = None
        /\ \A j \in Kinds \ {k} : server'[j] = server[j] /\ asked'[j] = asked[j]
        /\ DOMAIN server' = Kinds /\ server' = [j \in Kinds |-> server'[j]]
        /\ asked' \in [Kinds -> FlowSpecs \cup TemplateSpecs \cup DaemonSpecs \cup {None}]
    BY <1>3 DEF Delete, Typed
  <2>2. edits' \in 0 .. MaxEdits /\ UNCHANGED <<cache, shown>>
    BY <1>3, RenderingAssumption DEF Delete, Typed
  <2>3. Typed'
    BY <1>1, <2>1, <2>2 DEF Typed
  <2>4. SpecUntouched'
    BY <2>1 DEF SpecUntouched
  <2>. QED BY <1>1, <2>2, <2>3, <2>4
<1>4. CASE Deliver(k)
  <2>1. /\ UNCHANGED <<asked, server, edits>>
        /\ shown' = [shown EXCEPT ![k] = server[k]] /\ cache' = shown'
    BY <1>4 DEF Deliver
  <2>2. Typed'
    BY <1>1, <2>1 DEF Typed
  <2>. QED BY <1>1, <2>1, <2>2 DEF SpecUntouched
<1>. QED BY <1>2, <1>3, <1>4

(***************************************************************************)
(* A step of one call, which touches nothing else.                         *)
(***************************************************************************)
CallOf == [JobFlow |-> FlowCall, DaemonJob |-> DaemonCall]

LEMMA CallStep ==
    ASSUME IntactInv, NEW c \in Controllers, NEW new \in CallOf[c], call' = [call EXCEPT ![c] = new],
           new.pc = "idle" <=> new.object = None, new.pc = "idle" <=> new.read = None,
           new.pc = "idle" => new = Idle,
           new.pc = "create" <=> new.job # None, new.pc = "create" <=> new.entry # None,
           c = "JobFlow" /\ new.object # None => new.left \subseteq DOMAIN new.object.Spec.Flows.is
    PROVE  /\ call' = [d \in Controllers |-> call'[d]]
           /\ call'["JobFlow"] \in FlowCall /\ call'["DaemonJob"] \in DaemonCall
           /\ Phases' /\ Left'
<1>. USE DEF IntactInv
<1>1. call'[c] = new /\ \A d \in Controllers \ {c} : call'[d] = call[d]
  BY DEF Typed
<1>2. call' = [d \in Controllers |-> call'[d]]
  BY DEF Typed
<1>3. call'["JobFlow"] \in FlowCall /\ call'["DaemonJob"] \in DaemonCall
  BY <1>1 DEF Typed, CallOf, Controllers
<1>4. Phases'
  BY <1>1 DEF Phases
<1>5. Left'
  <2>1. CASE c = "JobFlow"
    BY <1>1, <2>1 DEF Left
  <2>2. CASE c # "JobFlow"
    BY <1>1, <2>2 DEF Left, Controllers
  <2>. QED BY <2>1, <2>2
<1>. QED BY <1>2, <1>3, <1>4, <1>5

LEMMA CallIntact ==
    ASSUME IntactInv, UNCHANGED <<asked, server, cache, shown, edits>>,
           NEW c \in Controllers, NEW new \in CallOf[c], call' = [call EXCEPT ![c] = new],
           new.pc = "idle" <=> new.object = None, new.pc = "idle" <=> new.read = None,
           new.pc = "idle" => new = Idle,
           new.pc = "create" <=> new.job # None, new.pc = "create" <=> new.entry # None,
           c = "JobFlow" /\ new.object # None => new.left \subseteq DOMAIN new.object.Spec.Flows.is
    PROVE  IntactInv'
<1>1. /\ call' = [d \in Controllers |-> call'[d]]
      /\ call'["JobFlow"] \in FlowCall /\ call'["DaemonJob"] \in DaemonCall
      /\ Phases' /\ Left'
  BY CallStep
<1>2. Typed'
  BY <1>1 DEF IntactInv, Typed
<1>. QED BY <1>1, <1>2 DEF IntactInv, SpecUntouched

LEMMA GetJobFlowIntact == ASSUME IntactInv, GetJobFlow PROVE IntactInv'
<1> DEFINE o == cache["JobFlow"]
           new == [Idle EXCEPT !.pc = "prepare", !.object = GotJobFlow, !.read = shown["JobFlow"],
                               !.left = DOMAIN o.Spec.Flows.is]
<1>1. o \in JobFlowAt("cache") /\ o = shown["JobFlow"]
  BY DEF GetJobFlow, Begin, IntactInv, Typed, ObjectAt, Kinds
<1>2. GotJobFlow \in JobFlowAt("call") /\ GotJobFlow # None /\ o # None
  BY <1>1, JobFlowCopied, NoneAssumption DEF GotJobFlow
<1>3. o.Spec.Flows.is \in Seq(FlowAt("cache"))
  BY <1>1, RefPlace DEF JobFlowAt, JobFlowSpecAt
<1>4. DOMAIN o.Spec.Flows.is \in SUBSET Nat
  BY <1>3
<1>5. DOMAIN GotJobFlow.Spec.Flows.is = DOMAIN o.Spec.Flows.is
  <2>1. GotJobFlow.Spec.Flows = MovedEach(o.Spec.Flows, "call", FlowDeepCopyInto)
    BY <1>1 DEF GotJobFlow, JobFlowDeepCopyInto, JobFlowSpecDeepCopyInto, JobFlowAt, JobFlowSpecAt
  <2>2. o.Spec.Flows \in RefAt("cache", FlowAt("cache"))
    BY <1>1 DEF JobFlowAt, JobFlowSpecAt
  <2>. QED BY <2>1, <2>2 DEF MovedEach, RefAt, Nil, Ref
<1>7. call' = [call EXCEPT !["JobFlow"] = new] /\ UNCHANGED <<asked, server, cache, shown, edits>>
  BY DEF GetJobFlow, Begin
<1>. HIDE DEF o
<1>8. new \in FlowCall
  BY <1>1, <1>2, <1>4, IdleType DEF FlowCall, Points
<1>9. /\ new.pc = "prepare" /\ new.object = GotJobFlow /\ new.read = o /\ new.left = DOMAIN o.Spec.Flows.is
      /\ new.job = None /\ new.entry = None
  BY <1>1 DEF Idle
<1>. HIDE DEF new
<1>. QED BY <1>2, <1>5, <1>7, <1>8, <1>9, CallIntact DEF CallOf, Controllers

LEMMA GetDaemonJobIntact == ASSUME IntactInv, GetDaemonJob PROVE IntactInv'
<1> DEFINE o == cache["DaemonJob"]
           left == Nodes \ o.Spec.ExcludeNodeList
           new == [Idle EXCEPT !.pc = "prepare", !.object = GotDaemonJob,
                               !.read = shown["DaemonJob"], !.left = left]
<1>1. o \in DaemonJobAt("cache") /\ o = shown["DaemonJob"]
  BY DEF GetDaemonJob, Begin, IntactInv, Typed, ObjectAt, Kinds
<1>2. GotDaemonJob \in DaemonJobAt("call") /\ GotDaemonJob # None /\ o # None
  BY <1>1, DaemonJobCopied, NoneAssumption DEF GotDaemonJob
<1>3. left \in SUBSET Nodes
  OBVIOUS
<1>4. call' = [call EXCEPT !["DaemonJob"] = new] /\ UNCHANGED <<asked, server, cache, shown, edits>>
  BY DEF GetDaemonJob, Begin
<1>. HIDE DEF o, left
<1>5. new \in DaemonCall
  BY <1>1, <1>2, <1>3, IdleType DEF DaemonCall, Points
<1>6. /\ new.pc = "prepare" /\ new.object = GotDaemonJob /\ new.read = o
      /\ new.job = None /\ new.entry = None
  BY <1>1 DEF Idle
<1>. HIDE DEF new
<1>. QED BY <1>2, <1>4, <1>5, <1>6, CallIntact DEF CallOf, Controllers

(***************************************************************************)
(* prepareJob.  The entry rendered next is one that is left, and writing   *)
(* its containers leaves the object of the call an object of the call.     *)
(***************************************************************************)
LEMMA NextIsLeft ==
    ASSUME NEW left \in SUBSET Nat, left # {}, call["JobFlow"].left = left PROVE NextEntry \in left
<1>1. PICK n \in left : \A m \in left : ~ (m < n)
  <2>1. IsWellFoundedOn(OpToRel(<, Nat), Nat)
    BY NatLessThanWellFounded
  <2>2. \E n \in left : \A m \in left : ~ (<<m, n>> \in OpToRel(<, Nat))
    BY <2>1, WFMin
  <2>. QED BY <2>2 DEF OpToRel
<1>2. \A m \in left : n <= m
  BY <1>1
<1>. QED BY <1>2 DEF NextEntry

LEMMA FlowObjectAt ==
    ASSUME NEW o \in JobFlowAt("call"), NEW i \in DOMAIN o.Spec.Flows.is,
           NEW containers \in RefAt("call", ContainerAt("call"))
    PROVE  LET new == WithEntry(o, i, containers)
           IN  new \in JobFlowAt("call") /\ DOMAIN new.Spec.Flows.is = DOMAIN o.Spec.Flows.is
<1> DEFINE flows == o.Spec.Flows
           flow == flows.is[i]
           pod == [flow.JobTemplate.Pod EXCEPT !.Containers = containers]
           entry == [flow EXCEPT !.JobTemplate.Pod.Containers = containers]
           entries == [flows.is EXCEPT ![i] = entry]
           spec == [o.Spec EXCEPT !.Flows = [flows EXCEPT !.is = entries]]
           new == WithEntry(o, i, containers)
<1>1. o.Spec \in JobFlowSpecAt("call") /\ flows \in RefAt("call", FlowAt("call"))
  BY DEF JobFlowAt, JobFlowSpecAt
<1>2. flows.is \in Seq(FlowAt("call")) /\ flow \in FlowAt("call")
  BY <1>1, RefPlace
<1>3. flow.JobTemplate \in JobSpecAt("call") /\ flow.JobTemplate.Pod \in PodSpecAt("call")
  BY <1>2 DEF FlowAt, JobSpecAt
<1>4. pod \in PodSpecAt("call")
  BY <1>3 DEF PodSpecAt
<1>5. entry = [flow EXCEPT !.JobTemplate = [flow.JobTemplate EXCEPT !.Pod = pod]]
  OBVIOUS
<1>. HIDE DEF pod
<1>6. [flow.JobTemplate EXCEPT !.Pod = pod] \in JobSpecAt("call")
  BY <1>3, <1>4 DEF JobSpecAt
<1>7. entry \in FlowAt("call")
  BY <1>2, <1>5, <1>6 DEF FlowAt
<1>8. new = [o EXCEPT !.Spec = spec]
  BY DEF WithEntry
<1>. HIDE DEF entry
<1>9. /\ DOMAIN entries = DOMAIN flows.is /\ entries = [k \in DOMAIN flows.is |-> entries[k]]
      /\ \A k \in DOMAIN flows.is : entries[k] \in FlowAt("call")
  BY <1>2, <1>7
<1>. HIDE DEF entries
<1>10. [flows EXCEPT !.is = entries] \in RefAt("call", FlowAt("call"))
  BY <1>1, <1>9, MapEach
<1>11. [flows EXCEPT !.is = entries].is = entries
  BY <1>1 DEF RefAt, Nil
<1>12. spec \in JobFlowSpecAt("call") /\ spec.Flows.is = entries
  BY <1>1, <1>10, <1>11 DEF JobFlowSpecAt
<1>. HIDE DEF spec
<1>13. new \in JobFlowAt("call") /\ new.Spec = spec
  BY <1>8, <1>12 DEF JobFlowAt
<1>. HIDE DEF new
<1>14. DOMAIN new.Spec.Flows.is = DOMAIN flows.is
  BY <1>9, <1>12, <1>13
<1>. QED BY <1>13, <1>14 DEF new

LEMMA FlowCallReads ==
    ASSUME IntactInv, call["JobFlow"].pc = "prepare"
    PROVE  /\ call["JobFlow"] \in FlowCall
           /\ call["JobFlow"].object \in JobFlowAt("call")
           /\ call["JobFlow"].object # None /\ call["JobFlow"].read # None
           /\ call["JobFlow"].left \subseteq DOMAIN call["JobFlow"].object.Spec.Flows.is
           /\ call["JobFlow"].job = None /\ call["JobFlow"].entry = None
           /\ call["JobFlow"].left \in SUBSET Nat
<1>1. call["JobFlow"] \in FlowCall /\ call["JobFlow"].object # None /\ call["JobFlow"].read # None
      /\ call["JobFlow"].job = None /\ call["JobFlow"].entry = None
  BY DEF IntactInv, Typed, Phases, Controllers
<1>. QED BY <1>1 DEF IntactInv, FlowCall, Left

LEMMA PrepareJobIntact == ASSUME IntactInv, PrepareJob PROVE IntactInv'
<1> DEFINE cl == call["JobFlow"]
           i == NextEntry
           spec == cl.object.Spec
           flow == spec.Flows.is[i]
           byRef == flow.JobTemplateRef
           base == IF byRef THEN GotJobTemplate.Spec.JobTemplate ELSE flow.JobTemplate
           containers == JobFlowContainers(base, spec, flow)
           object == IF byRef THEN cl.object ELSE WithEntry(cl.object, i, containers)
           template == IF byRef THEN shown["JobTemplate"] ELSE None
           job == PreparedJob(spec, flow, base)
           new == [cl EXCEPT !.pc = "create", !.entry = i, !.left = cl.left \ {i},
                             !.template = template, !.job = job, !.object = object]
<1>1. cl.pc = "prepare" /\ cl.left # {} /\ UNCHANGED <<asked, server, shown, edits>>
      /\ (byRef => cache["JobTemplate"] # None)
  BY DEF PrepareJob
<1>2. /\ cl \in FlowCall /\ cl.object \in JobFlowAt("call") /\ cl.object # None /\ cl.read # None
      /\ cl.left \subseteq DOMAIN spec.Flows.is /\ cl.left \in SUBSET Nat
  BY <1>1, FlowCallReads
<1>3. i \in cl.left /\ i \in DOMAIN spec.Flows.is /\ i \in Nat
  BY <1>1, <1>2, NextIsLeft
<1>4. spec \in JobFlowSpecAt("call") /\ flow \in FlowAt("call")
  <2>1. spec \in JobFlowSpecAt("call") /\ spec.Flows \in RefAt("call", FlowAt("call"))
    BY <1>2 DEF JobFlowAt, JobFlowSpecAt
  <2>. QED BY <1>3, <2>1, RefPlace
<1>5. byRef => GotJobTemplate \in JobTemplateAt("call") /\ shown["JobTemplate"] \in JobTemplateAt("cache")
  <2>1. byRef => cache["JobTemplate"] \in JobTemplateAt("cache") /\ shown["JobTemplate"] = cache["JobTemplate"]
    BY <1>1 DEF IntactInv, Typed, ObjectAt, Kinds
  <2>. QED BY <2>1, JobTemplateCopied DEF GotJobTemplate
<1>6. base \in JobSpecAt("call")
  BY <1>4, <1>5 DEF FlowAt, JobTemplateAt, JobTemplateSpecAt
<1>7. containers \in RefAt("call", ContainerAt("call"))
  BY <1>4, <1>6, JobFlowContainersAt
<1>8. job \in RenderedJob /\ job # None
  BY <1>4, <1>6, PreparedJobAt, NoneAssumption
<1>9. call' = [call EXCEPT !["JobFlow"] = new]
  BY DEF PrepareJob
<1>10. cache' = cache
  <2> HIDE DEF containers
  <2>1. containers.at # "cache"
    BY <1>7, RefPlace
  <2>2. cache' = cache \/ cache' = [cache EXCEPT !["JobFlow"] = cache["JobFlow"]]
    BY <2>1 DEF PrepareJob, ThroughEntry, containers
  <2>. QED BY <2>2 DEF IntactInv, Typed
<1>11. object \in JobFlowAt("call") /\ object # None /\ DOMAIN object.Spec.Flows.is = DOMAIN spec.Flows.is
  <2> HIDE DEF containers, byRef, i
  <2>1. /\ WithEntry(cl.object, i, containers) \in JobFlowAt("call")
        /\ DOMAIN WithEntry(cl.object, i, containers).Spec.Flows.is = DOMAIN spec.Flows.is
    BY <1>2, <1>3, <1>7, FlowObjectAt
  <2>. QED BY <1>2, <2>1, NoneAssumption
<1>12. template \in JobTemplateAt("cache") \cup {None}
  BY <1>5
<1>. HIDE DEF i, spec, flow, base, containers, object, template, job, byRef
<1>13. new \in FlowCall
  BY <1>2, <1>3, <1>8, <1>11, <1>12 DEF FlowCall, Points
<1>14. /\ new.pc = "create" /\ new.object = object /\ new.read = cl.read /\ new.entry = i /\ new.job = job
       /\ new.left \subseteq DOMAIN object.Spec.Flows.is
  BY <1>2, <1>11 DEF FlowCall
<1>15. i # None
  BY <1>3, NoneAssumption
<1>. HIDE DEF new
<1>. QED BY <1>1, <1>2, <1>8, <1>9, <1>10, <1>11, <1>13, <1>14, <1>15, CallIntact DEF CallOf, Controllers

LEMMA NoJobTemplateIntact == ASSUME IntactInv, NoJobTemplate PROVE IntactInv'
<1> DEFINE cl == call["JobFlow"]
           new == [cl EXCEPT !.pc = "status", !.left = {}]
<1>1. cl.pc = "prepare" /\ UNCHANGED <<asked, server, cache, shown, edits>>
      /\ call' = [call EXCEPT !["JobFlow"] = new]
  BY DEF NoJobTemplate, IntactInv, Typed
<1>2. cl \in FlowCall /\ cl.object # None /\ cl.read # None /\ cl.job = None /\ cl.entry = None
  BY <1>1, FlowCallReads
<1>3. new \in FlowCall
  BY <1>2 DEF FlowCall, Points
<1>4. /\ new.pc = "status" /\ new.object = cl.object /\ new.read = cl.read /\ new.left = {}
      /\ new.job = None /\ new.entry = None
  BY <1>2 DEF FlowCall
<1>. HIDE DEF new
<1>. QED BY <1>1, <1>2, <1>3, <1>4, CallIntact DEF CallOf, Controllers

(***************************************************************************)
(* prepareJobFromDaemonJob.                                                *)
(***************************************************************************)
LEMMA PrepareJobFromDaemonJobIntact == ASSUME IntactInv, PrepareJobFromDaemonJob PROVE IntactInv'
<1> DEFINE cl == call["DaemonJob"]
           spec == cl.object.Spec
           containers == DaemonContainers(spec)
           pod == [spec.JobSpec.Pod EXCEPT !.Containers = containers]
           object == WithContainers(cl.object, containers)
           new(node) == [cl EXCEPT !.pc = "create", !.entry = node, !.left = cl.left \ {node},
                                   !.job = PreparedJobFromDaemonJob(spec, node), !.object = object]
<1>1. cl.pc = "prepare" /\ UNCHANGED <<asked, server, shown, edits>>
  BY DEF PrepareJobFromDaemonJob
<1>2. /\ cl \in DaemonCall /\ cl.object \in DaemonJobAt("call") /\ cl.left \in SUBSET Nodes
      /\ cl.read # None
  BY <1>1 DEF IntactInv, Typed, Phases, Controllers, DaemonCall
<1>3. PICK node \in cl.left : call' = [call EXCEPT !["DaemonJob"] = new(node)]
  BY DEF PrepareJobFromDaemonJob
<1>4. spec \in DaemonJobSpecAt("call")
  BY <1>2 DEF DaemonJobAt
<1>5. containers \in RefAt("call", ContainerAt("call"))
  BY <1>4, DaemonContainersAt
<1>6. object \in DaemonJobAt("call") /\ object # None
  <2>1. pod \in PodSpecAt("call")
    BY <1>4, <1>5 DEF DaemonJobSpecAt, JobSpecAt, PodSpecAt
  <2>2. object = [cl.object EXCEPT !.Spec = [spec EXCEPT !.JobSpec = [spec.JobSpec EXCEPT !.Pod = pod]]]
    BY DEF WithContainers
  <2>. HIDE DEF pod
  <2>3. [spec.JobSpec EXCEPT !.Pod = pod] \in JobSpecAt("call")
    BY <1>4, <2>1 DEF DaemonJobSpecAt, JobSpecAt
  <2>4. [spec EXCEPT !.JobSpec = [spec.JobSpec EXCEPT !.Pod = pod]] \in DaemonJobSpecAt("call")
    BY <1>4, <2>3 DEF DaemonJobSpecAt
  <2>5. object \in DaemonJobAt("call")
    BY <1>2, <2>2, <2>4 DEF DaemonJobAt
  <2>. QED BY <2>5, NoneAssumption
<1>7. cache' = cache
  <2>1. containers.at # "cache"
    BY <1>5, RefPlace
  <2>2. cache' = [cache EXCEPT !["DaemonJob"] = cache["DaemonJob"]]
    BY <2>1 DEF PrepareJobFromDaemonJob
  <2>. QED BY <2>2 DEF IntactInv, Typed
<1>8. PreparedJobFromDaemonJob(spec, node) \in RenderedJob /\ PreparedJobFromDaemonJob(spec, node) # None
  BY <1>2, <1>3, <1>4, PreparedFromDaemonJobAt, NoneAssumption
<1>9. node \in Nodes /\ node # None
  BY <1>2, <1>3, NoneAssumption
<1>. HIDE DEF spec, containers, object
<1>10. new(node) \in DaemonCall
  BY <1>2, <1>6, <1>8, <1>9 DEF DaemonCall, Points
<1>11. /\ new(node).pc = "create" /\ new(node).object = object /\ new(node).read = cl.read
       /\ new(node).entry = node
       /\ new(node).job = PreparedJobFromDaemonJob(spec, node)
  BY <1>2 DEF DaemonCall
<1>. HIDE DEF new
<1>. QED BY <1>1, <1>2, <1>3, <1>6, <1>7, <1>8, <1>9, <1>10, <1>11, CallIntact DEF CallOf, Controllers

(***************************************************************************)
(* The end of an entry and of a call, and the status update, in which the  *)
(* API server takes the status and keeps the spec.                         *)
(***************************************************************************)
LEMMA PhaseIntact ==
    ASSUME IntactInv, NEW c \in Controllers, Create(c) \/ NothingLeft(c) \/ Abandon(c) PROVE IntactInv'
<1> DEFINE cl == call[c]
<1>1. UNCHANGED <<asked, server, cache, shown, edits>>
  BY DEF Create, NothingLeft, Abandon
<1>2. cl \in CallOf[c]
  BY DEF IntactInv, Typed, CallOf, Controllers
<1>3. CASE Create(c)
  <2>1. PICK on \in {cl.left, {}} :
          call' = [call EXCEPT ![c] =
              [cl EXCEPT !.pc = IF on = {} THEN "status" ELSE "prepare", !.left = on,
                         !.entry = None, !.template = None, !.job = None]]
    BY <1>3 DEF Create
  <2> DEFINE new == [cl EXCEPT !.pc = IF on = {} THEN "status" ELSE "prepare", !.left = on,
                               !.entry = None, !.template = None, !.job = None]
  <2>2. new \in CallOf[c]
    <3>1. CASE c = "JobFlow"
      BY <1>2, <3>1 DEF CallOf, FlowCall, Points
    <3>2. CASE c = "DaemonJob"
      BY <1>2, <3>2 DEF CallOf, DaemonCall, Points
    <3>. QED BY <3>1, <3>2 DEF Controllers
  <2>3. /\ new.pc \in {"status", "prepare"} /\ new.object = cl.object /\ new.read = cl.read
        /\ new.left = on
        /\ new.entry = None /\ new.job = None
    BY <1>2 DEF CallOf, FlowCall, DaemonCall, Controllers
  <2>. HIDE DEF new
  <2>4. cl.object # None /\ cl.read # None
    BY <1>3 DEF Create, IntactInv, Phases
  <2>5. c = "JobFlow" => on \subseteq DOMAIN new.object.Spec.Flows.is
    BY <2>3, <2>4 DEF IntactInv, Left
  <2>6. call' = [call EXCEPT ![c] = new]
    BY <2>1 DEF new
  <2>. QED BY <1>1, <2>2, <2>3, <2>4, <2>5, <2>6, CallIntact
<1>4. CASE NothingLeft(c)
  <2> DEFINE new == [cl EXCEPT !.pc = "status"]
  <2>1. call' = [call EXCEPT ![c] = new]
    BY <1>4 DEF NothingLeft
  <2>2. new \in CallOf[c]
    <3>1. CASE c = "JobFlow"
      BY <1>2, <3>1 DEF CallOf, FlowCall, Points
    <3>2. CASE c = "DaemonJob"
      BY <1>2, <3>2 DEF CallOf, DaemonCall, Points
    <3>. QED BY <3>1, <3>2 DEF Controllers
  <2>3. /\ new.pc = "status" /\ new.object = cl.object /\ new.read = cl.read
        /\ new.left = cl.left /\ new.entry = cl.entry /\ new.job = cl.job
    BY <1>2 DEF CallOf, FlowCall, DaemonCall, Controllers
  <2>4. cl.object # None /\ cl.read # None /\ cl.entry = None /\ cl.job = None /\ cl.left = {}
    BY <1>4 DEF NothingLeft, IntactInv, Phases
  <2>. HIDE DEF new
  <2>. QED BY <1>1, <2>1, <2>2, <2>3, <2>4, CallIntact
<1>5. CASE Abandon(c)
  <2>1. call' = [call EXCEPT ![c] = Idle]
    BY <1>5 DEF Abandon
  <2>2. /\ Idle \in CallOf[c] /\ Idle.pc = "idle" /\ Idle.object = None /\ Idle.read = None
        /\ Idle.entry = None /\ Idle.job = None
    BY IdleType, IdleIs DEF CallOf, Controllers
  <2>. QED BY <1>1, <2>1, <2>2, CallIntact
<1>. QED BY <1>3, <1>4, <1>5

LEMMA UpdateStatusIntact ==
    ASSUME IntactInv, NEW c \in Controllers, UpdateStatus(c) PROVE IntactInv'
<1> DEFINE object == [call[c].object EXCEPT !.Status.JobStatusList = Ref("cache", <<"status">>)]
           new == [server[c] EXCEPT !.Status = object.Status]
<1>1. /\ call[c].pc = "status" /\ UNCHANGED <<asked, cache, shown, edits>>
      /\ call' = [call EXCEPT ![c] = Idle]
      /\ \/ server' = server
         \/ server[c] = call[c].read /\ server' = [server EXCEPT ![c] = new]
  <2>1. /\ call[c].pc = "status" /\ UNCHANGED <<asked, cache, shown, edits>>
        /\ call' = [call EXCEPT ![c] = Idle]
    BY DEF UpdateStatus
  <2>2. server' = IF server[c] = call[c].read THEN [server EXCEPT ![c] = Stored(c, object)] ELSE server
    BY DEF UpdateStatus
  <2>3. Stored(c, object) = new
    BY DEF Stored
  <2>. HIDE DEF object, new
  <2>. QED BY <2>1, <2>2, <2>3
<1>2. /\ call' = [d \in Controllers |-> call'[d]]
      /\ call'["JobFlow"] \in FlowCall /\ call'["DaemonJob"] \in DaemonCall
      /\ Phases' /\ Left'
  <2>1. Idle \in CallOf[c]
    BY IdleType DEF CallOf, Controllers
  <2>. QED BY <1>1, <2>1, IdleIs, CallStep
<1>3. call[c].object # None /\ call[c].read # None
  BY <1>1 DEF IntactInv, Phases
<1>4. CASE server' = server
  <2>1. Typed'
    BY <1>1, <1>2, <1>4 DEF IntactInv, Typed
  <2>. QED BY <1>1, <1>2, <1>4, <2>1 DEF IntactInv, SpecUntouched
<1>5. CASE server[c] = call[c].read /\ server' = [server EXCEPT ![c] = new]
  <2>1. Ref("cache", <<"status">>) \in RefAt("cache", {"status"})
    BY DEF Ref, RefAt
  <2>2. new \in ObjectAt[c] /\ new.Spec = server[c].Spec
    <3>1. CASE c = "JobFlow"
      <4>1. call[c].object \in JobFlowAt("call") /\ server[c] \in JobFlowAt("cache")
        BY <1>3, <1>5, <3>1 DEF IntactInv, Typed, FlowCall
      <4>2. object.Status \in JobStatusListAt("cache")
        BY <2>1, <4>1 DEF JobFlowAt, JobStatusListAt
      <4>. HIDE DEF object
      <4>. QED BY <3>1, <4>1, <4>2 DEF ObjectAt, JobFlowAt
    <3>2. CASE c = "DaemonJob"
      <4>1. call[c].object \in DaemonJobAt("call") /\ server[c] \in DaemonJobAt("cache")
        BY <1>3, <1>5, <3>2 DEF IntactInv, Typed, DaemonCall
      <4>2. object.Status \in JobStatusListAt("cache")
        BY <2>1, <4>1 DEF DaemonJobAt, JobStatusListAt
      <4>. HIDE DEF object
      <4>. QED BY <3>2, <4>1, <4>2 DEF ObjectAt, DaemonJobAt
    <3>. QED BY <3>1, <3>2 DEF Controllers
  <2>3. c \in Kinds /\ new # None /\ server[c] # None
    BY <1>3, <1>5, <2>2, NoneAssumption DEF ObjectAt, Kinds, Controllers
  <2>. HIDE DEF new
  <2>4. /\ server'[c] = new /\ \A k \in Kinds \ {c} : server'[k] = server[k]
        /\ DOMAIN server' = Kinds /\ server' = [k \in Kinds |-> server'[k]]
    BY <1>5, <2>3 DEF IntactInv, Typed
  <2>5. Typed'
    BY <1>1, <1>2, <2>2, <2>3, <2>4 DEF IntactInv, Typed
  <2>6. SpecUntouched'
    BY <1>1, <2>2, <2>3, <2>4 DEF IntactInv, SpecUntouched
  <2>. QED BY <1>1, <1>2, <2>5, <2>6 DEF IntactInv
<1>. QED BY <1>1, <1>4, <1>5

LEMMA NextIntact == ASSUME IntactInv, [Next]_vars PROVE IntactInv'
<1>1. CASE UNCHANGED vars
  BY <1>1 DEF IntactInv, Typed, Phases, Left, SpecUntouched, vars
<1>2. CASE Next
  BY <1>2, WriteIntact, GetJobFlowIntact, PrepareJobIntact, NoJobTemplateIntact, GetDaemonJobIntact,
     PrepareJobFromDaemonJobIntact, PhaseIntact, UpdateStatusIntact DEF Next
<1>. QED BY <1>1, <1>2

LEMMA AlwaysIntact == Spec => []IntactInv
<1>. QED BY InitIntact, NextIntact, PTL DEF Spec
-----------------------------------------------------------------------------
(***************************************************************************)
(* The variables have the types the module gives them.                     *)
(***************************************************************************)
THEOREM TypeInvariant == Spec => []TypeOK
<1>1. ASSUME IntactInv PROVE TypeOK
  BY <1>1 DEF IntactInv, Typed, Phases, FlowCall, DaemonCall, Points, Controllers, TypeOK
<1>. QED BY <1>1, AlwaysIntact, PTL

(***************************************************************************)
(* No object a controller works on, and no copy of a list, shares memory   *)
(* with the informer cache: the DeepCopyInto functions of                  *)
(* zz_generated.deepcopy.go copy every slice, map and pointer there is.    *)
(***************************************************************************)
THEOREM CopiesShareNothingHolds == Spec => []CopiesShareNothing
<1>1. ASSUME IntactInv PROVE CopiesShareNothing
  <2>1. /\ call["JobFlow"].object # None => "cache" \notin JobFlowPlaces(call["JobFlow"].object)
        /\ call["DaemonJob"].object # None => "cache" \notin DaemonJobPlaces(call["DaemonJob"].object)
    BY <1>1, JobFlowPlace, DaemonJobPlace DEF IntactInv, Typed, FlowCall, DaemonCall
  <2>2. Listing("JobFlow").Items \in RefAt("cache", JobFlowAt("cache"))
    BY <1>1, ListingAt DEF IntactInv, Typed, ObjectAt, Kinds
  <2>3. Listing("JobTemplate").Items \in RefAt("cache", JobTemplateAt("cache"))
    BY <1>1, ListingAt DEF IntactInv, Typed, ObjectAt, Kinds
  <2>4. Listing("DaemonJob").Items \in RefAt("cache", DaemonJobAt("cache"))
    BY <1>1, ListingAt DEF IntactInv, Typed, ObjectAt, Kinds
  <2>5. "cache" \notin ListPlaces(JobFlowListDeepCopyInto(Listing("JobFlow"), "call"), JobFlowPlaces)
    BY <2>2, JobFlowListPlace DEF Listing
  <2>6. "cache" \notin ListPlaces(JobTemplateListDeepCopyInto(Listing("JobTemplate"), "call"), JobTemplatePlaces)
    BY <2>3, JobTemplateListPlace DEF Listing
  <2>7. "cache" \notin ListPlaces(DaemonJobListDeepCopyInto(Listing("DaemonJob"), "call"), DaemonJobPlaces)
    BY <2>4, DaemonJobListPlace DEF Listing
  <2>. QED BY <2>1, <2>5, <2>6, <2>7 DEF CopiesShareNothing
<1>. QED BY <1>1, AlwaysIntact, PTL

(***************************************************************************)
(* The informer cache shows what the watch delivered, whatever prepareJob  *)
(* and prepareJobFromDaemonJob have written into what they were given.     *)
(***************************************************************************)
THEOREM CacheIntactHolds == Spec => []CacheIntact
<1>1. ASSUME IntactInv PROVE CacheIntact
  BY <1>1 DEF IntactInv, CacheIntact
<1>. QED BY <1>1, AlwaysIntact, PTL

(***************************************************************************)
(* The stored spec is the one its user wrote last: updateJobFlowStatus and *)
(* its like hand over an object whose containers they have rewritten, but  *)
(* through the status subresource.                                         *)
(***************************************************************************)
THEOREM SpecUntouchedHolds == Spec => []SpecUntouched
<1>1. ASSUME IntactInv PROVE SpecUntouched
  BY <1>1 DEF IntactInv
<1>. QED BY <1>1, AlwaysIntact, PTL
-----------------------------------------------------------------------------
(***************************************************************************)
(* What is rendered.  A job made from copies is the job the originals ask  *)
(* for; only the key prepareJob marks a job with has to be kept free.      *)
(***************************************************************************)
OwnAnnotations(spec) ==
    \A a \in ToSet(spec.GlobalParams.Annotations.is) : a[1] # "createByJobTemplate"

LEMMA FreshIs ==
    ASSUME NEW S, NEW map \in RefAt("call", S) PROVE Fresh(<<>>, map).is = map.is
<1>1. map.is \in Seq(S)
  BY RefPlace
<1>. QED BY <1>1 DEF Fresh, Ref

LEMMA PresetIs ==
    ASSUME NEW S, NEW T, NEW param \in RefAt("cache", S), NEW own \in RefAt("cache", T)
    PROVE  Preset(Moved(param, "call"), Moved(own, "call")).is
             = IF param.at = "nil" THEN own.is ELSE param.is
<1>1. Moved(param, "call") \in RefAt("call", S)
  BY MovedAt
<1>. QED BY <1>1, FreshIs, MovedValue DEF Preset

LEMMA ElementsOfMarked ==
    ASSUME NEW S, NEW e, NEW s \in Seq(S) PROVE ToSet(<<e>> \o s) = {e} \cup ToSet(s)
<1> DEFINE w == <<e>> \o s
<1>1. Len(w) = Len(s) + 1 /\ w[1] = e /\ \A k \in 1 .. Len(s) : w[k + 1] = s[k]
  OBVIOUS
<1>2. DOMAIN w = 1 .. Len(s) + 1 /\ DOMAIN s = 1 .. Len(s) /\ Len(s) \in Nat
  OBVIOUS
<1>. HIDE DEF w
<1>3. ToSet(w) \subseteq {e} \cup ToSet(s)
  <2>. SUFFICES ASSUME NEW k \in 1 .. Len(s) + 1 PROVE w[k] \in {e} \cup ToSet(s)
    BY <1>2 DEF ToSet
  <2>1. CASE k = 1
    BY <1>1, <2>1
  <2>2. CASE k # 1
    <3>1. k - 1 \in 1 .. Len(s) /\ (k - 1) + 1 = k
      BY <1>2, <2>2
    <3>2. w[k] = s[k - 1]
      BY <1>1, <3>1
    <3>. QED BY <1>2, <3>1, <3>2 DEF ToSet
  <2>. QED BY <2>1, <2>2
<1>4. e \in ToSet(w)
  BY <1>1, <1>2 DEF ToSet
<1>5. ToSet(s) \subseteq ToSet(w)
  <2>. SUFFICES ASSUME NEW k \in 1 .. Len(s) PROVE s[k] \in ToSet(w)
    BY <1>2 DEF ToSet
  <2>1. w[k + 1] = s[k] /\ k + 1 \in 1 .. Len(s) + 1
    BY <1>1, <1>2
  <2>. QED BY <1>2, <2>1 DEF ToSet
<1>. QED BY <1>3, <1>4, <1>5 DEF w

Sharing(spec, flow) == spec.ShareVolumes.is # <<>> /\ flow.ShareVolumeMounts.is # <<>>

LEMMA SharesOfCopies ==
    ASSUME NEW spec \in JobFlowSpecAt("cache"), NEW flow \in FlowAt("cache"), NEW own,
           own.ShareVolumes = Moved(spec.ShareVolumes, "call")
    PROVE  Shares(own, FlowDeepCopyInto(flow, "call")) <=> Sharing(spec, flow)
<1>1. /\ spec.ShareVolumes \in RefAt("cache", STRING)
      /\ flow.ShareVolumeMounts \in RefAt("cache", STRING)
  BY DEF JobFlowSpecAt, FlowAt, Names
<1>2. /\ own.ShareVolumes.is = spec.ShareVolumes.is
      /\ FlowDeepCopyInto(flow, "call").ShareVolumeMounts.is = flow.ShareVolumeMounts.is
  BY <1>1, MovedValue DEF FlowDeepCopyInto, FlowAt
<1>3. spec.ShareVolumes.is \in Seq(STRING) /\ flow.ShareVolumeMounts.is \in Seq(STRING)
  BY <1>1, RefPlace
<1>4. \A s \in Seq(STRING) : Len(s) # 0 <=> s # <<>>
  OBVIOUS
<1>. QED BY <1>2, <1>3, <1>4 DEF Shares, Sharing

\* The copy's own value, and the shared one after it where there is one.
LEMMA JoinedIs ==
    ASSUME NEW S, NEW own \in RefAt("cache", S), NEW shared \in RefAt("cache", S)
    PROVE  /\ Joined(Moved(own, "call"), Moved(shared, "call")).is = own.is \o shared.is
           /\ Moved(own, "call").is = own.is \o <<>>
<1>1. Moved(own, "call") \in RefAt("call", S) /\ Moved(shared, "call") \in RefAt("call", S)
  BY MovedAt
<1>2. own.is = own.is \o <<>>
  BY RefPlace
<1>3. Moved(own, "call").is = own.is /\ Moved(shared, "call").is = shared.is
  BY MovedValue
<1>4. Joined(Moved(own, "call"), Moved(shared, "call")).is = Moved(own, "call").is \o Moved(shared, "call").is
  BY <1>1, JoinedAt
<1>. QED BY <1>2, <1>3, <1>4

ContainersRendered(spec, flow, base, made) ==
    /\ DOMAIN made.is = DOMAIN base.Pod.Containers.is
    /\ \A k \in DOMAIN base.Pod.Containers.is :
          LET c == base.Pod.Containers.is[k]
              g == spec.GlobalParams
          IN  /\ made.is[k].VolumeMounts.is
                    = c.VolumeMounts.is \o (IF Sharing(spec, flow) THEN flow.ShareVolumeMounts.is ELSE <<>>)
              /\ made.is[k].Env.is = IF g.Env.at = "nil" THEN c.Env.is ELSE g.Env.is

LEMMA FlowContainersRendered ==
    ASSUME NEW spec \in JobFlowSpecAt("cache"), NEW flow \in FlowAt("cache"),
           NEW base \in JobSpecAt("cache"), NEW own \in JobFlowSpecAt("call"),
           own.GlobalParams = GlobalParamsDeepCopyInto(spec.GlobalParams, "call"),
           own.ShareVolumes = Moved(spec.ShareVolumes, "call"),
           NEW copy, copy = JobSpecDeepCopyInto(base, "call"),
           NEW entry, entry = FlowDeepCopyInto(flow, "call")
    PROVE  ContainersRendered(spec, flow, base, JobFlowContainers(copy, own, entry))
<1>1. copy \in JobSpecAt("call") /\ entry \in FlowAt("call")
  BY JobSpecCopied, FlowCopied
<1>2. base.Pod.Containers \in RefAt("cache", ContainerAt("cache"))
  BY DEF JobSpecAt, PodSpecAt
<1>3. copy.Pod.Containers = MovedEach(base.Pod.Containers, "call", ContainerDeepCopyInto)
  BY DEF JobSpecDeepCopyInto, PodSpecDeepCopyInto, JobSpecAt, PodSpecAt
<1>4. /\ DOMAIN copy.Pod.Containers.is = DOMAIN base.Pod.Containers.is
      /\ \A k \in DOMAIN base.Pod.Containers.is :
            copy.Pod.Containers.is[k] = ContainerDeepCopyInto(base.Pod.Containers.is[k], "call")
  BY <1>2, <1>3 DEF MovedEach, RefAt, Nil, Ref
<1>5. Shares(own, entry) <=> Sharing(spec, flow)
  BY SharesOfCopies
<1>6. SUFFICES ASSUME NEW k \in DOMAIN base.Pod.Containers.is
               PROVE  LET c == base.Pod.Containers.is[k]
                          made == JobFlowContainers(copy, own, entry).is[k]
                          g == spec.GlobalParams
                      IN  /\ made.VolumeMounts.is
                               = c.VolumeMounts.is \o (IF Sharing(spec, flow) THEN flow.ShareVolumeMounts.is ELSE <<>>)
                          /\ made.Env.is = IF g.Env.at = "nil" THEN c.Env.is ELSE g.Env.is
  BY <1>1, <1>4, JobFlowContainersAt DEF ContainersRendered
<1> DEFINE c == base.Pod.Containers.is[k]
           cc == ContainerDeepCopyInto(c, "call")
           made == JobFlowContainers(copy, own, entry).is[k]
<1>7. made = JobFlowContainer(cc, own, entry)
  BY <1>1, <1>4, JobFlowContainersAt
<1>8. c \in ContainerAt("cache")
  BY <1>2, RefPlace DEF ToSet
<1>9. cc.VolumeMounts = Moved(c.VolumeMounts, "call") /\ cc.Env = Moved(c.Env, "call")
  BY <1>8 DEF ContainerAt, ContainerDeepCopyInto
<1>10. entry.ShareVolumeMounts = Moved(flow.ShareVolumeMounts, "call")
  BY DEF FlowAt, FlowDeepCopyInto
<1>11. own.GlobalParams.Env = Moved(spec.GlobalParams.Env, "call")
  BY DEF JobFlowSpecAt, GlobalParamsAt, GlobalParamsDeepCopyInto
<1>12. /\ c.VolumeMounts \in RefAt("cache", STRING) /\ c.Env \in RefAt("cache", STRING)
       /\ flow.ShareVolumeMounts \in RefAt("cache", STRING)
       /\ spec.GlobalParams.Env \in RefAt("cache", STRING)
  BY <1>8 DEF ContainerAt, FlowAt, JobFlowSpecAt, GlobalParamsAt, Names
<1>. HIDE DEF c, cc, made
<1>13. made.VolumeMounts.is = c.VolumeMounts.is \o (IF Sharing(spec, flow) THEN flow.ShareVolumeMounts.is ELSE <<>>)
  <2>1. made.VolumeMounts = IF Sharing(spec, flow) THEN Joined(cc.VolumeMounts, entry.ShareVolumeMounts) ELSE cc.VolumeMounts
    BY <1>5, <1>7 DEF JobFlowContainer
  <2>2. /\ Joined(cc.VolumeMounts, entry.ShareVolumeMounts).is = c.VolumeMounts.is \o flow.ShareVolumeMounts.is
        /\ cc.VolumeMounts.is = c.VolumeMounts.is \o <<>>
    BY <1>9, <1>10, <1>12, JoinedIs
  <2>3. CASE Sharing(spec, flow)
    BY <2>1, <2>2, <2>3
  <2>4. CASE ~ Sharing(spec, flow)
    BY <2>1, <2>2, <2>4
  <2>. QED BY <2>3, <2>4
<1>14. made.Env.is = IF spec.GlobalParams.Env.at = "nil" THEN c.Env.is ELSE spec.GlobalParams.Env.is
  <2>1. made.Env = IF own.GlobalParams.Env.at = "nil" THEN cc.Env ELSE own.GlobalParams.Env
    BY <1>7 DEF JobFlowContainer
  <2>. QED BY <1>9, <1>11, <1>12, <2>1, MovedValue
<1>. QED BY <1>13, <1>14 DEF c, made

LEMMA FlowJobRendered ==
    ASSUME NEW spec \in JobFlowSpecAt("cache"), NEW flow \in FlowAt("cache"),
           NEW base \in JobSpecAt("cache"), NEW own \in JobFlowSpecAt("call"),
           own.GlobalParams = GlobalParamsDeepCopyInto(spec.GlobalParams, "call"),
           own.ShareVolumes = Moved(spec.ShareVolumes, "call"),
           OwnAnnotations(spec),
           NEW copy, copy = JobSpecDeepCopyInto(base, "call"),
           NEW entry, entry = FlowDeepCopyInto(flow, "call")
    PROVE  FlowJobRight(spec, flow, base, PreparedJob(own, entry, copy))
<1> DEFINE job == PreparedJob(own, entry, copy)
           g == spec.GlobalParams
           og == own.GlobalParams
           shares == Sharing(spec, flow)
           mark == IF entry.JobTemplateRef THEN <<Mark>> ELSE <<>>
<1>1. /\ job.Labels = Fresh(<<>>, og.Labels)
      /\ job.Annotations = Fresh(mark, og.Annotations)
      /\ job.RestartPolicy = "Never" /\ job.BackoffLimit = 0
      /\ job.Spec.Labels = Preset(og.Labels, copy.Labels)
      /\ job.Spec.Annotations = Preset(og.Annotations, copy.Annotations)
      /\ job.Spec.Pod.Volumes = IF Shares(own, entry) THEN Joined(copy.Pod.Volumes, own.ShareVolumes)
                                                     ELSE copy.Pod.Volumes
      /\ job.Spec.Pod.Containers = JobFlowContainers(copy, own, entry)
      /\ job.Spec.Pod.NodeName = IF og.NodeName = None THEN copy.Pod.NodeName ELSE og.NodeName
  BY DEF PreparedJob
<1>. HIDE DEF job
<1>2. /\ og.Labels = Moved(g.Labels, "call") /\ og.Annotations = Moved(g.Annotations, "call")
      /\ og.NodeName = g.NodeName
  BY DEF JobFlowSpecAt, GlobalParamsAt, GlobalParamsDeepCopyInto
<1>3. /\ copy.Labels = Moved(base.Labels, "call") /\ copy.Annotations = Moved(base.Annotations, "call")
      /\ copy.Pod.Volumes = Moved(base.Pod.Volumes, "call") /\ copy.Pod.NodeName = base.Pod.NodeName
  BY DEF JobSpecAt, PodSpecAt, JobSpecDeepCopyInto, PodSpecDeepCopyInto
<1>4. /\ g.Labels \in RefAt("cache", STRING \X STRING) /\ g.Annotations \in RefAt("cache", STRING \X STRING)
      /\ base.Labels \in RefAt("cache", STRING \X STRING)
      /\ base.Annotations \in RefAt("cache", STRING \X STRING)
      /\ base.Pod.Volumes \in RefAt("cache", STRING) /\ spec.ShareVolumes \in RefAt("cache", STRING)
  BY DEF JobFlowSpecAt, GlobalParamsAt, JobSpecAt, PodSpecAt, Map, Names
<1>5. entry.JobTemplateRef <=> flow.JobTemplateRef
  BY DEF FlowAt, FlowDeepCopyInto
<1>6. Shares(own, entry) <=> shares
  BY SharesOfCopies
<1>7. ContainersRendered(spec, flow, base, job.Spec.Pod.Containers)
  BY <1>1, FlowContainersRendered
<1>. HIDE DEF shares, g, og, mark
<1>8. job.Spec.Pod.Volumes.is = base.Pod.Volumes.is \o (IF shares THEN spec.ShareVolumes.is ELSE <<>>)
  <2> DEFINE v == base.Pod.Volumes
             w == spec.ShareVolumes
  <2>1. /\ Joined(copy.Pod.Volumes, own.ShareVolumes).is = v.is \o w.is
        /\ copy.Pod.Volumes.is = v.is \o <<>>
    <3>1. copy.Pod.Volumes = Moved(v, "call") /\ own.ShareVolumes = Moved(w, "call")
      BY <1>3
    <3>2. v \in RefAt("cache", STRING) /\ w \in RefAt("cache", STRING)
      BY <1>4
    <3>. HIDE DEF v, w
    <3>. QED BY <3>1, <3>2, JoinedIs
  <2>2. CASE shares
    BY <1>1, <1>6, <2>1, <2>2
  <2>3. CASE ~ shares
    BY <1>1, <1>6, <2>1, <2>3
  <2>. QED BY <2>2, <2>3
<1>9. /\ job.Spec.Labels.is = IF g.Labels.at = "nil" THEN base.Labels.is ELSE g.Labels.is
      /\ job.Spec.Annotations.is = IF g.Annotations.at = "nil" THEN base.Annotations.is ELSE g.Annotations.is
  BY <1>1, <1>2, <1>3, <1>4, PresetIs
<1>10. og.Labels.is = g.Labels.is /\ og.Annotations.is = g.Annotations.is
  BY <1>2, <1>4, MovedValue
<1>11. ToSet(g.Labels.is) = ToSet(job.Labels.is)
  <2>1. og.Labels \in RefAt("call", STRING \X STRING)
    BY <1>2, <1>4, MovedAt
  <2>. QED BY <1>1, <1>10, <2>1, FreshIs
<1>12. ToSet(job.Annotations.is) = ToSet(g.Annotations.is) \cup (IF flow.JobTemplateRef THEN {Mark} ELSE {})
  <2>1. g.Annotations.is \in Seq(STRING \X STRING)
    BY <1>4, RefPlace
  <2>2. job.Annotations.is = mark \o g.Annotations.is
    BY <1>1, <1>10 DEF Fresh, Ref
  <2>3. CASE flow.JobTemplateRef
    <3>1. mark = <<Mark>>
      BY <1>5, <2>3 DEF mark
    <3>. QED BY <2>1, <2>2, <2>3, <3>1, ElementsOfMarked
  <2>4. CASE ~ flow.JobTemplateRef
    <3>1. mark = <<>>
      BY <1>5, <2>4 DEF mark
    <3>2. mark \o g.Annotations.is = g.Annotations.is
      BY <2>1, <3>1
    <3>. QED BY <2>2, <2>4, <3>2
  <2>. QED BY <2>3, <2>4
<1>13. Mark[1] = "createByJobTemplate" /\ \A a \in ToSet(g.Annotations.is) : a[1] # "createByJobTemplate"
  BY DEF Mark, OwnAnnotations, g
<1>14. /\ ToSet(g.Annotations.is) = {a \in ToSet(job.Annotations.is) : a[1] # "createByJobTemplate"}
       /\ flow.JobTemplateRef <=> \E a \in ToSet(job.Annotations.is) : a[1] = "createByJobTemplate"
  BY <1>12, <1>13
<1>15. job.Spec.Pod.NodeName = IF g.NodeName = None THEN base.Pod.NodeName ELSE g.NodeName
  BY <1>1, <1>2, <1>3
<1>. QED BY <1>1, <1>7, <1>8, <1>9, <1>11, <1>14, <1>15
     DEF FlowJobRight, Either, ContainersRendered, Sharing, job, shares, g

(***************************************************************************)
(* The entries a call has still to render are as they were read, whatever  *)
(* the entries rendered before them have left in the object; a DaemonJob,  *)
(* of which every job is made, has lost no more than env that is replaced  *)
(* again.                                                                  *)
(***************************************************************************)
Base(template, flow) == IF flow.JobTemplateRef THEN template.Spec.JobTemplate ELSE flow.JobTemplate

FlowUnrendered(cl) ==
    /\ cl.object.Spec.GlobalParams = GlobalParamsDeepCopyInto(cl.read.Spec.GlobalParams, "call")
    /\ cl.object.Spec.ShareVolumes = Moved(cl.read.Spec.ShareVolumes, "call")
    /\ cl.left \subseteq DOMAIN cl.read.Spec.Flows.is
    /\ \A i \in cl.left : cl.object.Spec.Flows.is[i] = FlowDeepCopyInto(cl.read.Spec.Flows.is[i], "call")
FlowMade(cl) ==
    LET flow == cl.read.Spec.Flows.is[cl.entry]
    IN  FlowJobRight(cl.read.Spec, flow, Base(cl.template, flow), cl.job)
FlowPart(cl) ==
    /\ cl.object # None => cl.read.Spec \in FlowSpecs /\ FlowUnrendered(cl)
    /\ cl.job # None => FlowMade(cl)

DaemonUnrendered(cl) ==
    LET now == cl.object.Spec
        was == cl.read.Spec
    IN  /\ now.GlobalParams = GlobalParamsDeepCopyInto(was.GlobalParams, "call")
        /\ now.JobSpec.Labels.is = was.JobSpec.Labels.is
        /\ now.JobSpec.Annotations.is = was.JobSpec.Annotations.is
        /\ now.JobSpec.Pod.Volumes.is = was.JobSpec.Pod.Volumes.is
        /\ DOMAIN now.JobSpec.Pod.Containers.is = DOMAIN was.JobSpec.Pod.Containers.is
        /\ \A k \in DOMAIN was.JobSpec.Pod.Containers.is :
              LET c == now.JobSpec.Pod.Containers.is[k]
                  old == was.JobSpec.Pod.Containers.is[k]
              IN  /\ c.VolumeMounts.is = old.VolumeMounts.is
                  /\ was.GlobalParams.Env.at = "nil" => c.Env.is = old.Env.is
DaemonPart(cl) ==
    /\ cl.object # None => DaemonUnrendered(cl)
    /\ cl.job # None => DaemonJobRight(cl.read.Spec, cl.entry, cl.job)

Asked == \A k \in Kinds : shown[k] # None => shown[k].Spec \in SpecsOf[k]

RightInv == Asked /\ FlowPart(call["JobFlow"]) /\ DaemonPart(call["DaemonJob"])

LEMMA InitRight == ASSUME Init PROVE RightInv
<1>1. call["JobFlow"] = Idle /\ call["DaemonJob"] = Idle /\ \A k \in Kinds : shown[k] = None
  BY DEF Init, Controllers
<1>. QED BY <1>1, IdleIs DEF RightInv, Asked, FlowPart, DaemonPart

LEMMA OtherCall ==
    ASSUME IntactInv, NEW c \in Controllers, NEW new, call' = [call EXCEPT ![c] = new]
    PROVE  call'[c] = new /\ \A d \in Controllers \ {c} : call'[d] = call[d]
<1>. QED BY DEF IntactInv, Typed

LEMMA WatchRight ==
    ASSUME IntactInv, RightInv, NEW k \in Kinds, Write(k) \/ Delete(k) \/ Deliver(k) PROVE RightInv'
<1>1. UNCHANGED call
  BY DEF Write, Delete, Deliver
<1>2. Asked'
  <2>1. CASE Write(k) \/ Delete(k)
    BY <2>1 DEF Write, Delete, RightInv, Asked
  <2>2. CASE Deliver(k)
    <3>1. server[k] # None => server[k].Spec \in SpecsOf[k]
      BY DEF IntactInv, Typed, SpecUntouched
    <3>2. shown' = [shown EXCEPT ![k] = server[k]] /\ DOMAIN shown = Kinds
      BY <2>2 DEF Deliver, IntactInv, Typed
    <3>. QED BY <3>1, <3>2 DEF RightInv, Asked
  <2>. QED BY <2>1, <2>2
<1>. QED BY <1>1, <1>2 DEF RightInv

(***************************************************************************)
(* A step that makes no job.                                               *)
(***************************************************************************)
LEMMA NoJobMade ==
    ASSUME IntactInv, RightInv, UNCHANGED shown,
           NEW c \in Controllers, NEW new, call' = [call EXCEPT ![c] = new], new.job = None,
           \/ new.object = None
           \/ /\ new.object = call[c].object /\ new.read = call[c].read
              /\ new.left \subseteq call[c].left
    PROVE  RightInv'
<1>1. Asked'
  BY DEF RightInv, Asked
<1>2. call'[c] = new /\ \A d \in Controllers \ {c} : call'[d] = call[d]
  BY OtherCall
<1>3. CASE c = "JobFlow"
  <2>1. FlowPart(new)
    BY <1>3 DEF RightInv, FlowPart, FlowUnrendered
  <2>. QED BY <1>1, <1>2, <1>3, <2>1 DEF RightInv, Controllers
<1>4. CASE c = "DaemonJob"
  <2>1. DaemonPart(new)
    BY <1>4 DEF RightInv, DaemonPart, DaemonUnrendered
  <2>. QED BY <1>1, <1>2, <1>4, <2>1 DEF RightInv, Controllers
<1>. QED BY <1>3, <1>4 DEF Controllers

LEMMA PhaseRight ==
    ASSUME IntactInv, RightInv, NEW c \in Controllers,
           Create(c) \/ NothingLeft(c) \/ Abandon(c) \/ UpdateStatus(c)
    PROVE  RightInv'
<1> DEFINE cl == call[c]
<1>1. UNCHANGED shown
  BY DEF Create, NothingLeft, Abandon, UpdateStatus
<1>2. cl \in CallOf[c]
  BY DEF IntactInv, Typed, CallOf, Controllers
<1>3. CASE Create(c)
  <2>1. PICK on \in {cl.left, {}} :
          call' = [call EXCEPT ![c] =
              [cl EXCEPT !.pc = IF on = {} THEN "status" ELSE "prepare", !.left = on,
                         !.entry = None, !.template = None, !.job = None]]
    BY <1>3 DEF Create
  <2> DEFINE new == [cl EXCEPT !.pc = IF on = {} THEN "status" ELSE "prepare", !.left = on,
                               !.entry = None, !.template = None, !.job = None]
  <2>2. new.object = cl.object /\ new.read = cl.read /\ new.left = on /\ new.job = None
    BY <1>2 DEF CallOf, FlowCall, DaemonCall, Controllers
  <2>3. call' = [call EXCEPT ![c] = new]
    BY <2>1
  <2>. HIDE DEF new
  <2>. QED BY <1>1, <2>2, <2>3, NoJobMade
<1>4. CASE NothingLeft(c)
  <2> DEFINE new == [cl EXCEPT !.pc = "status"]
  <2>1. call' = [call EXCEPT ![c] = new]
    BY <1>4 DEF NothingLeft
  <2>2. new.object = cl.object /\ new.read = cl.read /\ new.left = cl.left /\ new.job = cl.job
    BY <1>2 DEF CallOf, FlowCall, DaemonCall, Controllers
  <2>3. cl.job = None
    BY <1>4 DEF NothingLeft, IntactInv, Phases
  <2>. HIDE DEF new
  <2>. QED BY <1>1, <2>1, <2>2, <2>3, NoJobMade
<1>5. CASE Abandon(c) \/ UpdateStatus(c)
  <2>1. call' = [call EXCEPT ![c] = Idle]
    BY <1>5 DEF Abandon, UpdateStatus
  <2>. QED BY <1>1, <2>1, IdleIs, NoJobMade
<1>. QED BY <1>3, <1>4, <1>5

LEMMA NoJobTemplateRight == ASSUME IntactInv, RightInv, NoJobTemplate PROVE RightInv'
<1> DEFINE cl == call["JobFlow"]
           new == [cl EXCEPT !.pc = "status", !.left = {}]
<1>1. cl.pc = "prepare" /\ UNCHANGED shown /\ call' = [call EXCEPT !["JobFlow"] = new]
  BY DEF NoJobTemplate, IntactInv, Typed
<1>2. cl \in FlowCall /\ cl.job = None
  BY <1>1, FlowCallReads
<1>3. new.object = cl.object /\ new.read = cl.read /\ new.left = {} /\ new.job = None
  BY <1>2 DEF FlowCall
<1>. HIDE DEF new
<1>. QED BY <1>1, <1>3, NoJobMade DEF Controllers

(***************************************************************************)
(* A call begins with a copy of what the cache shows.                      *)
(***************************************************************************)
LEMMA CopiedFlow ==
    ASSUME NEW o \in JobFlowAt("cache")
    PROVE  LET new == JobFlowDeepCopyInto(o, "call").Spec
           IN  /\ new.GlobalParams = GlobalParamsDeepCopyInto(o.Spec.GlobalParams, "call")
               /\ new.ShareVolumes = Moved(o.Spec.ShareVolumes, "call")
               /\ \A i \in DOMAIN o.Spec.Flows.is :
                     new.Flows.is[i] = FlowDeepCopyInto(o.Spec.Flows.is[i], "call")
<1> DEFINE spec == o.Spec
           new == JobFlowDeepCopyInto(o, "call").Spec
<1>1. spec \in JobFlowSpecAt("cache") /\ new = JobFlowSpecDeepCopyInto(spec, "call")
  BY DEF JobFlowAt, JobFlowDeepCopyInto
<1>. HIDE DEF spec, new
<1>2. /\ new.GlobalParams = GlobalParamsDeepCopyInto(spec.GlobalParams, "call")
      /\ new.ShareVolumes = Moved(spec.ShareVolumes, "call")
      /\ new.Flows = MovedEach(spec.Flows, "call", FlowDeepCopyInto)
      /\ spec.Flows \in RefAt("cache", FlowAt("cache"))
  BY <1>1 DEF JobFlowSpecAt, JobFlowSpecDeepCopyInto
<1>3. \A i \in DOMAIN spec.Flows.is : new.Flows.is[i] = FlowDeepCopyInto(spec.Flows.is[i], "call")
  BY <1>2 DEF MovedEach, RefAt, Nil, Ref
<1>. QED BY <1>2, <1>3 DEF spec, new

LEMMA GetJobFlowRight == ASSUME IntactInv, RightInv, GetJobFlow PROVE RightInv'
<1> DEFINE o == cache["JobFlow"]
           new == [Idle EXCEPT !.pc = "prepare", !.object = GotJobFlow, !.read = shown["JobFlow"],
                               !.left = DOMAIN o.Spec.Flows.is]
<1>1. o \in JobFlowAt("cache") /\ o = shown["JobFlow"] /\ o # None
  BY DEF GetJobFlow, Begin, IntactInv, Typed, ObjectAt, Kinds
<1>2. /\ call' = [call EXCEPT !["JobFlow"] = new] /\ UNCHANGED shown
  BY DEF GetJobFlow, Begin
<1>3. new.object = GotJobFlow /\ new.read = o /\ new.left = DOMAIN o.Spec.Flows.is /\ new.job = None
  BY <1>1 DEF Idle
<1>4. o.Spec \in FlowSpecs
  BY <1>1 DEF RightInv, Asked, Kinds, SpecsOf
<1>. HIDE DEF new, o
<1>5. GotJobFlow = JobFlowDeepCopyInto(o, "call")
  BY DEF GotJobFlow, o
<1>6. FlowUnrendered(new)
  BY <1>1, <1>3, <1>5, CopiedFlow DEF FlowUnrendered
<1>7. FlowPart(new)
  BY <1>3, <1>4, <1>6 DEF FlowPart
<1>8. call'["JobFlow"] = new /\ call'["DaemonJob"] = call["DaemonJob"]
  BY <1>2, OtherCall DEF Controllers
<1>. QED BY <1>2, <1>7, <1>8 DEF RightInv, Asked

LEMMA CopiedDaemonJob ==
    ASSUME NEW o \in DaemonJobAt("cache"), NEW cl, cl.read = o,
           cl.object = DaemonJobDeepCopyInto(o, "call")
    PROVE  DaemonUnrendered(cl)
<1> DEFINE spec == o.Spec
           new == cl.object.Spec
           pod == spec.JobSpec.Pod
<1>1. spec \in DaemonJobSpecAt("cache") /\ new = DaemonJobSpecDeepCopyInto(spec, "call")
  BY DEF DaemonJobAt, DaemonJobDeepCopyInto
<1>2. new.GlobalParams = GlobalParamsDeepCopyInto(spec.GlobalParams, "call")
  BY <1>1
  DEF DaemonJobSpecAt, DaemonJobSpecDeepCopyInto, DaemonGlobalParamsDeepCopyInto, GlobalParamsDeepCopyInto
<1>3. new.JobSpec = JobSpecDeepCopyInto(spec.JobSpec, "call") /\ spec.JobSpec \in JobSpecAt("cache")
  BY <1>1 DEF DaemonJobSpecAt, DaemonJobSpecDeepCopyInto
<1>4. new.JobSpec.Pod = PodSpecDeepCopyInto(pod, "call") /\ pod \in PodSpecAt("cache")
  BY <1>3 DEF JobSpecAt, JobSpecDeepCopyInto
<1>10. /\ new.JobSpec.Labels.is = spec.JobSpec.Labels.is
       /\ new.JobSpec.Annotations.is = spec.JobSpec.Annotations.is
  BY <1>3, MovedValue DEF JobSpecAt, JobSpecDeepCopyInto, Map
<1>. HIDE DEF spec, new, pod
<1>5. /\ new.JobSpec.Pod.Volumes = Moved(pod.Volumes, "call")
      /\ new.JobSpec.Pod.Containers = MovedEach(pod.Containers, "call", ContainerDeepCopyInto)
      /\ pod.Volumes \in RefAt("cache", STRING) /\ pod.Containers \in RefAt("cache", ContainerAt("cache"))
  BY <1>4 DEF PodSpecAt, PodSpecDeepCopyInto, Names
<1>6. new.JobSpec.Pod.Volumes.is = pod.Volumes.is
  BY <1>5, MovedValue
<1>7. /\ DOMAIN new.JobSpec.Pod.Containers.is = DOMAIN pod.Containers.is
      /\ \A k \in DOMAIN pod.Containers.is :
            new.JobSpec.Pod.Containers.is[k] = ContainerDeepCopyInto(pod.Containers.is[k], "call")
  BY <1>5 DEF MovedEach, RefAt, Nil, Ref
<1>8. \A k \in DOMAIN pod.Containers.is : pod.Containers.is[k] \in ContainerAt("cache")
  BY <1>5, RefPlace DEF ToSet
<1>9. \A c \in ContainerAt("cache") :
        /\ ContainerDeepCopyInto(c, "call").VolumeMounts.is = c.VolumeMounts.is
        /\ ContainerDeepCopyInto(c, "call").Env.is = c.Env.is
  BY MovedValue DEF ContainerAt, ContainerDeepCopyInto, Names
<1>. QED BY <1>2, <1>6, <1>7, <1>8, <1>9, <1>10 DEF DaemonUnrendered, spec, new, pod

LEMMA GetDaemonJobRight == ASSUME IntactInv, RightInv, GetDaemonJob PROVE RightInv'
<1> DEFINE o == cache["DaemonJob"]
           new == [Idle EXCEPT !.pc = "prepare", !.object = GotDaemonJob,
                               !.read = shown["DaemonJob"], !.left = Nodes \ o.Spec.ExcludeNodeList]
<1>1. o \in DaemonJobAt("cache") /\ o = shown["DaemonJob"]
  BY DEF GetDaemonJob, Begin, IntactInv, Typed, ObjectAt, Kinds
<1>2. /\ call' = [call EXCEPT !["DaemonJob"] = new] /\ UNCHANGED shown
  BY DEF GetDaemonJob, Begin
<1>3. new.object = GotDaemonJob /\ new.read = o /\ new.job = None
  BY <1>1 DEF Idle
<1>. HIDE DEF new, o
<1>4. GotDaemonJob = DaemonJobDeepCopyInto(o, "call")
  BY DEF GotDaemonJob, o
<1>5. DaemonPart(new)
  BY <1>1, <1>3, <1>4, CopiedDaemonJob DEF DaemonPart
<1>6. call'["DaemonJob"] = new /\ call'["JobFlow"] = call["JobFlow"]
  BY <1>2, OtherCall DEF Controllers
<1>. QED BY <1>2, <1>5, <1>6 DEF RightInv, Asked

(***************************************************************************)
(* prepareJob: the entry rendered is as it was read, and writing to it     *)
(* leaves the entries after it as they were.                               *)
(***************************************************************************)
LEMMA OtherEntries ==
    ASSUME NEW o \in JobFlowAt("call"), NEW i \in DOMAIN o.Spec.Flows.is, NEW containers
    PROVE  LET new == WithEntry(o, i, containers)
           IN  /\ new.Spec.GlobalParams = o.Spec.GlobalParams
               /\ new.Spec.ShareVolumes = o.Spec.ShareVolumes
               /\ \A j \in DOMAIN o.Spec.Flows.is \ {i} : new.Spec.Flows.is[j] = o.Spec.Flows.is[j]
<1> DEFINE flows == o.Spec.Flows
           entry == [flows.is[i] EXCEPT !.JobTemplate.Pod.Containers = containers]
           entries == [flows.is EXCEPT ![i] = entry]
           spec == [o.Spec EXCEPT !.Flows = [flows EXCEPT !.is = entries]]
           new == WithEntry(o, i, containers)
<1>1. o.Spec \in JobFlowSpecAt("call") /\ flows \in RefAt("call", FlowAt("call"))
  BY DEF JobFlowAt, JobFlowSpecAt
<1>2. new = [o EXCEPT !.Spec = spec]
  BY DEF WithEntry
<1>. HIDE DEF entry
<1>3. \A j \in DOMAIN flows.is \ {i} : entries[j] = flows.is[j]
  OBVIOUS
<1>. HIDE DEF entries
<1>4. [flows EXCEPT !.is = entries].is = entries
  BY <1>1 DEF RefAt, Nil
<1>5. /\ spec.Flows.is = entries /\ spec.GlobalParams = o.Spec.GlobalParams
      /\ spec.ShareVolumes = o.Spec.ShareVolumes
  BY <1>1, <1>4 DEF JobFlowSpecAt
<1>. HIDE DEF spec
<1>6. new.Spec = spec
  BY <1>2 DEF JobFlowAt
<1>. HIDE DEF new
<1>. QED BY <1>3, <1>5, <1>6 DEF new

LEMMA PrepareJobRight ==
    ASSUME IntactInv, RightInv, PrepareJob, \A spec \in FlowSpecs : OwnAnnotations(spec)
    PROVE  RightInv'
<1> DEFINE cl == call["JobFlow"]
           i == NextEntry
           spec == cl.object.Spec
           flow == spec.Flows.is[i]
           byRef == flow.JobTemplateRef
           base == IF byRef THEN GotJobTemplate.Spec.JobTemplate ELSE flow.JobTemplate
           containers == JobFlowContainers(base, spec, flow)
           object == IF byRef THEN cl.object ELSE WithEntry(cl.object, i, containers)
           template == IF byRef THEN shown["JobTemplate"] ELSE None
           job == PreparedJob(spec, flow, base)
           new == [cl EXCEPT !.pc = "create", !.entry = i, !.left = cl.left \ {i},
                             !.template = template, !.job = job, !.object = object]
           read == cl.read.Spec
           was == read.Flows.is[i]
<1>1. cl.pc = "prepare" /\ cl.left # {} /\ UNCHANGED shown /\ (byRef => cache["JobTemplate"] # None)
  BY DEF PrepareJob
<1>2. /\ cl \in FlowCall /\ cl.object \in JobFlowAt("call") /\ cl.object # None /\ cl.read # None
      /\ cl.left \subseteq DOMAIN spec.Flows.is /\ cl.left \in SUBSET Nat
  BY <1>1, FlowCallReads
<1>3. i \in cl.left /\ i \in DOMAIN spec.Flows.is
  BY <1>1, <1>2, NextIsLeft
<1>4. FlowUnrendered(cl) /\ read \in FlowSpecs
  BY <1>2 DEF RightInv, FlowPart
<1>5. spec \in JobFlowSpecAt("call") /\ read \in JobFlowSpecAt("cache")
  BY <1>2, <1>4, RenderingAssumption DEF JobFlowAt
<1>6. was \in FlowAt("cache")
  <2>1. read.Flows \in RefAt("cache", FlowAt("cache"))
    BY <1>5 DEF JobFlowSpecAt
  <2>2. read.Flows.is \in Seq(FlowAt("cache")) /\ i \in DOMAIN read.Flows.is
    BY <1>3, <1>4, <2>1, RefPlace DEF FlowUnrendered
  <2>. QED BY <2>2
<1>7. flow = FlowDeepCopyInto(was, "call")
  BY <1>3, <1>4 DEF FlowUnrendered
<1>8. byRef <=> was.JobTemplateRef
  BY <1>6, <1>7 DEF FlowAt, FlowDeepCopyInto
<1>9. Base(template, was) \in JobSpecAt("cache") /\ base = JobSpecDeepCopyInto(Base(template, was), "call")
  <2>1. CASE byRef
    <3>1. cache["JobTemplate"] \in JobTemplateAt("cache") /\ shown["JobTemplate"] = cache["JobTemplate"]
      BY <1>1, <2>1 DEF IntactInv, Typed, ObjectAt, Kinds
    <3>2. GotJobTemplate.Spec.JobTemplate
            = JobSpecDeepCopyInto(shown["JobTemplate"].Spec.JobTemplate, "call")
      BY <3>1 DEF GotJobTemplate, JobTemplateDeepCopyInto, JobTemplateSpecDeepCopyInto,
                  JobTemplateAt, JobTemplateSpecAt
    <3>3. shown["JobTemplate"].Spec.JobTemplate \in JobSpecAt("cache")
      BY <3>1 DEF JobTemplateAt, JobTemplateSpecAt
    <3>. QED BY <1>8, <2>1, <3>2, <3>3 DEF Base
  <2>2. CASE ~ byRef
    <3>1. flow.JobTemplate = JobSpecDeepCopyInto(was.JobTemplate, "call") /\ was.JobTemplate \in JobSpecAt("cache")
      BY <1>6, <1>7 DEF FlowAt, FlowDeepCopyInto
    <3>. QED BY <1>8, <2>2, <3>1 DEF Base
  <2>. QED BY <2>1, <2>2
<1>10. call' = [call EXCEPT !["JobFlow"] = new]
  BY DEF PrepareJob
<1>11. call'["JobFlow"] = new /\ call'["DaemonJob"] = call["DaemonJob"]
  BY <1>10, OtherCall DEF Controllers
<1>12. /\ object.Spec.GlobalParams = spec.GlobalParams /\ object.Spec.ShareVolumes = spec.ShareVolumes
       /\ \A j \in DOMAIN spec.Flows.is \ {i} : object.Spec.Flows.is[j] = spec.Flows.is[j]
  <2> DEFINE o == cl.object
  <2> HIDE DEF containers, byRef, i
  <2>1. LET w == WithEntry(o, i, containers)
        IN  /\ w.Spec.GlobalParams = o.Spec.GlobalParams /\ w.Spec.ShareVolumes = o.Spec.ShareVolumes
            /\ \A j \in DOMAIN o.Spec.Flows.is \ {i} : w.Spec.Flows.is[j] = o.Spec.Flows.is[j]
    BY <1>2, <1>3, OtherEntries
  <2>2. CASE byRef
    BY <2>2
  <2>3. CASE ~ byRef
    BY <2>1, <2>3
  <2>. QED BY <2>2, <2>3
<1>. HIDE DEF containers, object, template, job, byRef
<1>13. /\ new.object = object /\ new.read = cl.read /\ new.left = cl.left \ {i} /\ new.entry = i
       /\ new.template = template /\ new.job = job
  BY <1>2 DEF FlowCall
<1>. HIDE DEF new
<1>14. FlowUnrendered(new)
  BY <1>2, <1>4, <1>12, <1>13 DEF FlowUnrendered
<1>15. FlowMade(new)
  <2>1. /\ spec.GlobalParams = GlobalParamsDeepCopyInto(read.GlobalParams, "call")
        /\ spec.ShareVolumes = Moved(read.ShareVolumes, "call") /\ OwnAnnotations(read)
    BY <1>4 DEF FlowUnrendered
  <2>. HIDE DEF spec, flow, base, read, was
  <2>2. FlowJobRight(read, was, Base(template, was), PreparedJob(spec, flow, base))
    BY <1>5, <1>6, <1>7, <1>9, <2>1, FlowJobRendered
  <2>. QED BY <1>13, <2>2 DEF FlowMade, job, read, was
<1>16. FlowPart(new)
  BY <1>4, <1>13, <1>14, <1>15 DEF FlowPart
<1>. QED BY <1>1, <1>11, <1>16 DEF RightInv, Asked

(***************************************************************************)
(* prepareJobFromDaemonJob: every job is made of the same containers, and  *)
(* what the jobs before it have set in them is set again.                  *)
(***************************************************************************)
LEMMA DaemonJobRendered ==
    ASSUME NEW cl, cl.object \in DaemonJobAt("call"), cl.read \in DaemonJobAt("cache"),
           DaemonUnrendered(cl), NEW node
    PROVE  /\ DaemonJobRight(cl.read.Spec, node, PreparedJobFromDaemonJob(cl.object.Spec, node))
           /\ LET new == WithContainers(cl.object, DaemonContainers(cl.object.Spec)).Spec
              IN  /\ new.GlobalParams = cl.object.Spec.GlobalParams
                  /\ new.JobSpec.Labels = cl.object.Spec.JobSpec.Labels
                  /\ new.JobSpec.Annotations = cl.object.Spec.JobSpec.Annotations
                  /\ new.JobSpec.Pod.Volumes = cl.object.Spec.JobSpec.Pod.Volumes
                  /\ new.JobSpec.Pod.Containers = DaemonContainers(cl.object.Spec)
           /\ \A k \in DOMAIN cl.read.Spec.JobSpec.Pod.Containers.is :
                 LET c == DaemonContainers(cl.object.Spec).is[k]
                     old == cl.read.Spec.JobSpec.Pod.Containers.is[k]
                 IN  /\ c.VolumeMounts.is = old.VolumeMounts.is
                     /\ c.Env.is = IF cl.read.Spec.GlobalParams.Env.at = "nil"
                                     THEN old.Env.is ELSE cl.read.Spec.GlobalParams.Env.is
<1> DEFINE now == cl.object.Spec
           was == cl.read.Spec
           containers == DaemonContainers(now)
           job == PreparedJobFromDaemonJob(now, node)
           new == WithContainers(cl.object, containers).Spec
<1>1. now \in DaemonJobSpecAt("call") /\ was \in DaemonJobSpecAt("cache")
  BY DEF DaemonJobAt
<1>2. /\ now.GlobalParams = GlobalParamsDeepCopyInto(was.GlobalParams, "call")
      /\ now.JobSpec.Labels.is = was.JobSpec.Labels.is
      /\ now.JobSpec.Annotations.is = was.JobSpec.Annotations.is
      /\ now.JobSpec.Pod.Volumes.is = was.JobSpec.Pod.Volumes.is
      /\ DOMAIN now.JobSpec.Pod.Containers.is = DOMAIN was.JobSpec.Pod.Containers.is
      /\ \A k \in DOMAIN was.JobSpec.Pod.Containers.is :
            LET c == now.JobSpec.Pod.Containers.is[k]
                old == was.JobSpec.Pod.Containers.is[k]
            IN  /\ c.VolumeMounts.is = old.VolumeMounts.is
                /\ was.GlobalParams.Env.at = "nil" => c.Env.is = old.Env.is
  BY DEF DaemonUnrendered
<1>3. new = [now EXCEPT !.JobSpec = [now.JobSpec EXCEPT !.Pod = [now.JobSpec.Pod EXCEPT !.Containers = containers]]]
  BY DEF WithContainers, DaemonJobAt
<1>4. /\ job.Labels = now.GlobalParams.Labels /\ job.Annotations = now.GlobalParams.Annotations
      /\ job.Spec.Labels = IF now.GlobalParams.Labels.at = "nil" THEN now.JobSpec.Labels ELSE now.GlobalParams.Labels
      /\ job.Spec.Annotations
            = IF now.GlobalParams.Annotations.at = "nil" THEN now.JobSpec.Annotations
                                                         ELSE now.GlobalParams.Annotations
      /\ job.Spec.Pod = [now.JobSpec.Pod EXCEPT !.Containers = containers, !.NodeName = node]
  BY DEF PreparedJobFromDaemonJob
<1>5. \A k \in DOMAIN now.JobSpec.Pod.Containers.is :
         /\ now.JobSpec.Pod.Containers.is[k] \in ContainerAt("call")
         /\ containers.is[k] = DaemonContainer(now, now.JobSpec.Pod.Containers.is[k])
  BY <1>1, DaemonContainersAt
<1>. HIDE DEF now, was, containers, job, new
<1>6. /\ new.GlobalParams = now.GlobalParams /\ new.JobSpec.Pod.Volumes = now.JobSpec.Pod.Volumes
      /\ new.JobSpec.Labels = now.JobSpec.Labels /\ new.JobSpec.Annotations = now.JobSpec.Annotations
      /\ new.JobSpec.Pod.Containers = containers
  BY <1>1, <1>3 DEF DaemonJobSpecAt, JobSpecAt, PodSpecAt
<1>7. /\ job.Spec.Pod.NodeName = node /\ job.Spec.Pod.Volumes = now.JobSpec.Pod.Volumes
      /\ job.Spec.Pod.Containers = containers
  BY <1>1, <1>4 DEF DaemonJobSpecAt, JobSpecAt, PodSpecAt
<1>8. /\ now.GlobalParams.Env.at = "nil" <=> was.GlobalParams.Env.at = "nil"
      /\ now.GlobalParams.Env.is = was.GlobalParams.Env.is
      /\ now.GlobalParams.Labels.at = "nil" <=> was.GlobalParams.Labels.at = "nil"
      /\ now.GlobalParams.Labels.is = was.GlobalParams.Labels.is
      /\ now.GlobalParams.Annotations.at = "nil" <=> was.GlobalParams.Annotations.at = "nil"
      /\ now.GlobalParams.Annotations.is = was.GlobalParams.Annotations.is
  <2>1. was.GlobalParams \in GlobalParamsAt("cache")
    BY <1>1 DEF DaemonJobSpecAt
  <2>2. /\ now.GlobalParams.Env = Moved(was.GlobalParams.Env, "call")
        /\ now.GlobalParams.Labels = Moved(was.GlobalParams.Labels, "call")
        /\ now.GlobalParams.Annotations = Moved(was.GlobalParams.Annotations, "call")
    BY <1>2, <2>1 DEF GlobalParamsAt, GlobalParamsDeepCopyInto
  <2>3. /\ was.GlobalParams.Env \in RefAt("cache", STRING)
        /\ was.GlobalParams.Labels \in RefAt("cache", STRING \X STRING)
        /\ was.GlobalParams.Annotations \in RefAt("cache", STRING \X STRING)
    BY <2>1 DEF GlobalParamsAt, Names, Map
  <2>. QED BY <2>2, <2>3, MovedValue
<1>9. \A k \in DOMAIN was.JobSpec.Pod.Containers.is :
         LET c == containers.is[k]
             old == was.JobSpec.Pod.Containers.is[k]
         IN  /\ c.VolumeMounts.is = old.VolumeMounts.is
             /\ c.Env.is = IF was.GlobalParams.Env.at = "nil" THEN old.Env.is ELSE was.GlobalParams.Env.is
  <2>. SUFFICES ASSUME NEW k \in DOMAIN was.JobSpec.Pod.Containers.is
                PROVE  /\ containers.is[k].VolumeMounts.is = was.JobSpec.Pod.Containers.is[k].VolumeMounts.is
                       /\ containers.is[k].Env.is
                            = IF was.GlobalParams.Env.at = "nil"
                                THEN was.JobSpec.Pod.Containers.is[k].Env.is ELSE was.GlobalParams.Env.is
    OBVIOUS
  <2> DEFINE c == now.JobSpec.Pod.Containers.is[k]
             old == was.JobSpec.Pod.Containers.is[k]
  <2>1. c \in ContainerAt("call") /\ containers.is[k] = DaemonContainer(now, c)
    BY <1>2, <1>5
  <2>2. c.VolumeMounts.is = old.VolumeMounts.is /\ (was.GlobalParams.Env.at = "nil" => c.Env.is = old.Env.is)
    BY <1>2
  <2>. HIDE DEF c, old
  <2>3. /\ containers.is[k].VolumeMounts.is = c.VolumeMounts.is
        /\ containers.is[k].Env.is
              = IF now.GlobalParams.Env.at = "nil" THEN c.Env.is ELSE now.GlobalParams.Env.is
    BY <2>1 DEF DaemonContainer, ContainerAt
  <2>4. /\ containers.is[k].VolumeMounts.is = old.VolumeMounts.is
        /\ containers.is[k].Env.is
              = IF was.GlobalParams.Env.at = "nil" THEN old.Env.is ELSE was.GlobalParams.Env.is
    BY <1>8, <2>2, <2>3
  <2>. QED BY <2>4 DEF old
<1>10. DaemonJobRight(was, node, job)
  <2>1. /\ job.Labels.is = was.GlobalParams.Labels.is /\ job.Annotations.is = was.GlobalParams.Annotations.is
        /\ job.Spec.Labels.is = Either(was.GlobalParams.Labels, was.JobSpec.Labels)
        /\ job.Spec.Annotations.is = Either(was.GlobalParams.Annotations, was.JobSpec.Annotations)
    BY <1>2, <1>4, <1>8 DEF Either
  <2>. QED BY <1>2, <1>7, <1>9, <2>1 DEF DaemonJobRight, Either
<1>. QED BY <1>6, <1>9, <1>10 DEF now, was, containers, job, new

LEMMA PrepareJobFromDaemonJobRight ==
    ASSUME IntactInv, RightInv, PrepareJobFromDaemonJob PROVE RightInv'
<1> DEFINE cl == call["DaemonJob"]
           spec == cl.object.Spec
           containers == DaemonContainers(spec)
           object == WithContainers(cl.object, containers)
           job(node) == PreparedJobFromDaemonJob(spec, node)
           new(node) == [cl EXCEPT !.pc = "create", !.entry = node, !.left = cl.left \ {node},
                                   !.job = job(node), !.object = object]
<1>1. cl.pc = "prepare" /\ UNCHANGED shown
  BY DEF PrepareJobFromDaemonJob
<1>2. /\ cl \in DaemonCall /\ cl.object \in DaemonJobAt("call") /\ cl.object # None
      /\ cl.read \in DaemonJobAt("cache")
  BY <1>1 DEF IntactInv, Typed, Phases, Controllers, DaemonCall
<1>3. PICK node \in cl.left : call' = [call EXCEPT !["DaemonJob"] = new(node)]
  BY DEF PrepareJobFromDaemonJob
<1>4. DaemonUnrendered(cl)
  BY <1>2 DEF RightInv, DaemonPart
<1>5. DaemonJobRight(cl.read.Spec, node, job(node))
  BY <1>2, <1>4, DaemonJobRendered
<1>6. /\ object.Spec.GlobalParams = spec.GlobalParams
      /\ object.Spec.JobSpec.Labels = spec.JobSpec.Labels
      /\ object.Spec.JobSpec.Annotations = spec.JobSpec.Annotations
      /\ object.Spec.JobSpec.Pod.Volumes = spec.JobSpec.Pod.Volumes
      /\ object.Spec.JobSpec.Pod.Containers = containers
  BY <1>2, <1>4, DaemonJobRendered
<1>7. \A k \in DOMAIN cl.read.Spec.JobSpec.Pod.Containers.is :
         LET c == containers.is[k]
             old == cl.read.Spec.JobSpec.Pod.Containers.is[k]
         IN  /\ c.VolumeMounts.is = old.VolumeMounts.is
             /\ cl.read.Spec.GlobalParams.Env.at = "nil" => c.Env.is = old.Env.is
  BY <1>2, <1>4, DaemonJobRendered
<1>8. DOMAIN containers.is = DOMAIN spec.JobSpec.Pod.Containers.is
  BY <1>2, DaemonContainersAt DEF DaemonJobAt
<1>9. call'["DaemonJob"] = new(node) /\ call'["JobFlow"] = call["JobFlow"]
  BY <1>3, OtherCall DEF Controllers
<1>. HIDE DEF containers, object, job
<1>10. /\ new(node).object = object /\ new(node).read = cl.read
       /\ new(node).entry = node /\ new(node).job = job(node)
  BY <1>2 DEF DaemonCall
<1>. HIDE DEF new
<1>11. DaemonUnrendered(new(node))
  BY <1>4, <1>6, <1>7, <1>8, <1>10 DEF DaemonUnrendered
<1>12. DaemonPart(new(node))
  BY <1>5, <1>10, <1>11 DEF DaemonPart
<1>. QED BY <1>1, <1>9, <1>12 DEF RightInv, Asked

(***************************************************************************)
(* Each job is what the specs delivered to its call say, for every spec    *)
(* whose global annotations leave the key createByJobTemplate to           *)
(* prepareJob: however often the containers have been written before, and  *)
(* whatever users and other calls do in between.                           *)
(***************************************************************************)
THEOREM RenderedRightHolds ==
    ASSUME \A spec \in FlowSpecs : OwnAnnotations(spec) PROVE Spec => []RenderedRight
<1>1. ASSUME IntactInv, RightInv, [Next]_vars PROVE RightInv'
  <2>1. CASE UNCHANGED vars
    BY <1>1, <2>1 DEF RightInv, Asked, vars
  <2>2. CASE Next
    BY <1>1, <2>2, WatchRight, GetJobFlowRight, PrepareJobRight, NoJobTemplateRight, GetDaemonJobRight,
       PrepareJobFromDaemonJobRight, PhaseRight DEF Next
  <2>. QED BY <1>1, <2>1, <2>2
<1>2. ASSUME RightInv PROVE RenderedRight
  BY <1>2 DEF RightInv, FlowPart, FlowMade, DaemonPart, Base, RenderedRight
<1>3. Init => RightInv
  BY InitRight
<1>. QED BY <1>1, <1>2, <1>3, AlwaysIntact, PTL DEF Spec
=============================================================================
