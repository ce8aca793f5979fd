------------------------------ MODULE DeepCopy ------------------------------
(***************************************************************************)
(* The custom resources as Go values, and their generated deep copies      *)
(* (zz_generated.deepcopy.go of the three API groups).                     *)
(*                                                                         *)
(* A slice, a map or a pointer is a reference: a place in memory and the   *)
(* value kept there.  Plain assignment copies the reference, so that both  *)
(* sides name one place; a deep copy moves the value to a place of its     *)
(* own.  A map is kept as a sequence of its entries.  Places are told      *)
(* apart by who owns them: the informer cache, or a call of a controller.  *)
(***************************************************************************)
EXTENDS Naturals, Sequences, SequencesExt

Nil == [at |-> "nil", is |-> <<>>]
Ref(place, value) == [at |-> place, is |-> value]

\* The value a reference names at a place of its own; nil stays nil.
Moved(ref, place) == IF ref.at = "nil" THEN Nil ELSE Ref(place, ref.is)
MovedEach(ref, place, Copy(_, _)) ==
    IF ref.at = "nil" THEN Nil
    ELSE Ref(place, [i \in DOMAIN ref.is |-> Copy(ref.is[i], place)])

\* The Kubernetes types inside them: the fields the operator renders.
ContainerDeepCopyInto(in, place) ==
    [in EXCEPT !.Env = Moved(@, place), !.VolumeMounts = Moved(@, place)]

PodSpecDeepCopyInto(in, place) ==
    [in EXCEPT !.Volumes = Moved(@, place),
               !.Containers = MovedEach(@, place, ContainerDeepCopyInto)]

JobSpecDeepCopyInto(in, place) ==
    [in EXCEPT !.Labels = Moved(@, place), !.Annotations = Moved(@, place),
               !.Pod = PodSpecDeepCopyInto(@, place)]

\* JobFlow
ErrorHandlerDeepCopyInto(in, place) ==
    [in EXCEPT !.PodSpec = PodSpecDeepCopyInto(@, place),
               !.JobTemplate = JobSpecDeepCopyInto(@, place)]

FlowDeepCopyInto(in, place) ==
    [in EXCEPT !.JobTemplate = JobSpecDeepCopyInto(@, place),
               !.Dependencies = Moved(@, place),
               !.ShareVolumeMounts = Moved(@, place)]

GlobalParamsDeepCopyInto_NoEnv(in, place) ==   \* mutant
    [in EXCEPT !.Labels = Moved(@, place), !.Annotations = Moved(@, place)]

GlobalParamsDeepCopyInto(in, place) ==
    [in EXCEPT !.Env = Moved(@, place), !.Labels = Moved(@, place),
               !.Annotations = Moved(@, place)]

JobFlowSpecDeepCopyInto_ArrayOnly(in, place) ==   \* mutant
    [in EXCEPT !.GlobalParams = GlobalParamsDeepCopyInto(@, place),
               !.Flows = Moved(@, place),
               !.ShareVolumes = Moved(@, place),
               !.ErrorHandler = ErrorHandlerDeepCopyInto(@, place)]

JobFlowSpecDeepCopyInto(in, place) ==
    [in EXCEPT !.GlobalParams = GlobalParamsDeepCopyInto(@, place),
               !.Flows = MovedEach(@, place, FlowDeepCopyInto),
               !.ShareVolumes = Moved(@, place),
               !.ErrorHandler = ErrorHandlerDeepCopyInto(@, place)]

JobFlowStatusDeepCopyInto(in, place) == [in EXCEPT !.JobStatusList = Moved(@, place)]

JobFlowDeepCopyInto(in, place) ==
    [in EXCEPT !.Spec = JobFlowSpecDeepCopyInto(@, place),
               !.Status = JobFlowStatusDeepCopyInto(@, place)]

JobFlowListDeepCopyInto(in, place) ==
    [in EXCEPT !.Items = MovedEach(@, place, JobFlowDeepCopyInto)]

\* JobTemplate
JobTemplateSpecDeepCopyInto_Same(in, place) == in   \* mutant
JobTemplateSpecDeepCopyInto(in, place) ==
    [in EXCEPT !.JobTemplate = JobSpecDeepCopyInto(@, place)]

JobTemplateStatusDeepCopyInto(in, place) == [in EXCEPT !.DependencyList = Moved(@, place)]

JobTemplateDeepCopyInto(in, place) ==
    [in EXCEPT !.Spec = JobTemplateSpecDeepCopyInto(@, place),
               !.Status = JobTemplateStatusDeepCopyInto(@, place)]

JobTemplateListDeepCopyInto(in, place) ==
    [in EXCEPT !.Items = MovedEach(@, place, JobTemplateDeepCopyInto)]

\* DaemonJob
DaemonGlobalParamsDeepCopyInto(in, place) ==
    [in EXCEPT !.Env = Moved(@, place), !.Labels = Moved(@, place),
               !.Annotations = Moved(@, place)]

DaemonJobSpecDeepCopyInto(in, place) ==
    [in EXCEPT !.GlobalParams = DaemonGlobalParamsDeepCopyInto(@, place),
               !.JobSpec = JobSpecDeepCopyInto(@, place)]

DaemonJobStatusDeepCopyInto(in, place) == [in EXCEPT !.JobStatusList = Moved(@, place)]

DaemonJobDeepCopyInto(in, place) ==
    [in EXCEPT !.Spec = DaemonJobSpecDeepCopyInto(@, place),
               !.Status = DaemonJobStatusDeepCopyInto(@, place)]

DaemonJobListDeepCopyInto(in, place) ==
    [in EXCEPT !.Items = MovedEach(@, place, DaemonJobDeepCopyInto)]

\* The places a value refers to.
PodSpecPlaces(p) ==
    {p.Volumes.at, p.Containers.at}
      \cup UNION {{c.Env.at, c.VolumeMounts.at} : c \in ToSet(p.Containers.is)}
JobSpecPlaces(s) == {s.Labels.at, s.Annotations.at} \cup PodSpecPlaces(s.Pod)
ParamPlaces(g) == {g.Env.at, g.Labels.at, g.Annotations.at}
FlowPlaces(f) == {f.Dependencies.at, f.ShareVolumeMounts.at} \cup JobSpecPlaces(f.JobTemplate)
JobFlowPlaces(o) ==
    {o.Spec.Flows.at, o.Spec.ShareVolumes.at, o.Status.JobStatusList.at}
      \cup ParamPlaces(o.Spec.GlobalParams)
      \cup PodSpecPlaces(o.Spec.ErrorHandler.PodSpec)
      \cup JobSpecPlaces(o.Spec.ErrorHandler.JobTemplate)
      \cup UNION {FlowPlaces(f) : f \in ToSet(o.Spec.Flows.is)}
JobTemplatePlaces(o) == {o.Status.DependencyList.at} \cup JobSpecPlaces(o.Spec.JobTemplate)
DaemonJobPlaces(o) ==
    {o.Status.JobStatusList.at} \cup ParamPlaces(o.Spec.GlobalParams)
      \cup JobSpecPlaces(o.Spec.JobSpec)
ListPlaces(list, Places(_)) == {list.Items.at} \cup UNION {Places(o) : o \in ToSet(list.Items.is)}
=============================================================================
