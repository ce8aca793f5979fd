---------------------------- MODULE MCRendering ----------------------------
(***************************************************************************)
(* Small specs for Rendering: containers with and without mounts of their  *)
(* own, an inline entry and one by reference, shared volumes with and      *)
(* without mounts, a node or none, global parameters given, empty and left *)
(* out.                                                                    *)
(***************************************************************************)
EXTENDS Rendering

Given(s) == Ref("cache", s)
Container(mounts, env) == [VolumeMounts |-> mounts, Env |-> env]
Job(volumes, containers) ==
    [Labels |-> Given(<< <<"app", "x">> >>), Annotations |-> Nil,
     Pod |-> [Volumes |-> volumes, Containers |-> Given(containers), NodeName |-> None]]
NoJob == [Labels |-> Nil, Annotations |-> Nil,
          Pod |-> [Volumes |-> Nil, Containers |-> Nil, NodeName |-> None]]

Two == Job(Given(<<"v1">>), <<Container(Given(<<"m1">>), Nil), Container(Nil, Given(<<"e1">>))>>)
One == [Job(Nil, <<Container(Given(<<"m2">>), Given(<<"e2">>))>>) EXCEPT !.Pod.NodeName = "n1"]

Params(env, labels, annotations, node) ==
    [Env |-> env, Labels |-> labels, Annotations |-> annotations, NodeName |-> node]
Some == Params(Given(<<"e">>), Given(<< <<"l", "1">> >>), Given(<< <<"a", "1">> >>), "n2")
Few == Params(Nil, Given(<<>>), Nil, None)

Entry(byRef, job, deps, mounts) ==
    [JobTemplateRef |-> byRef, JobTemplate |-> job, Dependencies |-> deps, ShareVolumeMounts |-> mounts]
Handler == [PodSpec |-> One.Pod, JobTemplate |-> One]
FlowSpec(params, flows, volumes) ==
    [GlobalParams |-> params, Flows |-> Given(flows), ShareVolumes |-> volumes, ErrorHandler |-> Handler]

MCFlowSpecs ==
    {FlowSpec(Some, <<Entry(FALSE, Two, Nil, Given(<<"s1">>)),
                      Entry(TRUE, NoJob, Given(<<"one">>), Given(<<"s2">>))>>, Given(<<"vs">>)),
     FlowSpec(Few, <<Entry(FALSE, Two, Nil, Given(<<"s1">>)),
                     Entry(FALSE, One, Nil, Nil)>>, Given(<<"vs">>)),
     FlowSpec(Few, <<Entry(TRUE, Two, Nil, Given(<<"s1">>))>>, Nil)}
MCTemplateSpecs == {[JobTemplate |-> Two], [JobTemplate |-> One]}
MCNodes == {"n1", "n2"}
MCDaemonSpecs ==
    {[GlobalParams |-> Some, JobSpec |-> Two, ExcludeNodeList |-> {"n1"}],
     [GlobalParams |-> Few, JobSpec |-> One, ExcludeNodeList |-> {}],
     [GlobalParams |-> Few, JobSpec |-> One, ExcludeNodeList |-> MCNodes]}
============================================================================
