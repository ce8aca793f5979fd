------------------------- MODULE JobFlowRefinement -------------------------
(***************************************************************************)
(* The JobFlow controller implements FlowOrder: as long as its spec stays  *)
(* as it is and it is not created again, a JobFlow is a flow that starts   *)
(* its jobs in order and whose verdicts are true.  Everything the          *)
(* controller does besides (reads of its caches, retries, restarts, status *)
(* updates that change only the list) is a step FlowOrder does not see.    *)
(***************************************************************************)
EXTENDS JobFlow

CONSTANT Promised     \* the JobFlow looked at

\* Its spec, which is the only one it may be given.
Plan == CHOOSE s \in Specs[Promised] : TRUE
KeyOf(name) == JobName(Promised, name)
FlowJobs == {KeyOf(Plan[j].name) : j \in DOMAIN Plan}
Waits ==
    [k \in FlowJobs |->
        {KeyOf(d) : d \in UNION {{Plan[j].deps[n] : n \in DOMAIN Plan[j].deps} :
                                   j \in {i \in DOMAIN Plan : KeyOf(Plan[i].name) = k}}}]

Shown(outcome) == {k \in FlowJobs : <<k, outcome>> \in reported}
Verdict ==
    IF objects[Promised].status.state \in {"Succeed", "Failed"}
      THEN objects[Promised].status.state ELSE "Open"

Order == INSTANCE FlowOrder WITH
    Jobs <- FlowJobs,
    Needs <- Waits,
    present <- {k \in FlowJobs : jobs[k] # None},
    done <- Shown("succeeded"),
    broken <- Shown("failed"),
    verdict <- Verdict

(***************************************************************************)
(* Jobs start in order, Succeed and Failed are true and Failed is final,   *)
(* together and step by step: each step of the controller and of its       *)
(* surroundings is a step of FlowOrder or changes nothing it sees          *)
(* (deployJobFlow and updateJobFlowStatus, helper.go).                     *)
(***************************************************************************)
ImplementsFlowOrder == Order!Spec
============================================================================
