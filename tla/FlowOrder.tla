----------------------------- MODULE FlowOrder -----------------------------
(***************************************************************************)
(* What one JobFlow promises its user, with nothing of the operator in it: *)
(* no caches, calls, retries or counters.  Its jobs come and go, some of   *)
(* them finish, and a verdict is drawn.  The JobFlow controller is shown   *)
(* to implement this (module JobFlowRefinement).                           *)
(***************************************************************************)
CONSTANTS
    Jobs,        \* the jobs of the flow
    Needs        \* Needs[j]: the jobs j has to wait for

VARIABLES
    present,     \* the jobs that are there
    done,        \* the jobs that have ever been seen to succeed
    broken,      \* the jobs that have ever been seen to fail
    verdict      \* "Open", "Succeed" or "Failed"

vars == <<present, done, broken, verdict>>

Init == present = {} /\ done = {} /\ broken = {} /\ verdict = "Open"

(***************************************************************************)
(* A job appears after all it has to wait for have succeeded.              *)
(***************************************************************************)
Begin(j) ==
    /\ j \notin present
    /\ Needs[j] \subseteq done
    /\ present' = present \cup {j}
    /\ UNCHANGED <<done, broken, verdict>>

Succeed(j) == j \in present /\ done' = done \cup {j} /\ UNCHANGED <<present, broken, verdict>>
Break(j) == j \in present /\ broken' = broken \cup {j} /\ UNCHANGED <<present, done, verdict>>

\* A job is deleted; it may begin again.
Vanish(j) == j \in present /\ present' = present \ {j} /\ UNCHANGED <<done, broken, verdict>>

(***************************************************************************)
(* Verdicts.  Succeed is for a flow all of whose jobs have succeeded and   *)
(* may be taken back when one of them has to run again; Failed is for one  *)
(* with a broken job, and it is final.                                     *)
(***************************************************************************)
Conclude ==
    /\ verdict # "Failed"
    /\ \/ verdict' = "Succeed" /\ Jobs \subseteq done
       \/ verdict' = "Failed" /\ broken # {}
       \/ verdict' = "Open"
    /\ UNCHANGED <<present, done, broken>>

Next == Conclude \/ \E j \in Jobs : Begin(j) \/ Succeed(j) \/ Break(j) \/ Vanish(j)

Spec == Init /\ [][Next]_vars
============================================================================
