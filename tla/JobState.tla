----------------------------- MODULE JobState -----------------------------
(***************************************************************************)
(* The verdict both controllers write into .status.state: how a list of    *)
(* batch/v1 Job statuses is classified and summarised.  The JobFlow        *)
(* controller (getAllJobStatus in helper.go) and the DaemonJob controller  *)
(* (getAllJobStatusFromDaemonJob) hold the same code twice; this module    *)
(* states it once.  It has no variables.                                   *)
(***************************************************************************)
EXTENDS Naturals, FiniteSets

CONSTANT None      \* stands for a nil or missing object

(***************************************************************************)
(* The three counters of batchv1.JobStatus that the operator reads.        *)
(***************************************************************************)
JobStatus == [active : Nat, succeeded : Nat, failed : Nat]
NewStatus == [active |-> 0, succeeded |-> 0, failed |-> 0]

(***************************************************************************)
(* Values of status.state; "" is a status never written.                   *)
(***************************************************************************)
States == {"", "Succeed", "Terminating", "Failed", "Running", "Pending"}

(***************************************************************************)
(* A list maps the keys of jobs to their status, None for a job that is    *)
(* not in the list.  The code compares every counter with exactly 1 and    *)
(* puts each job in the first class whose counter matches.                 *)
(***************************************************************************)
Completed(list) ==
    {k \in DOMAIN list : list[k] # None /\ list[k].succeeded = 1}
FailedOnes(list) ==
    {k \in DOMAIN list : list[k] # None /\ list[k].failed = 1} \ Completed(list)
RunningOnes(list) ==
    {k \in DOMAIN list : list[k] # None /\ list[k].active = 1}
        \ (Completed(list) \cup FailedOnes(list))

(***************************************************************************)
(* The state of an object that expects total jobs.  The number of          *)
(* completed jobs is compared with total before a failure is looked at.    *)
(***************************************************************************)
StateOf_OfThoseListed(deleting, total, list) ==    \* mutant: total is not used
    IF deleting THEN "Terminating"
    ELSE IF Cardinality(Completed(list)) = Cardinality({k \in DOMAIN list : list[k] # None})
         THEN "Succeed"
    ELSE IF FailedOnes(list) # {} THEN "Failed"
    ELSE "Running"

StateOf(deleting, total, list) ==
    IF deleting THEN "Terminating"
    ELSE IF Cardinality(Completed(list)) = total THEN "Succeed"
    ELSE IF FailedOnes(list) # {} THEN "Failed"
    ELSE IF Completed(list) \cup RunningOnes(list) # {} THEN "Running"
    ELSE "Pending"
===========================================================================
