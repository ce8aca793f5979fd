---------------------------- MODULE MCDaemonJob ----------------------------
(***************************************************************************)
(* Instances of DaemonJob for TLC.                                         *)
(***************************************************************************)
EXTENDS DaemonJob

Objects == {"d"}
OneNamespace == [d \in Objects |-> "ns"]
OneName == [d \in Objects |-> <<"daemon">>]
AllKeys == {JobName(d, n) : d \in Objects, n \in Nodes}

OneNode == {<<"n1">>}
TwoNodes == {<<"n1">>, <<"n2">>}
ThreeNodes == TwoNodes \cup {<<"n3">>}
ThirdExcluded == [d \in Objects |-> {{<<"n3">>}}]
FirstOrNone == [d \in Objects |-> {{<<"n1">>}, {}}]
----------------------------------------------------------------------------
(***************************************************************************)
(* What two states have in common that behave alike.  reported is a        *)
(* history that no step reads.  Of the tokens only the equality of a       *)
(* copy's with that of the stored object matters, since a new one is none  *)
(* a copy has; where they differ the copy is an older one.  Of the status  *)
(* in a copy only Failed is ever looked at.                                *)
(***************************************************************************)
Bare(o) == [o EXCEPT !.rv = 0]
Copy(x, o) ==
    [exists |-> x.exists, uid |-> x.uid, spec |-> x.spec, deleting |-> x.deleting,
     failed |-> x.status.state = "Failed", current |-> x.rv = o.rv]

UpToTokens ==
    <<jobs, watch, jobCache,
      [d \in Objects |-> <<Bare(objects[d]), Copy(objectCache[d], objects[d])>>],
      IF object = None THEN None ELSE Copy(object, objects[req]),
      queue, req, budget, nodes, locals>>
============================================================================
