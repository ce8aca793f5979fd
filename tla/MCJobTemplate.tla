--------------------------- MODULE MCJobTemplate ---------------------------
(***************************************************************************)
(* An instance of JobTemplate for TLC: the name of one JobTemplate is the  *)
(* name of the other and a part behind a dot.                              *)
(***************************************************************************)
EXTENDS JobTemplate

Two == {"t", "dotted"}
TwoNamespaces == [t \in Two |-> "ns"]
TwoNames == [t \in Two |-> IF t = "t" THEN <<"a">> ELSE <<"a", "b">>]
TwoJobs == {<<"ns", "j1">>, <<"ns", "j2">>}
============================================================================
