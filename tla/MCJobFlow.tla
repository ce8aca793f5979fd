----------------------------- MODULE MCJobFlow -----------------------------
(***************************************************************************)
(* Instances of JobFlow for TLC.                                           *)
(***************************************************************************)
EXTENDS JobFlowRefinement

Entry(n, deps) == [name |-> <<n>>, deps |-> [j \in DOMAIN deps |-> <<deps[j]>>], ref |-> None]
AllKeys == UNION {UNION {{JobName(f, s[j].name) : j \in DOMAIN s} : s \in Specs[f]} : f \in Owners}

OneObject == {"f"}
OneNamespace == [f \in {"f"} |-> "ns"]
OneName == [f \in {"f"} |-> <<"flow">>]

\* The entry that joins the two others comes before one of them in the list; or
\* two entries depend on the same one.
JoinOrFork == [f \in {"f"} |->
                {<<Entry("a", <<>>), Entry("c", <<"a", "b">>), Entry("b", <<>>)>>,
                 <<Entry("a", <<>>), Entry("b", <<"a">>), Entry("c", <<"a">>)>>}]

\* One entry.
Solo == [f \in {"f"} |-> {<<Entry("a", <<>>)>>}]

\* Two entries in a chain; the second uses a JobTemplate.
Second == [Entry("b", <<"a">>) EXCEPT !.ref = "t"]
Chain == [f \in {"f"} |-> {<<Entry("a", <<>>), Second>>}]

\* An edit turns the dependency round.
Turned == [f \in {"f"} |-> {<<Entry("a", <<>>), Second>>,
                            <<Entry("a", <<"b">>), [Second EXCEPT !.deps = <<>>]>>}]

\* Two objects of one name in two namespaces.
Twins == {"f", "g"}
TwinNamespaces == [f \in Twins |-> IF f = "f" THEN "ns1" ELSE "ns2"]
TwinNames == [f \in Twins |-> <<"flow">>]
TwinSpecs == [f \in Twins |-> {<<Entry("a", <<>>)>>}]
============================================================================
