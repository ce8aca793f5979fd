------------------------- MODULE MCSharedInformers -------------------------
\* Two goroutines with one factory for one namespace, and two users of the client.
EXTENDS SharedInformers

MCKeys == {<<"a", "x">>, <<"b", "x">>}
MCNamespace == [u \in Users |-> "a"]
MCExisting == MCKeys
MCUsers == {"u", "v"}
MCProgram ==
    [t \in Threads |-> IF t = "t1" THEN <<"InformerFor", "Start", "WaitForCacheSync">>
                                    ELSE <<"ForResource", "Start">>]
MCThreads == {"t1", "t2"}
\* An option given twice: the later one counts.
MCOptions ==
    <<WithNamespace("b"), WithTweakListOptions({TRUE}), WithNamespace("a")>>
============================================================================
