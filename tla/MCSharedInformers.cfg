CONSTANTS
    None = None
    Keys <- MCKeys
    Users <- MCUsers
    Namespace <- MCNamespace
    Existing <- MCExisting
    MaxRevision = 3
    Threads <- MCThreads
    Program <- MCProgram
    Options <- MCOptions
    MaxBreaks = 1
SPECIFICATION FairSpec
INVARIANTS TypeOK SpecAndStatusApart OneInformer SyncedMeansSeen OnlySelected
PROPERTIES NoLostUpdate ListerConverges CallsReturn
\* When all calls are made and all changes too, nothing is left to do.
CHECK_DEADLOCK FALSE
