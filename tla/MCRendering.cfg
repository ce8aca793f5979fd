\* A JobFlow, a JobTemplate and a DaemonJob, written four times in all.
CONSTANTS
    FlowSpecs <- MCFlowSpecs
    TemplateSpecs <- MCTemplateSpecs
    DaemonSpecs <- MCDaemonSpecs
    Nodes <- MCNodes
    None = None
    MaxEdits = 4
SPECIFICATION Spec
INVARIANTS TypeOK CopiesShareNothing CacheIntact SpecUntouched RenderedRight
\* Once the last object is deleted and nobody writes another, nothing is left to do.
CHECK_DEADLOCK FALSE
