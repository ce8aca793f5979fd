CONSTANTS
    None = None
    Owners <- OneObject
    Namespace <- OneNamespace
    Name <- OneName
    Specs <- Chain
    JobKeys <- AllKeys
    Templates = {"t"}
    Completions = 1
    Parallelism = 1
    MaxLag = 1
    Disturbances = {"deleteJob", "apiError", "restart"}
    MaxDisturbances = 1
    Promised = "f"
SPECIFICATION FairSpec
CHECK_DEADLOCK FALSE
INVARIANTS StatusCurrent NoneLeftBehind
PROPERTIES Settles ImplementsFlowOrder
