CONSTANTS
    None = None
    Owners <- Twins
    Namespace <- TwinNamespaces
    Name <- TwinNames
    Specs <- TwinSpecs
    JobKeys <- AllKeys
    Templates = {}
    Completions = 1
    Parallelism = 1
    MaxLag = 1
    Disturbances = {}
    MaxDisturbances = 0
    Promised = "f"
SPECIFICATION Spec
CHECK_DEADLOCK FALSE
INVARIANTS SucceedMeansAll
