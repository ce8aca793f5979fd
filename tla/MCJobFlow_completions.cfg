CONSTANTS
    None = None
    Owners <- OneObject
    Namespace <- OneNamespace
    Name <- OneName
    Specs <- Chain
    JobKeys <- AllKeys
    Templates = {"t"}
    Completions = 2
    Parallelism = 1
    MaxLag = 2
    Disturbances = {}
    MaxDisturbances = 0
    Promised = "f"
SPECIFICATION Spec
CHECK_DEADLOCK FALSE
PROPERTIES DependenciesComplete
