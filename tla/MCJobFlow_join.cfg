CONSTANTS
    None = None
    Owners <- OneObject
    Namespace <- OneNamespace
    Name <- OneName
    Specs <- JoinOrFork
    JobKeys <- AllKeys
    Templates = {}
    Completions = 1
    Parallelism = 1
    MaxLag = 3
    Disturbances = {}
    MaxDisturbances = 0
    Promised = "f"
SPECIFICATION Spec
CHECK_DEADLOCK FALSE
INVARIANTS TypeOK VerdictSound StatusCurrent NoneLeftBehind
PROPERTIES DependencyOrder DependenciesComplete
