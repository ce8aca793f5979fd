CONSTANTS
    None = None
    Owners <- OneObject
    Namespace <- OneNamespace
    Name <- OneName
    Specs <- Turned
    JobKeys <- AllKeys
    Templates = {"t"}
    Completions = 1
    Parallelism = 1
    MaxLag = 2
    Disturbances = {"deleteJob", "apiError", "badRequest", "restart", "relist", "editTemplate", "editObject"}
    MaxDisturbances = 1
    Promised = "f"
SPECIFICATION Spec
CHECK_DEADLOCK FALSE
INVARIANTS VerdictSound
PROPERTIES DependencyOrder FailedIsFinal
