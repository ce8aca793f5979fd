CONSTANTS
    None = None
    Owners <- OneObject
    Namespace <- OneNamespace
    Name <- OneName
    Specs <- Solo
    JobKeys <- AllKeys
    Templates = {}
    Completions = 1
    Parallelism = 1
    MaxLag = 1
    Disturbances = {"deleteObject", "recreate", "foreground"}
    MaxDisturbances = 2
    Promised = "f"
SPECIFICATION FairSpec
CHECK_DEADLOCK FALSE
PROPERTIES NoOrphans
