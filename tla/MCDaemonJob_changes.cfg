CONSTANTS
    None = None
    Owners <- Objects
    Namespace <- OneNamespace
    Name <- OneName
    Specs <- FirstOrNone
    JobKeys <- AllKeys
    Nodes <- OneNode
    Completions = 1
    Parallelism = 1
    MaxLag = 1
    Disturbances = {"deleteObject", "foreground", "recreate", "editObject", "editNode"}
    MaxDisturbances = 4
SPECIFICATION FairSpec
VIEW UpToTokens
CHECK_DEADLOCK FALSE
INVARIANTS TypeOK
PROPERTIES NoOrphans
