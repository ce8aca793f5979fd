CONSTANTS
    None = None
    Owners <- Objects
    Namespace <- OneNamespace
    Name <- OneName
    Specs <- ThirdExcluded
    JobKeys <- AllKeys
    Nodes <- ThreeNodes
    Completions = 1
    Parallelism = 1
    MaxLag = 1
    Disturbances = {"deleteJob", "apiError", "restart"}
    MaxDisturbances = 1
SPECIFICATION Spec
CHECK_DEADLOCK FALSE
INVARIANTS SucceedMeansEveryNode StatusCurrent
PROPERTIES FailedIsFinal
