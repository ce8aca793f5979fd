CONSTANTS
    None = None
    Owners <- Objects
    Namespace <- OneNamespace
    Name <- OneName
    Specs <- ThirdExcluded
    JobKeys <- AllKeys
    Nodes <- ThreeNodes
    Completions = 1
    Parallelism = 1
    MaxLag = 3
    Disturbances = {}
    MaxDisturbances = 0
SPECIFICATION Spec
CHECK_DEADLOCK FALSE
INVARIANTS EveryNodeServed
