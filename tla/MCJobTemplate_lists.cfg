CONSTANTS
    None = None
    Templates <- Two
    Namespace <- TwoNamespaces
    Name <- TwoNames
    JobKeys <- TwoJobs
    MaxLag = 1
    Disturbances = {"deleteJob", "deleteTemplate", "editTemplate", "apiError", "restart", "relist"}
    MaxDisturbances = 1
SPECIFICATION FairSpec
CHECK_DEADLOCK FALSE
INVARIANTS TypeOK ListSound ListCurrent
PROPERTIES ListConverges
