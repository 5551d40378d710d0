SPECIFICATION HostSpec
CONSTANTS
    Requests = {1, 2}
    Names = {"a", "x"}
    Invalid = {"x"}
    Configs <- MCConfigs
    Limit = 2
    MaxNeed = 3
    MaxChanges = 2
INVARIANTS
    ServerTypeOK
    DrainedBeforeLimit
    ExitsInTime
PROPERTIES
    ShutdownCompletes
    CronFollowsSettings
    ScmOrder
    ControlAnswered
CHECK_DEADLOCK FALSE
