SPECIFICATION HostSpec
CONSTANTS
    Requests = {1}
    Names = {"a", "x"}
    Invalid = {"x"}
    Configs <- MCConfigs
    Limit = 2
    MaxNeed = 3
    MaxChanges = 0
INVARIANTS
    CronDrained
CHECK_DEADLOCK FALSE
