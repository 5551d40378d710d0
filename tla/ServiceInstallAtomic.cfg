SPECIFICATION Spec
CONSTANTS
    Scopes = {"system"}
    Versions = {1, 2}
    RunAtLoad = FALSE
    MaxFaults = 1
    MaxCommands = 2
INVARIANTS
    AtomicReplacement
CHECK_DEADLOCK FALSE
