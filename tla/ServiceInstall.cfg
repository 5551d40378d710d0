SPECIFICATION Spec
CONSTANTS
    Scopes = {"system"}
    Versions = {1, 2}
    RunAtLoad = FALSE
    MaxFaults = 2
    MaxCommands = 4
INVARIANTS
    TypeOK
    RegisteredIsWhole
    OneFaultKeepsProgram
    InstallDelivers
PROPERTIES
    ImplementsDeployment
CHECK_DEADLOCK FALSE
