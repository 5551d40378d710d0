SPECIFICATION Spec
CONSTANTS
    r1 = r1
    r2 = r2
    u1 = u1
    Requests = {r1, r2}
    Urls = {u1}
    Namespaces = {"subscription", "ruleset"}
    Configs <- MCConfigs
    MaxTtl <- MCMaxTtl
    FetchLimit = 1
    MaxTime = 3
    MaxVersion = 2
SYMMETRY HandlerSymmetry
INVARIANTS
    TypeOK
    FreshnessBound
    FlushBarrier
    RevokedUrlNotServed
PROPERTIES
    NoOlderThanFound
    ImplementsPromise
CHECK_DEADLOCK FALSE
