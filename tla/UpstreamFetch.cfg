SPECIFICATION Spec
CONSTANTS
    Fetchers = {1, 2}
    Hosts = {"h", "k"}
    Urls <- MCUrls
    Addresses = {"pub", "priv"}
    Private = {"priv"}
    Answers <- MCAnswers
    Policies <- MCPolicies
    LookupLimit = 1
INVARIANTS
    TypeOK
    OwnClient
    WithinPolicy
    InTime
PROPERTIES
    FetchEnds
