SPECIFICATION Spec
CONSTANTS
    Prefs <- MCPrefs
    Documents <- MCDocuments
    EnvTokens = {FALSE, TRUE}
INVARIANTS
    TypeOK
    Priority
    TokenProtected
