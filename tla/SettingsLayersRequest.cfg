SPECIFICATION Spec
CONSTANTS
    Prefs <- MCPrefs
    Documents <- Examples
    EnvTokens = {FALSE}
INVARIANTS
    RequestOverExternal
