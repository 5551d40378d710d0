SPECIFICATION MCSpec
CONSTANTS
    Cases <- MCCases
    References <- MCReferences
    TableFiles <- Tables
    Profiles <- MCProfiles
    Files <- MCFiles
    LocalRefs <- MCLocalRefs
    MaxRounds = 3
    Uploads = {u1, u2, u3}
    Names = {"clash", "surge", "common"}
    MaxGists = 3
    MaxHops = 2
    PrefTexts <- MCTexts
    PrefFiles <- MCFiles
    PrefRounds = 3
    GeneratorTargets <- MCGeneratorTargets
    Versions = 2
INVARIANTS
    MCTypeOK
    
    SourcesInOrder
    ImportsBounded
    QuietUploadsShareOneGist
    
    ArtifactsInOrder
CHECK_DEADLOCK FALSE
