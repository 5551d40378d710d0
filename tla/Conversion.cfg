SPECIFICATION Spec
CONSTANTS
    Jobs <- MCJobs
    Reading <- MCReading
    ScriptTime = 2
    ScriptRemarks <- MCScriptRemarks
    WordOrder <- MCWordOrder
    Emojis <- MCEmojis
    DashFor <- MCDashFor
INVARIANTS
    TypeOK
    
    
    SectionsMerged
CHECK_DEADLOCK FALSE
