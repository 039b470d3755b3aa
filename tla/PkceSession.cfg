SPECIFICATION FairSpec
CONSTANTS
    p1 = p1
    p2 = p2
    Processes = {p1, p2}
    MaxTokens = 3
    Settings <- Deployments
INVARIANTS
    TypeOK
    SavedBeforeUsed
    CopiesAgree
    SessionsOutlastRuns
PROPERTIES
    ClientKeepsLogin
    
    StartsReturn
