SPECIFICATION Spec
CONSTANTS
    p1 = p1
    p2 = p2
    Processes = {p1, p2}
    MaxTokens = 2
    Settings <- CrashingProcess
INVARIANTS
    StaysLoggedIn
