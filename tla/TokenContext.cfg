SPECIFICATION Spec
CONSTANTS
    Callers = {c1, c2}
    c1 = c1
    c2 = c2
    Nobody = Nobody
    MaxTokens = 2
    Storages = {"memory"}
    Half = 8
    Second = 2
    Margin = 2
    Instants <- Clock
    Lifetimes <- Seconds
INVARIANTS
    OwnContextOnly
