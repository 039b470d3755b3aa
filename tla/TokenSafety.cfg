SPECIFICATION Spec
CONSTANTS
    Callers = {c1, c2, c3}
    c1 = c1
    c2 = c2
    c3 = c3
    Nobody = Nobody
    MaxTokens = 2
    Storages = {"memory", "none"}
    Half = 8
    Second = 2
    Margin = 2
    Instants <- Clock
    Lifetimes <- Seconds
SYMMETRY Symmetry
INVARIANTS
    TypeOK
    SingleFetch
    NoStampede
    DroppedStaysDropped
PROPERTIES
    CacheAdvances
    RetryRepeatsOnlyAsFollower
