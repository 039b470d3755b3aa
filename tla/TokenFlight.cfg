SPECIFICATION FairSpec
CONSTANTS
    Callers = {c1, c2}
    c1 = c1
    c2 = c2
    Nobody = Nobody
    MaxTokens = 2
    Storages = {"fallible"}
    Half = 8
    Second = 2
    Margin = 2
    Instants <- Clock
    Lifetimes <- Seconds
PROPERTIES
    EveryCallReturns
    ImplementsSingleFlight
