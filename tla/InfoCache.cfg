SPECIFICATION FairManagerSpec
CONSTANTS
    Callers = {c1, c2, c3}
    c1 = c1
    c2 = c2
    c3 = c3
    Managers = {c1, c2}
    Nobody = Nobody
    MaxVersion = 3
    PostSince = 2
    Unparsable = {3}
INVARIANTS
    ManagerTypeOK
    PostIsUnderstood
    WrongMethodOnlyWhenStale
PROPERTIES
    InfoNeverOlder
    NeverSeesOlder
    EveryCallReturns
    ImplementsSingleFlight
    StaysUnableToRemove
