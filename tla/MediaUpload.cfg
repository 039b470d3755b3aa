SPECIFICATION FairSpec
CONSTANTS
    f1 = f1
    k1 = k1
    k2 = k2
    g1 = g1
    g2 = g2
    Unset = Unset
    Text = Text
    Queriers = {g1, g2}
    RecordIDs = {f1, k1, k2}
    Files = {f1}
    IdLists <- NoIDsOrOne
    Limits = {2}
    Modes = {0, 3}
    Paths <- FolderImages
    MaxEdits = 2
INVARIANTS
    TypeOK
    UploadedWhole
    LeftoversExplained
    AggregateLoadsOne
    OnlyAggregateTruncates
    FoundWereAsked
PROPERTIES
    UploadReturns
