SPECIFICATION Spec
CONSTANTS
    a = a
    b = b
    g1 = g1
    g2 = g2
    p1 = p1
    p2 = p2
    NUL = NUL
    Goroutines = {g1, g2}
    Processes = {p1, p2}
    Nobody = Nobody
    Char = {a, b, NUL}
    Absent = Absent
    MaxTokens = 2
    Homes <- SplitHomes
    Clients <- TwoClients
INVARIANTS
    RemovesOnlyUseless
