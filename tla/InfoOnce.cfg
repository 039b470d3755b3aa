SPECIFICATION Spec
CONSTANTS
    Callers = {c1, c2, c3}
    c1 = c1
    c2 = c2
    c3 = c3
    Nobody = Nobody
    MaxVersion = 3
INVARIANT FetchedAtMostOnce
