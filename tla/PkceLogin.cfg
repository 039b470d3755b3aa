SPECIFICATION FairSpec
CONSTANTS
    l1 = l1
    l2 = l2
    port = port
    r1 = r1
    r2 = r2
    r3 = r3
    Logins = {l1, l2}
    Ports = {port}
    PortOf <- SamePort
    Synchronous = {l2}
    Bounded = {l1}
    Requests = {r1, r2, r3}
    Nobody = Nobody
INVARIANTS
    TypeOK
    OwnCodeOnly
    AnswersKept
PROPERTIES
    LoginReturns
    HandlerReturns
    ImplementsPromise
CHECK_DEADLOCK FALSE
