SPECIFICATION ConsoleSpec
CONSTANTS
    n1 = n1
    n2 = n2
    t1 = t1
    t2 = t2
    a1 = a1
    h1 = h1
    h2 = h2
    h3 = h3
    p1 = p1
    p2 = p2
    s1 = s1
    k1 = k1
    k2 = k2
    w1 = w1
    w2 = w2
    q1 = q1
    q2 = q2
    x1 = x1
    x2 = x2
    Incidents = {n1, n2}
    Public = {n1}
    Page = n1
    Ticks = {t1, t2}
    Acks = {a1}
    Modes <- MCModes
    MaxConnections = 2
    MaxRequests = 3
    MaxWire = 0
    MaxEvents = 3
    Ceiling = 2
    Hashes = {h1, h2, h3}
    Panels = {p1, p2}
    Scenes = {s1}
    MaxOffers = 1
    Pickers = {k1, k2}
    Workflows = {w1, w2}
    Askers = {q1, q2}
    Transactions = {x1, x2}
    CacheLimit = 1
    Attempts = 2
 
PROPERTY ConsoleCatchesUp
CHECK_DEADLOCK FALSE
