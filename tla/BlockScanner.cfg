SPECIFICATION FairSpec
CONSTANTS
    t1 = t1
    t2 = t2
    s1 = s1
    s2 = s2
    k1 = k1
    k2 = k2
    Nobody = Nobody
    Txs = {t1}
    Signers = {s1, s2}
    From <- Sent
    To <- Received
    Confirmations = 1
    MaxHead = 4
    Ticks = {k1}
    MaxBlocks = 2
    SlowReads = FALSE
INVARIANTS TypeOK NeverSkips DiscoveredIsFinal
PROPERTY EverythingIsFound
CHECK_DEADLOCK FALSE
