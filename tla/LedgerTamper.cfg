SPECIFICATION TamperFairSpec
CONSTANTS
    Writers = {w1, w2}
    NoWriter = NoWriter
    e1 = e1
    e2 = e2
    e1Upper = e1Upper
    Entries <- MCEntries
    Canon <- MCCanon
    Legacy = e1
    LegacyRows = 1
    MaxRows = 5
INVARIANTS HonestLedgerVerifies TamperingIsLocated
PROPERTY EveryWriteReturns
CHECK_DEADLOCK FALSE
