SPECIFICATION ChaosSpec
CONSTANTS
    StuckThreshold = 0
    StalledThreshold = 0
    StormWindow = 1
    StormCount = 2
    NodeFailures = 2
    GapConfirmations = 2
    StarvedMultiple = 3
    WarnPercent = 80
    SlippageTolerance = 50
    BumpPercent = 130
    TopupTarget = 2
    Calls = {"work"}
    Fees = {40, 110}
    BaseFees = {40, 80}
    Balances = {40}
    Tip = 10
    Cost = 10
    WindowSpan = 1
    MaxSent = 2
    MaxNonce = 1
    MaxTime = 2
    MaxMoves = 1
    Attempts = 2
    MaxHeight = 2
INVARIANTS EvidenceHolds PlansWork
PROPERTIES ResolvedIsOver GapsAreTracked InducedIsFound
CHECK_DEADLOCK FALSE
