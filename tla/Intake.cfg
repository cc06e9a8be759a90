SPECIFICATION Spec
CONSTANTS
    StuckThreshold = 0
    StalledThreshold = 0
    StormWindow = 2
    StormCount = 2
    NodeFailures = 2
    GapConfirmations = 2
    StarvedMultiple = 3
    WarnPercent = 80
    SlippageTolerance = 50
    Workflows = {"w", "v"}
    Foreign = {"v"}
    PageSize = 1
    MaxRuns = 3
    MaxTxs = 2
    MaxTime = 3
    Modes <- MCModes
    Endings <- MCEndings
    Executions = {"x", "y"}
    Outcomes <- MCOutcomes
INVARIANTS RunsAreCounted SettledIsKept
PROPERTY EverythingIsReported
CHECK_DEADLOCK FALSE
