SPECIFICATION FairSpec
CONSTANTS
    c1 = c1
    c2 = c2
    i1 = i1
    i2 = i2
    i3 = i3
    s1 = s1
    s2 = s2
    a1 = a1
    a2 = a2
    Calls <- MCCalls
    Incidents <- MCIncidents
    Signers = {s1, s2}
    Agents = {a1, a2}
    SignerOf <- MCSignerOf
    AgentOf <- MCAgentOf
    Servable <- MCIncidents
    Keyed = {i2}
    Confident <- MCIncidents
    AllowedSigners = {s1, s2}
    SelfAgent = Blackbox
    DryRun = FALSE
    MaxAttempts = 1
    MaxPerHour = 1
    MaxGasPerHour = 1
    MaxPerDayPerAgent = 1
    Hour = 1
    Day = 1
    GasPerTx = 2
    FaultyCalls = {c2}
    MaxTime = 2
    Asked <- MCAsked
INVARIANTS BudgetsHold SubmittedIsLedgered NeverOverclaims MutexHeldByACall
PROPERTY MutexIsReleased
CHECK_DEADLOCK FALSE
