SPECIFICATION Spec
CONSTANTS
    small = small
    large = large
    fill = fill
    payee = payee
    gap = gap
    a1 = a1
    a2 = a2
    c1 = c1
    c2 = c2
    Callers = {c1, c2}
    Nobody = nobody
    MaxRetries = 2
    MaxWait = 3
    Epoch = 10
    Now = 12
    Waits <- MCWaits
    Attempts = {a1, a2}
    Works = {small, large, fill}
    TargetOf <- MCTargetOf
    Nonced = {fill}
    None = none
    MaxPolls = 2
    Modes <- MCModes
INVARIANT NothingIsRepeated
PROPERTIES ImplementsSubmission EveryAttemptEnds

CHECK_DEADLOCK FALSE
