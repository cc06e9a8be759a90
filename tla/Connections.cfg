SPECIFICATION FairSpec
CONSTANTS
    org = org
    c1 = c1
    c2 = c2
    f1 = f1
    f2 = f2
    Orgs = {org}
    Callers = {c1, c2}
    Flows = {f1}
    Lifetime = 1
    RequestTtl = 1
    AccessTtl = 1
    Faults = TRUE
    Restarts = TRUE
    MaxTime = 2
    MaxGrants = 2
    MaxGeneration = 2
    MaxStates = 2
INVARIANTS CredentialSurvives CredentialsAreStored
PROPERTIES DiesForCause CallersReturn LifetimeEndsIt
CHECK_DEADLOCK FALSE
