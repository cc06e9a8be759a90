SPECIFICATION WFairSpec
CONSTANTS
    gap = gap
    storm = storm
    cap = cap
    adverse = adverse
    t1 = t1
    t2 = t2
    Modes <- MCModes
    Evaluators = {e1}
    CausalWindow = 1
    Requests = {r1, r2}
INVARIANTS MemoryMatchesRows CreditIsEarned
PROPERTIES ResolvedStaysResolved EndedIsResolved
CHECK_DEADLOCK FALSE
