SPECIFICATION Spec
CONSTANTS
    a1 = a1
    a2 = a2
    s1 = s1
    s2 = s2
    s3 = s3
    derived = derived
    real = real
    wallet = wallet
    r1 = r1
    r2 = r2
    Agents = {a1, a2}
    Signers = {s1, s2, s3}
    Orgs = {derived, real, wallet}
    NoOrg = none
    DerivedId = derived
    RealId = real
    Wallets = {wallet}
    AddressOf <- TheAddress
    AgentOf <- TheAgents
    Requests = {r1, r2}
    Public = {a1}
    MaxWatched = 1
    MaxOutstanding = 1
    MaxNonces = 2
    MaxAsked = 4
INVARIANTS RegistryHolds OnlyTheOwnerActs
PROPERTIES ImplementsOwnership
SYMMETRY Symmetry
CHECK_DEADLOCK FALSE
