SPECIFICATION AlertsSpec
CONSTANTS
    i1 = i1
    i2 = i2
    i3 = i3
    i4 = i4
    p1 = p1
    p2 = p2
    p3 = p3
    e1 = e1
    e2 = e2
    n1 = n1
    n2 = n2
    Installs = {i1, i2, i3, i4}
    Presses = {p1, p2, p3}
    Mailers = {e1, e2}
    Asks <- MCAsks
    Cooldown = 2
    RunsPerPress = 2
    MaxTime = 4
    MaxListed = 4
    MaxRestarts = 1
    Modes <- MCModes
    Incidents = {n1}
    Channels <- MCChannels
INVARIANT OutboundHolds
PROPERTY CriticalIsHeard
CHECK_DEADLOCK FALSE
