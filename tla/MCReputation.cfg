SPECIFICATION FairSpec
CONSTANTS
    a = a
    b = b
    c = c
    d = d
    NoRow = NoRow
    Ids = {a, b, c, d}
    Targets = {c, d}
    Signals = {"broker_request"}
    History <- Busy
    MinPopulation = 3
    Threshold = 2
    Window = 1
    Retention = 2
    Cooldown = 1
    Recent = 3
    Repeats = 2
    DefaultScore = 50
    LongevityCurve <- Bonuses
    RecencyCurve <- Penalties
    MaxEvents = 3
    MaxTime = 2
    MaxFaults = 1
CHECK_DEADLOCK FALSE
 
PROPERTY ReasonsAppendOnly
PROPERTY CacheCatchesUp
PROPERTY RepeatersFrozen
