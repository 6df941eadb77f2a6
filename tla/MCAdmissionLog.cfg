SPECIFICATION LogSpec
CONSTANTS
    a = a
    b = b
    settle = settle
    settle2 = settle2
    grant = grant
    filed = filed
    upheld = upheld
    order = order
    None = None
    Events = {settle, upheld}
    Kind <- KindOf
    Consumer <- ConsumerOf
    Seeder <- SeederOf
    Cost <- CostOf
    Parties = {a, b}
    RotateAt = 2
    SnapshotsRetained = 1
    MaxSnapshots = 2
    MaxStops = 2
    StarterGrant = 1
    FlowScale = 2
CHECK_DEADLOCK FALSE
INVARIANT LogInv
INVARIANT RecoveryExact
INVARIANT ScoreInRange
