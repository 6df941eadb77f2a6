SPECIFICATION AdmissionFairSpec
CONSTANTS
    Requests = {r1, r2, r3}
    Abandoned = {r3}
    DemandBefore = 1
    Seeders = {s1}
    r1 = r1
    r2 = r2
    r3 = r3
    s1 = s1
    Score <- Scores
    Headroom <- Headrooms
    One = 4
    PressureAdmitThreshold = 1
    PressureRejectThreshold = 5
    QueueCap = 2
    AgingAlpha = 1
    QueueTimeout = 1
    FreshAge = 0
    DecayAge = 1
    MaxAge = 1
INVARIANT AdmissionInv
INVARIANT QueueSound
PROPERTY QueueKeepsOrder
PROPERTY WaitingEnds
