SPECIFICATION GossipFairSpec
CONSTANTS
    a = a
    b = b
    c = c
    r1 = r1
    r2 = r2
    i = i
    s = s
    NoRoot = NoRoot
    Trackers = {a, b, c}
    Roots = {r1, r2}
    FirstRoot = r1
    Identities = {i}
    Strangers = {s}
    Publishers = {c}
    Freezers = {a}
    Emitters = {a}
    Edges <- Triangle
    DedupeCap = 4
    StartedAt <- Starts
    MaxGossip = 3
    MaxFaults = 1
    MaxCutoff = 1
CHECK_DEADLOCK FALSE
 
PROPERTY ArchivesOnlyImprove
PROPERTY GossipDiesOut
