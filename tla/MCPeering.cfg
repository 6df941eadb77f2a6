SPECIFICATION FairSpec
CONSTANTS
    a = a
    b = b
    Nodes = {a, b}
    Operated = {a}
    MaxLinks = 2
    MaxDialers = 2
    MaxEvents = 1
    Dead = Dead
    None = None
CHECK_DEADLOCK FALSE
INVARIANT PeeringInv
 
PROPERTY LinkRestored
