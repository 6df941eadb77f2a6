SPECIFICATION FairSpec
CONSTANTS
  r1 = r1
  r2 = r2
  c1 = c1
  Requests = {r1, r2}
  Consumers = {c1}
  Consumer <- MCConsumer
  Dials <- MCDials
  MaxEvents = 1
  None = None
CHECK_DEADLOCK FALSE
INVARIANT SeederInv
 
PROPERTY Reaped
