SPECIFICATION FairSpec
CONSTANTS
  Sessions = {s1, s2}
  MaxFallbacks = 2
  MaxStarts = 2
  MaxEvents = 1
  Unset = Unset
  UserURL = UserURL
  None = None
CHECK_DEADLOCK FALSE
INVARIANT FallbackInv
INVARIANT RestoredAtRest
PROPERTY NetworkModeEnds
