SPECIFICATION FairSpec
CONSTANTS
    Identities = {alice, bob}
    NoId = NoId
    Requests = {r1, r2}
    Refs = {x1}
    NoTag = NoTag
    Amounts = {2}
    MaxInt64 = 3
    Readers = {alice}
    Callers = {c1}
    StaleTipRetries = 1
    TransferAttempts = 2
    MaxEntries = 3
    StartHour = 1
    MaxHour = 2
    alice = alice
    bob = bob
    UsagePairs <- OneWay
INVARIANT ChainIntegrity
 
INVARIANT StaleMeansProgress
INVARIANT ReadsSound
PROPERTY AppendsReturn
