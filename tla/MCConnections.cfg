SPECIFICATION FairSpec
CONSTANTS
    t1 = t1
    t2 = t2
    advertise = advertise
    fetch = fetch
    None = None
    Trackers = {t1, t2}
    Base <- Configured
    Peers <- Listed
    Advertiser = advertise
    Fetchers = {fetch}
    Mortal = {t1}
    MaxEvents = 2
CHECK_DEADLOCK FALSE
INVARIANT ConnectionsInv
PROPERTY CallsReturn
PROPERTY BackInService
