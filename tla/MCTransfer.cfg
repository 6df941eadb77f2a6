SPECIFICATION FairSpec
CONSTANTS
    Signed <- TwoTransfers
    Nonces = {x, y}
    NonceOf <- PairNonce
    AmountOf <- PairAmount
    Calls = {c1, c2}
    NoCall = NoCall
    Loops = {l1, l2}
    IssuedCap = 1
    Credits = 3
    Faults = TRUE
    MaxCrashes = 2
    x = x
    y = y
CHECK_DEADLOCK FALSE
INVARIANT BooksAgree
INVARIANT PendingIsOwned
PROPERTY ImplementsPromise
PROPERTY CallsReturn
