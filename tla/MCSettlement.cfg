SPECIFICATION FairSpec
CONSTANTS
    Requests = {r1}
    Consumers = {carol}
    ConsumerOf <- OneConsumer
    Seeders = {s1}
    NoSeeder = NoSeeder
    NoRequest = NoRequest
    Costs = {1}
    Credits = {1}
    LoadThreshold = 1
    MaxOfferAttempts = 1
    Reporters = {t1, t2}
    Settlers = {h1}
    Faults = {"expire", "admin", "append", "report", "stop"}
    carol = carol
CHECK_DEADLOCK FALSE
INVARIANT OneAwaiter
INVARIANT SettledIsEarned
INVARIANT ReservationsSound
 
PROPERTY RequestsEnd
