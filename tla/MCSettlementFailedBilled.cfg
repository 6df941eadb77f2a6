SPECIFICATION Spec
CONSTANTS
    Requests = {r1}
    Consumers = {carol}
    ConsumerOf <- OneConsumer
    Seeders = {s1}
    NoSeeder = NoSeeder
    NoRequest = NoRequest
    Costs = {1}
    Credits = {1}
    LoadThreshold = 1
    MaxOfferAttempts = 1
    Reporters = {t1}
    Settlers = {}
    Faults = {"expire"}
    carol = carol
CHECK_DEADLOCK FALSE
INVARIANT FailedIsNotBilled
