SPECIFICATION Spec
CONSTANTS
    r1 = r1
    r2 = r2
    Requests <- TwoRequests
    capacity = 2
    water_per_request = 1
    Unit = 2
    Rate = 2
    Noise = 1
    SecondMs = 1
    MaxDelay = 1
    MaxRetries = 1
    MaxTime = 5
INVARIANTS
    SustainedLeak
    RemainingWithinOne
PROPERTY ImplementsTokenBucket
