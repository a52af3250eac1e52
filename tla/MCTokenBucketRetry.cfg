SPECIFICATION Spec
CONSTANTS
    r1 = r1
    r2 = r2
    r3 = r3
    Requests <- TwoRequests
    capacity = 2
    tokens_per_request = 1
    Unit = 4
    Rate = 2
    Noise = 1
    SecondMs = 2
    MaxDelay = 2
    MaxRetries = 1
    MaxTime = 7
SYMMETRY Symmetry2
INVARIANT DocRetryEnough
