SPECIFICATION Spec
CONSTANTS
    r1 = r1
    r2 = r2
    r3 = r3
    Requests <- ThreeRequests
    capacity = 1
    tokens_per_request = 1
    Unit = 2
    Rate = 1
    Noise = 0
    SecondMs = 2
    MaxDelay = 2
    MaxRetries = 0
    MaxTime = 4
SYMMETRY Symmetry3
INVARIANT DocSustainedRate
