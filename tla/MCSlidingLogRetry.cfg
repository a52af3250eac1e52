SPECIFICATION Spec
CONSTANTS
    r1 = r1
    r2 = r2
    Requests <- TwoRequests
    limit = 2
    window_size_sec = 1
    SecondMs = 2
    MaxDelay = 1
    MaxRetries = 0
    MaxTime = 6
    MaxPerTick = 2
SYMMETRY Symmetry2
INVARIANT DocRetryEnough
