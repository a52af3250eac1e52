SPECIFICATION Spec
CONSTANTS
    r1 = r1
    r2 = r2
    Requests <- TwoRequests
    limit = 2
    window_size_sec = 1
    SecondMs = 2
    MaxDelay = 2
    MaxRetries = 0
    MaxTime = 5
    MaxCount = 3
SYMMETRY Symmetry2
INVARIANT DocCountersExpire
