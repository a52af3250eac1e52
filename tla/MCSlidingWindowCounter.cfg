SPECIFICATION Spec
CONSTANTS
    r1 = r1
    r2 = r2
    Requests <- TwoRequests
    limit = 3
    window_size_sec = 2
    SecondMs = 1
    MaxDelay = 1
    MaxRetries = 1
    MaxTime = 6
    MaxCount = 3
SYMMETRY Symmetry2
INVARIANTS
    WindowLimit
    CountersKept
    RemainingWithinOne
