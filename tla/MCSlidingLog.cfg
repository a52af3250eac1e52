SPECIFICATION Spec
CONSTANTS
    r1 = r1
    r2 = r2
    Requests <- TwoRequests
    limit = 2
    window_size_sec = 1
    SecondMs = 3
    MaxDelay = 2
    MaxRetries = 1
    MaxTime = 7
    MaxPerTick = 2
SYMMETRY Symmetry2
INVARIANTS
    NothingForgotten
    LimitInAnyWindow
    RemainingHonest
    RetryOneShort
