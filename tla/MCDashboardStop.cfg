SPECIFICATION Spec
CONSTANTS
    l1 = l1
    l2 = l2
    s1 = s1
    s2 = s2
    s3 = s3
    s4 = s4
    Loops <- TwoLoops
    Slots <- FourSlots
    rps = 2
    concurrency = 2
    durationSec = 2
    MaxTime = 5
CHECK_DEADLOCK FALSE
PROPERTY DocStopEndsDispatch
