SPECIFICATION SyncSpec
CONSTANTS
    token_bucket = token_bucket
    leaky_bucket = leaky_bucket
    bucket = bucket
    Handlers = {v1, v2, h1}
    Visits = {v1, v2}
    Policies = {p1, p2, p3}
    Algorithms <- TwoAlgorithms
    Families <- OneFamily
    Family <- FamilyOf
    RequestParams <- SomeParams
    Forms <- OneForm
    MaxVersion = 3
    MaxOthers = 1
SYMMETRY Alike
PROPERTIES
    NeverTakenOver
    LoneSyncSucceeds
    ReadsOwnWrite
CHECK_DEADLOCK FALSE
