SPECIFICATION OneTabSpec
CONSTANTS
    token_bucket = token_bucket
    leaky_bucket = leaky_bucket
    bucket = bucket
    Handlers = {v1, v2}
    Visits = {v1, v2}
    Policies = {p1, p2}
    Algorithms <- TwoAlgorithms
    Families <- OneFamily
    Family <- FamilyOf
    RequestParams <- OneForm
    Forms <- OneForm
    MaxVersion = 3
    MaxOthers = 0
SYMMETRY Alike
INVARIANT DocTabsIndependent
CHECK_DEADLOCK FALSE
