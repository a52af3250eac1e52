SPECIFICATION Spec
CONSTANTS
    fixed_window = fixed_window
    token_bucket = token_bucket
    window = window
    bucket = bucket
    Handlers = {h1, h2}
    Policies = {p1}
    Requests = {q1}
    Algorithms <- TwoAlgorithms
    Families <- TwoFamilies
    Family <- FamilyOf
    RequestParams <- SomeParams
    MaxVersion = 3
PROPERTY DocEnabledWhenActivated
