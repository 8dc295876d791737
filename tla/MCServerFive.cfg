SPECIFICATION Spec
CONSTANTS
    c1 = c1
    c2 = c2
    q1 = q1
    q2 = q2
    k1 = k1
    k2 = k2
    sse = sse
    http = http
    NoKey = NoKey
    Consents <- MCConsents
    Requests <- MCRequests
    MaxTokens = 2
    Keys <- MCKeys
    Sse <- MCSse
    Streamable <- MCStreamable
    MaxAttempts = 3
    Window = 3
    MaxTime = 8
CONSTRAINT Bounds
SYMMETRY Symmetry
INVARIANT
    FiveAMinute
