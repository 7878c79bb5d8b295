SPECIFICATION Spec
CONSTANTS
    a0 = a0  a1 = a1  a2 = a2
    s0 = s0  s1 = s1  s2 = s2  s3 = s3
    p0 = p0  p1 = p1  p2 = p2
    None = None
    Attempts = {a1}
    StartCalls = {s1}
    StopCalls = {p1}
    Target <- OneTarget
    OldCall = None
    Disciplined = FALSE
PROPERTIES
    FailedStaysDown
\* Once every request is served and every supervisor is gone, nothing is left to do.
CHECK_DEADLOCK FALSE
