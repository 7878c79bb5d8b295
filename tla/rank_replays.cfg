SPECIFICATION Spec
CONSTANTS
    a0 = a0  a1 = a1  a2 = a2
    s0 = s0  s1 = s1  s2 = s2  s3 = s3
    p0 = p0  p1 = p1  p2 = p2
    None = None
    Attempts = {a1}
    StartCalls = {s1, s2}
    StopCalls = {p1, p2}
    Target <- ReplayTarget
    OldCall = None
    Disciplined = FALSE
INVARIANTS
    StopIsFinal
    OneSupervisor
PROPERTIES
    KeepsPromise
    StopSettles
\* Once every request is served and every supervisor is gone, nothing is left to do.
CHECK_DEADLOCK FALSE
