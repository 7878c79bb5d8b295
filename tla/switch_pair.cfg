SPECIFICATION Spec
CONSTANTS
    N = 2
    MaxPolls = 2
    MaxResumes = 2
INVARIANTS
    FailedIsDown
PROPERTIES
    SettledIsKept
    Terminates
    HandsOver
\* Once the command is over and every request served, nothing is left to do.
CHECK_DEADLOCK FALSE
