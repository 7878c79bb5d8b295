SPECIFICATION Spec
CONSTANTS
    N = 2
    MaxPolls = 1
    MaxResumes = 1
INVARIANTS
    DegenerateIsStopped
\* Once the command is over and every request served, nothing is left to do.
CHECK_DEADLOCK FALSE
