SPECIFICATION Spec
CONSTANTS
    N = 3
    MaxPolls = 1
    MaxResumes = 1
INVARIANTS
    NoCompetition
    JournalCovers
    OutageExplained
\* Once the command is over and every request served, nothing is left to do.
CHECK_DEADLOCK FALSE
