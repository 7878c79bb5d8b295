SPECIFICATION Spec
CONSTANTS
    Stall = 6
    Deadlines = {0, 7}
    Nap = 2
    ReadMax = 2
    Gap = 3
INVARIANTS
    WedgeInTime
    DeadlineOnTime
PROPERTIES
    HealthyIsSpared
    Supervises
\* A supervision that has ended takes no step.
CHECK_DEADLOCK FALSE
