SPECIFICATION Spec
CONSTANTS
    MaxAttempts = 3
    PerCall = 3
    Delay = 2
    Budget = 15
INVARIANTS
    TypeOK
    DoneByDeadline
    GivesUpOnlyWhenSpent
    WithinSchedule
PROPERTY
    Termination
