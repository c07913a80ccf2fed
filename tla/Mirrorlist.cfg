SPECIFICATION Spec
CONSTANTS
    Confs <- SmallConfs
    MaxEdits = 4
    MaxRuns = 5
CHECK_DEADLOCK FALSE
INVARIANTS
    TypeOK
    StaysUsable
    SignedOnce
PROPERTIES
    OthersKept
    Idempotent
