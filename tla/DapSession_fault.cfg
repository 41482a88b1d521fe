SPECIFICATION Spec
CONSTANTS
    MaxLaunches = 1
    Patient = FALSE
INVARIANTS
    FaultNotResumed
