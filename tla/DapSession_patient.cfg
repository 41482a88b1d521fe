SPECIFICATION Spec
CONSTANTS
    MaxLaunches = 1
    Patient = TRUE
INVARIANTS
    InspectionParked
    HandlesCurrent
    FaultNotResumed
PROPERTIES
    LifecycleSpec
