SPECIFICATION FairSpec
CONSTANTS
    MaxLaunches = 1
    Patient = FALSE
INVARIANTS
    TypeOK
    EndReportedOnce
    FaultExitCode
PROPERTIES
    NoStopAfterEnd
    DisconnectStopsProgram
    SessionEnds
    ResumeTakesEffect
    PauseStops
