SPECIFICATION FairSpec
CONSTANTS
    MaxLaunches = 2
    Patient = FALSE
PROPERTIES
    DisconnectStopsProgram
