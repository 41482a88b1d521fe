CONSTANTS
    Programs <- MCPrograms
    CanFault = {"HEAP_STORE_FIELD"}
    MaxDepth = 3
    Wants <- MCWants
    MaxBreakpoints = 2
    Requests <- MCRequests
    MaxRequests = 2
    MaxLaunches = 2
    StdPath <- MCStdPath
    OpNumber <- MCOpNumber
    Utf8 <- MCUtf8
    Disks <- MCDisks
    Compiled <- MCCompiled
    Named <- MCNamed
    Outputs <- MCOutputs
    Results <- MCResults
    MaxCommands = 2
    MaxWrites = 1
SPECIFICATION ToolSpec
VIEW ToolSeen
INVARIANTS
    FaultShownWhereItIs
