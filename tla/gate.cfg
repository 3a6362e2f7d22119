SPECIFICATION Spec
CONSTANTS
    flow = flow
    tune = tune
    agents = agents
    note = note
    scan = scan
    Tools <- MCTools
    Builtin <- MCBuiltin
    Cycle = agents
    LongTools <- MCLong
    Allowed <- MCTools
    Files <- MCFiles
    Packages <- MCPackages
    Requests <- MCRequests
    Figures = {0, 24, 85, 95, 96}
    MaxCalls = 1
    MaxFaults = 1
INVARIANTS
    RiskyCallsConfirmed
    ErrorLeavesNoRun
    NoneApproved
CHECK_DEADLOCK FALSE
