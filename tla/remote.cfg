SPECIFICATION FairSpec
CONSTANTS
    f1 = f1
    f2 = f2
    Flows <- MCFlows
    Last <- MCLast
    Mixes <- MCMixes
    MaxFaults = 1
    N = 2
    Retries = 2
    Prepared = {1}
    Matches <- MCMatches
INVARIANTS
    ReportsOwn
    SuccessIsEarned
    RepeatedWhenLost
    InputIsPrevious
PROPERTY FlowReturns
CHECK_DEADLOCK FALSE
