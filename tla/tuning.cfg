SPECIFICATION Spec
CONSTANTS
    None = None
    Setups <- MCSetups
    Timings <- MCTimings
    Congestions <- MCCongestions
    Replies <- MCReplies
    MaxIterations = 3
    MaxFaults = 1
    MaxInferences = 1
INVARIANTS
    VerdictBorneOut
    TraceIsDecision
    ParamsAdmissible
    AnswerMatchesSession
