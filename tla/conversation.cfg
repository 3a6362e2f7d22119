\* Turns of two iterations with up to two calls each; five messages, cut to a
\* size of 6 when saved, to 5 and 3 when sent.
SPECIFICATION FairChatSpec
CONSTANTS
    MaxMessages = 5
    MaxCalls = 2
    MaxBytes = 6
    Bytes <- MCSize
    Tokens <- MCSize
    MaxIterations = 2
    InputBudget = 5
    RetryBudget = 3
    NoRow = NoRow
INVARIANTS RequestsPaired ResumeKeepsAll
PROPERTY TurnEnds
CHECK_DEADLOCK FALSE
