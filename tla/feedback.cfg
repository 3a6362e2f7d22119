SPECIFICATION FairSpec
CONSTANTS
    Rules = {r1, r2, r3}
    Inferences = {i1}
    Confirms = {c1, c2}
    None = None
    Base = 40
    MinMultiplier = 39
    MaxMultiplier = 43
    MaxTop = 2
    MaxFaults = 2
INVARIANTS
    DriftCounted
    ConfirmedIsRecorded
PROPERTIES
    FreshFeedbackFair
    ConfirmEnds
