SPECIFICATION Spec
CONSTANTS
    Absent = Absent
    OtherRules <- MCOtherRules
    NoId = NoId
    Design = "aes"
    Figures <- MCFigures
    Starts <- MCStarts
    TargetWns <- MCTargetWns
    Threshold = 1400
    MaxIterations = 3
    MaxFaults = 2
    MaxOthers = 1
INVARIANTS
    ExperimentOnEvidence
    LineageAgrees
    RewardEarned
PROPERTIES
    LoopEnds
