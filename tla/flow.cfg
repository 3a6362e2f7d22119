SPECIFICATION FairSpec
CONSTANTS
    Flows = {f1, f2}
    N = 3
    MaxFaults = 2
INVARIANTS
    SavedWhole
    RunsChained
    SessionTellsTruth
    TraceIsLineage
PROPERTIES
    FlowEnds
