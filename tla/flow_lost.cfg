SPECIFICATION Spec
CONSTANTS
    Flows = {f1}
    N = 2
    MaxFaults = 1
INVARIANT
    ReportedRunsDurable
