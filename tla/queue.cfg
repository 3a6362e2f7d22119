\* All actors at once; two jobs, two worker pids.
SPECIFICATION FairSpec
CONSTANTS
    Jobs = {j1, j2}
    Pids = {p1, p2}
    NoPid = NoPid
    NoJob = NoJob
    Listers = {l1}
    Cancellers = {c1}
    MaxDeaths = 2
INVARIANTS TypeOK ExecutedOnce CliCancelHonoured StaleFixSparesLiveJobs
PROPERTIES NoOvertaking ImplementsJobOnce QueueDrains OrphanRepaired
CHECK_DEADLOCK FALSE
