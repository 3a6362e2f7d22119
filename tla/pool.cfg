\* A tool call and a CLI call, a hand-started worker, one kill, one reused id.
SPECIFICATION FairPoolSpec
CONSTANTS
    ToolCallers = {t1}
    CliCallers = {c1}
    Processes = {p1, p2, p3}
    NoFile = NoFile
    Blank = Blank
    MaxByHand = 1
    MaxExits = 1
    MaxReuse = 1
INVARIANTS SubmissionHasWorker
PROPERTY Served
CHECK_DEADLOCK FALSE
