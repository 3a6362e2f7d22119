\* One eda-agent submit, no worker running.
SPECIFICATION FairPoolSpec
CONSTANTS
    ToolCallers = {}
    CliCallers = {c1}
    Processes = {p1, p2}
    NoFile = NoFile
    Blank = Blank
    MaxByHand = 0
    MaxExits = 0
    MaxReuse = 0
PROPERTY CliServed
CHECK_DEADLOCK FALSE
