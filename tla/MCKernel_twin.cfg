\* exec f7 f7 on a store of 5 frames: the first process terminates after
\* eviction gave one of its old slots to the second.
CONSTANTS
    TotalFrames = 5
    Files <- MCFiles
    Prog <- MCProg
    Commands <- TwinCommands
    MaxCommands = 1
    Policy = "RR"
    MaxPid = 2
SPECIFICATION Spec
PROPERTY TerminationFreesOnlyOwn
CHECK_DEADLOCK FALSE
