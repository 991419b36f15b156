\* FCFS over every pair of programs on a store of 4 frames.
CONSTANTS
    TotalFrames = 4
    Files <- MCFiles
    Prog <- MCProg
    Commands <- PairCommands
    MaxCommands = 1
    Policy = "FCFS"
    MaxPid = 2
SPECIFICATION Spec
PROPERTY AllTerminate
CHECK_DEADLOCK FALSE
