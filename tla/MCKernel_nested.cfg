\* A program whose second line is "exec f2", run next to f4.
CONSTANTS
    TotalFrames = 4
    Files <- MCFiles
    Prog <- MCProg
    Commands <- NestedCommands
    MaxCommands = 1
    Policy = "RR"
    MaxPid = 3
SPECIFICATION Spec
INVARIANT NoSegfault
CHECK_DEADLOCK FALSE
