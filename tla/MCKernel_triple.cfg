\* exec f4 f4 f4 on a store of 4 frames: the third initial load finds no
\* two free frames.
CONSTANTS
    TotalFrames = 4
    Files <- MCFiles
    Prog <- MCProg
    Commands <- TripleCommands
    MaxCommands = 1
    Policy = "RR"
    MaxPid = 3
SPECIFICATION Spec
INVARIANT NoUndefinedBehaviour
CHECK_DEADLOCK FALSE
