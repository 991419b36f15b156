\* Round robin (the policy exec and run use) on a store of 2 frames (6
\* slots), over two commands in a row, each a program of 1..9 lines followed
\* by one of 1..2 lines (the pairs whose initial loads fit): every load past
\* the first frames evicts, and a process's unexecuted lines are evicted
\* and their slots reused by its own later loads.
CONSTANTS
    TotalFrames = 2
    Files <- MCFiles
    Prog <- MCProg
    Commands <- LongShortCommands
    MaxCommands = 2
    Policy = "RR"
    MaxPid = 4
SPECIFICATION Spec
INVARIANT TypeOK
INVARIANT NoOrphanSlots
INVARIANT NoLostProcess
PROPERTY BatchRefinement
CHECK_DEADLOCK FALSE
