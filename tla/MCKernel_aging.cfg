\* AGING (scheduler_AGING: a sorted queue, one line per round, promotion of
\* the smallest score, ageing of the queue, re-insertion at the head) over
\* two commands in a row, each any pair of programs of 1..9 lines, on a
\* store of 2 frames: loads evict, and some pairs reach the NULL-pid fetch
\* (StepFault) after a short program that ran first has terminated.
CONSTANTS
    TotalFrames = 2
    Files <- MCFiles
    Prog <- MCProg
    Commands <- PairCommands
    MaxCommands = 2
    Policy = "AGING"
    MaxPid = 4
SPECIFICATION Spec
INVARIANT NoLostProcess
PROPERTY AllTerminate
CHECK_DEADLOCK FALSE
