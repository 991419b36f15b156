\* AGING over every pair of programs: is the score of every ready node,
\* the one about to run included, lowered by one in each round?
CONSTANTS
    TotalFrames = 3
    Files <- MCFiles
    Prog <- MCProg
    Commands <- PairCommands
    MaxCommands = 1
    Policy = "AGING"
    MaxPid = 2
SPECIFICATION Spec
PROPERTY AgingAgesEveryReadyNode
CHECK_DEADLOCK FALSE
