\* recover0 after a defragment: the stale inode of a moved recovered file
\* is recovered under a name that exists, and its sectors stay marked.
CONSTANTS
    NumSectors = 10
    SectorSize = 3
    Chars <- MCChars
    HostInit <- MCHostInit
    Patterns <- MCPatterns
    Fills <- MCFills
SPECIFICATION MCSpec
INVARIANT NoLeakedSectors
CHECK_DEADLOCK FALSE
VIEW MCView
CONSTRAINT MCConstraint
