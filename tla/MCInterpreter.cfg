\* A variable store of 3 entries for 3 names: set, print, echo, my_mkdir
\* and resetmem in any order, with every token-count error.
CONSTANTS
    VAR_MEM_SIZE = 3
    Lines <- MCLines
    Deref <- MCDeref
    Vars <- MCVars
    Words <- MCWords
SPECIFICATION Spec
CONSTRAINT MCConstraint
PROPERTY MemoryRefinement
CHECK_DEADLOCK FALSE
