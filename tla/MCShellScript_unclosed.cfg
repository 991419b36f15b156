\* The well-formed lines and a for statement whose done is missing: does
\* interpreter() stay within the tokens it was given?
CONSTANTS
    Lines <- LinesWithUnclosedFor
    Deref <- MCDeref
    Numeral <- MCNumeral
    Trees <- MCTrees
    Scripts <- MCScripts
    OpenMax = 2
    ScriptTrees <- MCScriptTrees
SPECIFICATION Spec
INVARIANT NoUndefinedBehaviour
CHECK_DEADLOCK FALSE
CONSTRAINT MCConstraint
