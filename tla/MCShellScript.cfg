\* Simple commands and if and for statements nested two deep, over names
\* x and y: does get_next_token split every well-formed line as its
\* statement tree does?
CONSTANTS
    Lines <- WellFormedLines
    Deref <- MCDeref
    Numeral <- MCNumeral
    Trees <- MCTrees
    Scripts <- MCScripts
    OpenMax = 2
    ScriptTrees <- MCScriptTrees
SPECIFICATION Spec
PROPERTY ParsesAsGrammar
CHECK_DEADLOCK FALSE
CONSTRAINT MCConstraint
