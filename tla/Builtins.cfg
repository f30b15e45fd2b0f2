\* Scripts of two calls, every builtin after every other.
SPECIFICATION Spec
CONSTANTS
    IntBits = 5
    FloatBits = 3
    MaxNesting = 6
    Inputs <- MCInputs
    Operands <- MCOperands
    Extras <- MCExtras
    Texts <- MCTexts
    Letters <- MCLetters
    Space = "space"
    LongestText = 12
    Words <- MCWords
    Indices <- MCIndices
    MaxCalls = 2
INVARIANTS
    PanicsExplained
    ArraysMeetDocs
    NumbersMeetDocs
    TextsDecide
    TextsMeetDocs
    JsonSettles
\* A script ends.
CHECK_DEADLOCK FALSE
