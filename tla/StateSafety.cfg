\* Two scripts at a time, every kind of value, faults, any number of restarts.
SPECIFICATION Spec
CONSTANTS
    IntBits = 5
    FloatBits = 3
    MaxNesting = 1
    Missing = Missing
    Handlers = {h1, h2}
    Keys = {k1, v1}
    Volatile = {v1}
    Vals <- AllVals
    NotJson <- MCNotJson
    Mutable <- MCMutable
    Json <- MCJson
    MaxCalls = 3
    MaxFaults = 1
INVARIANTS
    IInv
    WrittenThrough
PROPERTIES
    RestartKeepsSaved
\* No script needs to run any more.
CHECK_DEADLOCK FALSE
