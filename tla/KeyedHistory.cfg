\* Two scripts, four calls, a clock that may be set back once.
SPECIFICATION Spec
CONSTANTS
    Handlers = {h1, h2}
    Delay = 2
    MaxTime = 4
    MaxCalls = 4
    MaxJumps = 1
INVARIANTS
    ThrottleSpaced
    DebounceQuiet
    SamplesFolded
PROPERTIES
    RefusalJustified
\* No script needs to run any more.
CHECK_DEADLOCK FALSE
