\* Two frames, handled at the same time or one after the other.
SPECIFICATION ServerSpec
CONSTANTS
    Subs = {s1}
    Cap = 2
    MaxCalls = 0
    Workers = {w1, w2}
    ScriptDirs <- MCScriptDirs
    MaxReqs = 2
    MaxScript = 1
INVARIANTS
    OneReply
    AckFirst
PROPERTIES
    FramesHandled
\* No frame needs to arrive.
CHECK_DEADLOCK FALSE
