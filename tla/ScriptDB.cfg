\* Two scripts, four calls, a clock that may be set back once.
SPECIFICATION Spec
CONSTANTS
    Handlers = {h1, h2}
    Topics <- MCTopics
    Paths <- MCPaths
    Texts = {empty, text}
    Empty = empty
    Undefined = undefined
    MaxTime = 2
    MaxCalls = 4
    MaxJumps = 1
INVARIANTS
    OnlyCollisionsLose
    LogsNewestFirst
    NamespacesSeparate
\* No script needs to run any more.
CHECK_DEADLOCK FALSE
