\* One script at a time.
SPECIFICATION FairSpec
CONSTANTS
    Handlers = {h1}
PROPERTIES
    ScriptsContained
CHECK_DEADLOCK FALSE
