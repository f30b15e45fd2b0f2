\* A panel in watch mode and two keys.
SPECIFICATION FairSpec
CONSTANTS
    watchMode = TRUE
    MaxCrashes = 1
    MaxKeys = 2
INVARIANTS
    RefreshChains
PROPERTIES
    MessageGoes
    StartServes
    StoppedIsShown
\* The user may have quit.
CHECK_DEADLOCK FALSE
