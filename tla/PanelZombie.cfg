\* The panel starts a server, and one key stops it.
SPECIFICATION FairSpec
CONSTANTS
    watchMode = TRUE
    MaxCrashes = 0
    MaxKeys = 1
PROPERTIES
    StatusShown
CHECK_DEADLOCK FALSE
