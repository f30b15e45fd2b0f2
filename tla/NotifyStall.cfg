\* Two subscriptions: a central that resubscribes, or a second central.
SPECIFICATION FairSpec
CONSTANTS
    Subs = {s1, s2}
    Cap = 2
    MaxCalls = 2
PROPERTIES
    HelperStarts
CHECK_DEADLOCK FALSE
