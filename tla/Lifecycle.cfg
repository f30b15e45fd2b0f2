\* Two scripts at a time; nothing else is bounded.
SPECIFICATION FairSpec
CONSTANTS
    Handlers = {h1, h2}
PROPERTIES
    EndsExplained
    ShutdownEnds
    AdvertisesAgain
    StoreProcess
