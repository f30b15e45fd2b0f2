\* Two overlapping subscriptions (a central that resubscribes, or a second
\* one), a queue of two, and one packet more than fits into it.
SPECIFICATION FairSpec
CONSTANTS
    Subs = {s1, s2}
    Cap = 2
    MaxCalls = 2
INVARIANTS
    IInv
    FreshForSubscriber
    WrittenOnce
PROPERTIES
    FeedSpec
    QueueMoves
    SoleSubscriberServed
    CancelledReturns
\* Nobody has to subscribe or to call Notify any more.
CHECK_DEADLOCK FALSE
