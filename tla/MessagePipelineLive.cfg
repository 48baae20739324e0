\* Liveness: two pushes, one sender, a queue of one, no database errors, at
\* most one crash, every crash followed by a restart.
SPECIFICATION FairSpec
CONSTANTS
    Requests = {r1, r2}
    Senders = {s1}
    QueueSize = 1
    Ids = {i1, i2}
    NoId = NoId
    MaxCrashes = 1
    MaxFaults = 0
PROPERTIES
    AsyncEventuallySettled
    HandlerEnds
