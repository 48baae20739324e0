\* Two pushes, each of which may name one of the two ids, the two senders of
\* the code, a queue of one: blocked handlers, a blocked loader, two crashes
\* and two database errors.
SPECIFICATION Spec
CONSTANTS
    Requests = {r1, r2}
    Senders = {s1, s2}
    QueueSize = 1
    Ids = {i1, i2}
    NoId = NoId
    MaxCrashes = 2
    MaxFaults = 2
SYMMETRY Symmetry
INVARIANTS
    TypeOK
    AsyncPendingCovered
    SyncSentAtMostOnce
    SendsAccounted
    AnswerMatchesRow
PROPERTIES
    SettledStaysSettled
