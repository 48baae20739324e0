SPECIFICATION FairStreamSpec
CONSTANTS
    a = a  b = b
    p1 = p1  p2 = p2  p3 = p3
    Users = {a, b}
    Pages = {p1, p2, p3}
    Messages = {m1, m2}
    PageUser <- MCPageUser
    MessageUser <- MCMessageUser
    BufferSize = 1
    None = None
\* Streams without messages wait for ever: stopping is not an error.
CHECK_DEADLOCK FALSE
INVARIANTS
    NoSendOnClosed
PROPERTIES
    SentIsShown
    SyncEndsWhileOpen
