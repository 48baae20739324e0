\* Expiration is the longest duration; seven seconds give the sweep time to
\* delete a key and the key time to fill up again.
SPECIFICATION Spec
CONSTANTS
    k1 = k1
    k2 = k2
    Keys = {k1, k2}
    MaxRequestNum <- Limits
    Duration <- Durations
    Expiration = 3
    MaxTime = 7
INVARIANTS
    WindowBound
    IdleKeysForgotten
PROPERTIES
    ImplementsWindow
