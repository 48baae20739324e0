SPECIFICATION FairSpec
CONSTANTS
    Clients = {c1, c2}
    Pushes = {p1}
    None = None
\* Goroutines do end up blocked or finished: stopping is not an error.
CHECK_DEADLOCK FALSE
INVARIANTS
    EntryHasWriter
PROPERTIES
    
    WaitersServed
    BrokenClientLeaves
