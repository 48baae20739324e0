\* Pages of one row, two messages, three requests a visit.
SPECIFICATION Spec
CONSTANTS
    ItemsPerPage = 1
    Matches = {1}
    MaxId = 2
    MaxRequests = 3
INVARIANTS
    NoDuplicates
    DeletedStayAway
    LoadingEnds
    OneStream
