\* Three requests, two of them at a time, from any users and sessions.
SPECIFICATION Spec
CONSTANTS
    Users = {root, a, b}
    Root = root
    Browsers = {b1, b2}
    Emails = {e}
    Providers = {"github"}
    ExtIds = {x}
    GitHubEmails = {None, e}
    Requests = {h1, h2, h3}
    None = None
    MaxActive = 2
    MapMaxSize = 1
SYMMETRY Symmetry
\* The requests end.
CHECK_DEADLOCK FALSE
INVARIANTS
    RolesHaveSource
    RootStays
    ExtIdsUnique
    ResetOnce
