\* Two requests that may overlap, beside the refresher: every operation, on
\* shared and on distinct credentials.
SPECIFICATION Spec
CONSTANTS
    c1 = c1
    c2 = c2
    u1 = u1
    u2 = u2
    Channels = {c1, c2}
    Users = {u1, u2}
    Owner <- Owners
    Types = {"test", "corp_app"}
    Apps = {a, Malformed}
    Secrets = {x, y}
    Blank = Blank
    Malformed = Malformed
    Requests = {h1, h2}
    Loader = Loader
    NoRow = NoRow
    NoItem = NoItem
    MaxFailures = 1
    Inputs <- Credentials
SYMMETRY Symmetry
INVARIANTS
    NeededPresent
    NotBlankAfterRound
