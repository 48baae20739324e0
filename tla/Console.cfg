\* Two rows and one that is added, in pages of two, forms with three changes, settings with three.
\* A page on which the user does nothing more just stays.
CHECK_DEADLOCK FALSE
SPECIFICATION Spec
CONSTANTS
    ItemsPerPage = 2
    Matches = {1, 2}
    MaxId = 3
    MaxCalls = 3
    Types <- MCTypes
    Lists <- MCLists
    Words = {"", "w"}
    MaxEdits = 3
    MaxSubmits = 2
    Switches = {"RegisterEnabled"}
    Groups <- MCGroups
    Hidden = {"SMTPToken"}
    Required = {"SMTPPort", "SMTPToken"}
    Always = {"ServerAddress", "Notice"}
    Addresses = {"ServerAddress", "WeChatServerAddress"}
    Texts = {"", "u", "u/"}
    MaxTyped = 3
    InitialRows <- MCRows
    InitialId = 2
    InitialItems <- MCItems
    InitialOptions <- MCOptions
INVARIANTS
    TableTellsTruth
    
    ReopenedIsSame
    ShownIsSaved
