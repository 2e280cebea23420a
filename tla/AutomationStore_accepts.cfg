SPECIFICATION ReviewSpec
CONSTANTS
    c1 = c1
    c2 = c2
    c3 = c3
    lamp = lamp
    blind = blind
    mine = mine
    Calls = {c1, c2, c3}
    Ids <- AllIds
    IdOf <- Accepts
    Existing = {mine}
    Admins = {c1, c2, c3}
    Confirmed = {c1, c2, c3}
    Cancellable = {}
    EditedIds = {}
    HasReload = TRUE
    NoCall = none
    Issues = {"i", "j"}
    Refreshers = {"r"}
    Triagers = {"t", "u"}
    BatchLimit = 1
    NamesBatch = TRUE
    MaxFound = 3
    MaxManual = 1
INVARIANTS OneWriter ReportedIsRunning OneTriage
PROPERTIES Answered ImplementsStore TriageRests
