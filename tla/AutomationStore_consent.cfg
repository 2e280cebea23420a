SPECIFICATION Spec
CONSTANTS
    c1 = c1
    c2 = c2
    c3 = c3
    lamp = lamp
    blind = blind
    mine = mine
    Calls = {c1, c2, c3}
    Ids <- AllIds
    IdOf <- Accepts
    Existing = {}
    Admins = {c1, c2, c3}
    Confirmed = {c2, c3}
    Cancellable = {c2}
    EditedIds = {mine}
    HasReload = TRUE
    NoCall = none
INVARIANT OnlyByConsent
