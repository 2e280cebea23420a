SPECIFICATION Spec
CONSTANTS
    c1 = c1
    c2 = c2
    c3 = c3
    lamp = lamp
    blind = blind
    mine = mine
    Calls = {c1, c2, c3}
    Ids <- AllIds
    IdOf <- Accepts
    Existing = {mine}
    Admins = {c1, c2, c3}
    Confirmed = {c1, c2, c3}
    Cancellable = {c1}
    EditedIds = {}
    HasReload = TRUE
    NoCall = none
PROPERTIES NothingLost
