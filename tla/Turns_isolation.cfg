SPECIFICATION Spec
CONSTANTS
    t1 = t1
    t2 = t2
    prompt = prompt
    agent = agent
    chat = chat
    room = room
    agent1 = agent1
    run1 = run1
    msg = msg
    ask = ask
    NoId = none
    Ids <- AllIds
    IdOf <- Reported
    CallerIds = {t1, run1}
    Turns = {t1, t2}
    Jobs = {agent}
    Cancels = {cancel1}
    Overlapping = TRUE
    InOrder = FALSE
    NoFinal = TRUE
    NamesTurn = TRUE
    Abandons = TRUE
PROPERTY DroppedByItsOwnEnd
