SPECIFICATION Spec
CONSTANTS
    t1 = t1
    t2 = t2
    prompt = prompt
    agent = agent
    chat = chat
    room = room
    agent1 = agent1
    run1 = run1
    msg = msg
    ask = ask
    NoId = none
    Ids <- AllIds
    IdOf <- Reported
    CallerIds = {}
    Turns = {t1, t2}
    Jobs = {}
    Cancels = {cancel1}
    Overlapping = FALSE
    InOrder = TRUE
    NoFinal = FALSE
    NamesTurn = TRUE
    Abandons = FALSE
INVARIANTS TurnIsMarked
