SPECIFICATION Spec
CONSTANTS
    morning = morning
    movie = movie
    press = press
    evening = evening
    door = door
    power = power
    NoContext = none
    Contexts = {morning, movie, press, evening}
    Parent <- Family
    ByUser = {press, evening}
    Fires <- FiresShared
    Entities = {door, power}
    MaxCauses = 2
    MaxChanges = 3
    MaxChangesPerEntity = 2
    MaxDepth = 4
    MaxHeard = 4
    MaxLog = 6
SYMMETRY Interchangeable
INVARIANTS RetentionSound LastHeard AttributedByLatest
