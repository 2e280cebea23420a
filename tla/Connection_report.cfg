SPECIFICATION Spec
CONSTANTS
    Setup = setup
    NoCaller = none
    Services = {s1}
    Attempts = {a1, a2}
    Cancellable = {s1}
    Answers = {"refused", "error", "ok"}
    Faults = {"version"}
    InitialDelay = 1
    MaxDelay = 2
CHECK_DEADLOCK FALSE
SYMMETRY Interchangeable
INVARIANTS SingleFlight HonestReport
