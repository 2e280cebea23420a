SPECIFICATION Spec
CONSTANTS
    Setup = setup
    NoCaller = none
    Services = {s1}
    Attempts = {a1, a2}
    Cancellable = {}
    Answers = {"refused", "error", "ok"}
    Faults = {}
    InitialDelay = 1
    MaxDelay = 4
CHECK_DEADLOCK FALSE
INVARIANT WatchdogArmed
