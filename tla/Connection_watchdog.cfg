SPECIFICATION FairSpec
CONSTANTS
    Setup = setup
    NoCaller = none
    Services = {s1}
    Attempts = {a1, a2}
    Cancellable = {}
    Answers = {"refused", "ok"}
    Faults = {"surface"}
    InitialDelay = 1
    MaxDelay = 4
CHECK_DEADLOCK FALSE
INVARIANTS WatchdogArmed
PROPERTIES LeftoversEnd Recovers Resyncs ImplementsReport
