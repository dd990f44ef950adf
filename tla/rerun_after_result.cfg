CONSTANTS
    None = None
    Commands = {c1}
    Sockets = {s1, s2}
    Procs = {p1, p2}
    MaxAttempts = 2
    Expirable = {}
    HasSettings = FALSE
    MaxFaults = 0
    CommandIds = {c1}
    Outcomes = {"COMPLETED"}
    Capacity = 50
    MaxInFlight = 2
SPECIFICATION Spec
PROPERTY NoRerunAfterResult
CHECK_DEADLOCK FALSE
