CONSTANTS
    None = None
    Commands = {c1}
    Sockets = {s1, s2}
    Procs = {p1, p2}
    MaxAttempts = 2
    Expirable = {c1}
    HasSettings = FALSE
    MaxFaults = 1
    CommandIds = {c1}
    Outcomes = {"COMPLETED"}
    Capacity = 50
    MaxInFlight = 2
    Parts = {"path", "client", "faulty"}
    OneSocket = {s1}
    MaxPackets = 1
SPECIFICATION CommandsSpec
SYMMETRY Symmetry
INVARIANTS
    TypeOK
    ResultNeverLost
    NoStrandedCommand
    QueuedIsClaimable
    SingleDispatcher
    CreatedOnce
PROPERTIES
    GivenUpOnlyWhenExhausted
CHECK_DEADLOCK FALSE
