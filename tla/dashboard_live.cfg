CONSTANTS
    Parts = {"back", "removed", "ends", "short", "settled", "comes", "recovers"}
    Gone = Gone
    None = None
    Tenants = {tenant1}
    MaxItem = 2
    MaxNow = 0
    Skew = 0
    Slack = 1
    MaxCrashes = 0
    MaxFailures = 1
    MaxKept = 0
    MaxLost = 0
    MaxHides = 0
    MaxMoves = 0
    MaxEvents = 2
    cmd1 = cmd1
    cmd2 = cmd2
    Captures = {c1, c2}
    tenant1 = tenant1
    tenant2 = tenant2
    Attempts = 5
    ShortOutages = FALSE
    Edits = TRUE
    MaxOutages = 2
    MaxDrops = 2
    MaxOnlines = 2
    MaxFails = 2
SPECIFICATION DashboardFairSpec
PROPERTIES
    PagesCatchUp
CHECK_DEADLOCK FALSE
