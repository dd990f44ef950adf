CONSTANTS
    Parts = {"session", "attended", "ui"}
    Tenants = {t1}
    Proofs = {f1, f2}
    Codes = {1, 2, 3, 4}
    Procs = {p1}
    None = None
    GraceRetries = 1
    Stamps = {1, 2, 3, 4, 5, 6}
    MaxFaults = 2
    old = old
    new = new
    other = other
    Unassigned = none
    Payloads = {none, old, new}
    PlaylistOf <- Ids
    VersionOf <- Versions
    Content <- ContentOf
    Playlists <- Lists
    Absent = Absent
    Nothing = Nothing
    MaxSyncCrashes = 2
    MaxSyncFaults = 1
    MaxCommands = 0
    NoPath = NoPath
    MaxPlayCrashes = 1
    video = video
    page = page
    AlwaysOn = AlwaysOn
    Unreadable = Unreadable
SPECIFICATION ScreenFairSpec
PROPERTIES
    SessionSettles
    ScreenSettles
CHECK_DEADLOCK FALSE
