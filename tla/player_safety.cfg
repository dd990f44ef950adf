CONSTANTS
    Parts = {"session", "sync", "playback"}
    Tenants = {t1}
    Proofs = {f1, f2}
    Codes = {1, 2, 3, 4}
    Procs = {p1, p2}
    None = None
    GraceRetries = 1
    Stamps = {1, 2, 3, 4, 5, 6}
    MaxFaults = 1
    old = old
    new = new
    other = other
    Unassigned = none
    Payloads = {none, old, new}
    PlaylistOf <- Ids
    VersionOf <- Versions
    Content <- ContentOf
    Playlists <- Lists
    Absent = Absent
    Nothing = Nothing
    MaxSyncCrashes = 2
    MaxSyncFaults = 1
    MaxCommands = 0
    NoPath = NoPath
    MaxPlayCrashes = 1
    video = video
    page = page
    AlwaysOn = AlwaysOn
    Unreadable = Unreadable
SPECIFICATION PlayerSpec
SYMMETRY Symmetry
INVARIANTS
    TypeOK
    RowsMatchFiles
    ShowsCurrentPlaylist
PROPERTIES
    NeverUnpairedByFailure
CHECK_DEADLOCK FALSE
