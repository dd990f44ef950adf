CONSTANTS
    Parts = {"single", "pairs", "uploads", "folders", "admin"}
    Calls = {m1, m2, m3}
    Kinds = {"create", "edit", "add", "screen", "list", "delete", "remove", "app"}
    Playlists = {First, x, y}
    Others = {x, y}
    First = First
    Media = {app, file}
    Apps = {app}
    NameOf <- FileNameOf
    Devices = {"d"}
    Keys = {"k"}
    MaxRevision = 2
    None = None
    app = app
    file = file
    Operators = {op1, op2}
    Admins = {admin}
    Contents = {c, d}
    Names = {n1, n2}
    Root = Root
    Nobody = Nobody
    MaxRequests = 6
    MaxMedia = 3
    admin = admin
    op1 = op1
    op2 = op2
    Uploads = 3
SPECIFICATION LibrarySpec
SYMMETRY Symmetry
INVARIANTS
    VersionNamesContent
    LibraryAtRest
    MediaStayReachable
PROPERTIES
    NobodyLosesWork
CHECK_DEADLOCK FALSE
