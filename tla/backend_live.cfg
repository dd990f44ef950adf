CONSTANTS
    Parts = {"breaker", "presence", "outage", "schema"}
    Callers = {"c1", "c2", "c3"}
    FailureThreshold = 2
    None = None
    Nothing = Nothing
    Writers = {w1}
    Three = {x1, x2, x3}
    Records = {ra, rb}
    Names = {na, nb}
    r1 = r1
    n1 = n1
    Tenants = {t1, t2}
    Proofs = {f1, f2}
    Codes = {p1, p2}
    Procs = {h1, h2}
    Text1 = Text1
    Text2 = Text2
    Absent = Absent
    Runners = {"a", "b"}
    NFiles = 3
    OnlineFiles = {3}
    Legacy = {1}
    Texts = {Text1, Text2}
    Releases <- ShippedReleases
    NoSum = NoSum
    MaxRuns = 3
    MaxErrors = 1
SPECIFICATION BackendFairSpec
PROPERTIES
    RecoversWithDatabase
    BackendSettles
    NobodyWaits
CHECK_DEADLOCK FALSE
