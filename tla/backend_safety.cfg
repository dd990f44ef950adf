CONSTANTS
    Parts = {"breaker", "pairing", "rows", "faults", "names", "calm", "schema", "presence"}
    Callers = {"c1", "c2", "c3", "c4", "c5", "c6"}
    FailureThreshold = 5
    None = None
    Nothing = Nothing
    Writers = {w1, w2}
    Three = {x1, x2, x3}
    Records = {ra, rb}
    Names = {na, nb}
    r1 = r1
    n1 = n1
    Tenants = {t1, t2}
    Proofs = {f1, f2}
    Codes = {p1, p2}
    Procs = {h1, h2}
    Text1 = Text1
    Text2 = Text2
    Absent = Absent
    Runners = {"a", "b"}
    NFiles = 3
    OnlineFiles = {3}
    Legacy = {1}
    Texts = {Text1, Text2}
    Releases <- ShippedReleases
    NoSum = NoSum
    MaxRuns = 3
    MaxErrors = 3
SPECIFICATION BackendSpec
SYMMETRY Symmetry
INVARIANTS
    BackendTypeOK
    HalfOpenHasProbe
    ClosedIffBelowThreshold
    OwnedHasCredential
    LedgerIsTrue
    DoneIsComplete
PROPERTIES
    ShadowReportsAreTrue
    TransferOnlyAfterUnpair
CHECK_DEADLOCK FALSE
