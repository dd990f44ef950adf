CONSTANTS
    Parts = {"verdicts", "reading", "worse", "accounts", "single", "heal", "once", "form"}
    Users = {u1, u2}
    Screens = {s1}
    Root = root
    Assets = {a1}
    Nodes = {n1}
    None = None
    NoName = NoName
    Blank = Blank
    Nothing = Nothing
    p = p
    q = q
SPECIFICATION Spec
SYMMETRY Symmetry
INVARIANTS
    ScreensFollow
PROPERTIES
    VerdictsAgree
    TenantHoldsTogether
CHECK_DEADLOCK FALSE
