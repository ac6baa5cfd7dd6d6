CONSTANTS
    c = c
    a = a
    b = b
    d = d
    None = None
    Nodes = {c, a, b, d}
    MaxWeight = 4
    Ctl = c
    Address = a
    Registrants = {a, b}
    Requesters = {c, d}
    Reports <- DiamondReports
    MaxReports = 4
SPECIFICATION Spec
CHECK_DEADLOCK FALSE
INVARIANTS
    LoopFree
    RoutesLead
    Stretch
    SearchSound
