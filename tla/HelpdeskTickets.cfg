SPECIFICATION Spec
CONSTANTS
    Tickets = {k1}
    Sessions = {p1, p2}
    t1 = t1
    t2 = t2
    Techs = {t1, t2}
    Serves <- Roles
    MaxUnrated = 3
    MaxRows = 3
    Regimes = {"turns", "overlap"}
    NoOne = NoOne
SYMMETRY Symmetry
INVARIANTS
    WorkHasOpenRow
    AssignmentAgrees
PROPERTY LifecycleSpec
CHECK_DEADLOCK FALSE
