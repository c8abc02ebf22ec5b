SPECIFICATION Spec
CONSTANTS
    Students = {u1, u2}
    Garments = {g1, g2}
    s1 = s1
    s2 = s2
    Slots = {s1, s2}
    Sessions = {p1, p2}
    Seats <- SeatsOf
    MaxActive = 1
    MaxAppts = 3
    Regimes = {"turns", "codes"}
SYMMETRY Symmetry
INVARIANTS
    SeatsAgree
    CatalogueAgrees
PROPERTY HandoutSpec
CHECK_DEADLOCK FALSE
