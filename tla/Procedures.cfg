SPECIFICATION ProceduresSpec
CONSTANTS
    LastPhase = 3
    Modalities = {{}, {2}}
    InitialDocs = {d1}
    Officers = {f1, f2}
    Student = student
    MaxPetitions = 4
    PageRegimes = {"fresh", "stale"}
    HeldSlots = {s1, s2}
    Students = {u1, u2}
    Tabs = {t1, t2}
    NoStudent = NoStudent
    NoHold = NoHold
    HoldRegimes = {"whole", "overlap"}
    Places = {l1, l2, l3}
    Sockets = {w1, w2}
    Events = {e1}
    Nobody = Nobody
    Nowhere = Nowhere
    SocketRegimes = {"single"}
    Entries = {c1, c2}
    BuiltInCodes = {c1}
    Servers = {p1, p2}
    Requests = {m1, m2}
    Namers = {n1}
    NoEntry = NoEntry
    NoCopy = NoCopy
    CatalogueRegimes = {"turns", "workers", "alone"}
    MaxLots = 3
    MaxUnits = 3
INVARIANTS
    NoPhaseJumped
    CurrentIsOpen
    KeysAgree
    SocketHoldsOne
    LoopIsFifo
    CatalogueServes
PROPERTY
    NamedIsServed
CHECK_DEADLOCK FALSE
