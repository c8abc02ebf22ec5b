SPECIFICATION CoreSpec
CONSTANTS
    d1 = d1
    d2 = d2
    d3 = d3
    Depts = {d1, d2, d3}
    Editors = {e1, e2}
    NoDept = NoDept
    Unset = Unset
    DeptSeeds <- Seeds
    DeptChanges = 2
    DeptRegimes = {"turns", "overlap"}
    Browsers = {b1, b2}
    MaxBumps = 2
    MaxOutages = 2
    MaxFlushes = 1
    SessionRegimes = {"steady", "outage", "admin"}
    Runs = {r1}
    Workers = {w1, w2}
    NoRun = NoRun
    MaxCrashes = 2
    MaxFaults = 1
    MaxRetries = 1
    MaxRevokes = 2
INVARIANTS
    MapFollowsTree
    RevokedIsRefused
    InFlightHasMessage
PROPERTIES
    CyclesOnlyByActivation
    SwitchedOffIsOut
    RunsEnd
CHECK_DEADLOCK FALSE
