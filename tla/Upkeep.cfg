SPECIFICATION UpkeepSpec
CONSTANTS
    Tickets = {k1}
    Techs = {i1, i2}
    Sessions = {p1, p2}
    MaxUnrated = 3
    MaxRows = 3
    Regimes = {"turns", "alone"}
    NoOne = NoOne
    Campaigns = {c1, c2}
    Items = {i1, i2}
    Clerks = {p1, p2}
    Offices = {o1, o2}
    NoCampaign = NoCampaign
    NoOffice = NoOffice
    CampaignRegimes = {"apart"}
SYMMETRY Symmetry
INVARIANTS
    WorkHasTechnician
    LocksAgree
PROPERTIES
    LifecycleSpec
CHECK_DEADLOCK FALSE
