SPECIFICATION AuthzSpec
CONSTANTS
    u1 = u1
    u2 = u2
    r = r
    q = q
    a1 = a1
    a2 = a2
    p1 = p1
    Users = {u1, u2}
    Roles = {r}
    Positions = {q}
    Apps = {a1, a2}
    PermsOf <- AppPerms
    Admins = {s1, s2}
    NoEntry = NoEntry
    GrantSeeds <- Seeds
    GrantChanges = 2
    CacheFills = 1
    CacheFaults = 1
    AuthzRegimes = {"turns", "overlap"}
INVARIANTS
    EntriesFollowGrants
PROPERTIES
    AuthzSettles
CHECK_DEADLOCK FALSE
