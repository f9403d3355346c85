SPECIFICATION Spec
CONSTANTS
    g1 = g1  g2 = g2  v1 = v1  v2 = v2  s1 = s1  bar = bar  boss = boss
    NoUser = NoUser
    NoVenue = NoVenue
    NoOrder = NoOrder
    Staff = {bar, boss}
    RoleOf <- MCRoleOf
    Users = {g1}
    Venues = {v1, v2}
    OrderIds = {o1, o2}
    Sessions = {s1}
    OrderBodies <- TwoVenueBodies
    Topups <- TwoTopups
    Slots = {r1, r2}
    Faults = TRUE
    MaxBatches = 1
SYMMETRY BothSymmetry
INVARIANTS OverdraftBounded
CHECK_DEADLOCK FALSE
