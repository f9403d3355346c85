SPECIFICATION Spec
CONSTANTS
    g1 = g1  g2 = g2  v1 = v1  v2 = v2  s1 = s1  bar = bar  boss = boss
    NoUser = NoUser
    NoVenue = NoVenue
    NoOrder = NoOrder
    Staff = {bar, boss}
    RoleOf <- MCRoleOf
    Users = {g1, g2}
    Venues = {v1}
    OrderIds = {o1}
    Sessions = {s1}
    OrderBodies <- OneBody
    Topups <- OneTopup
    Slots = {r1}
    Faults = FALSE
    MaxBatches = 1
INVARIANT VoidedPaidIsRefunded
CHECK_DEADLOCK FALSE
