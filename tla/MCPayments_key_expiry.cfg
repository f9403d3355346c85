SPECIFICATION FairSpec
CONSTANTS
    g1 = g1  g2 = g2  m1 = m1  m2 = m2
    NoUser = NoUser
    NoVenue = NoVenue
    NoTopup = NoTopup
    Users = {g1}
    Venues = {}
    TopupKeys = {k1}
    Amounts = {200}
    Charged <- MCCharged
    MaxIntents = 2
    MaxFaults = 0
    MaxPending = 1
    Offered = {"stripe"}
    MockIds = {m1}
    MockId <- MCMockId
    KeysExpire = TRUE
    Slots = {r1}
    Hooks = {h1}
PROPERTY PaidIsCredited
CHECK_DEADLOCK FALSE
