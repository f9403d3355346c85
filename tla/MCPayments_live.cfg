SPECIFICATION FairSpec
CONSTANTS
    g1 = g1  g2 = g2  m1 = m1  m2 = m2
    NoUser = NoUser
    NoVenue = NoVenue
    NoTopup = NoTopup
    Users = {g1}
    Venues = {}
    TopupKeys = {k1}
    Amounts = {150}
    Charged <- MCCharged
    MaxIntents = 2
    MaxFaults = 1
    MaxPending = 1
    Offered = {"stripe", "mock"}
    MockIds = {m1}
    MockId <- MCMockId
    KeysExpire = TRUE
    Slots = {r1}
    Hooks = {h1, h2}
INVARIANT ConfirmedByPaymentOrMock
PROPERTIES StoredIsCredited TopupNeverRewritten
CHECK_DEADLOCK FALSE
