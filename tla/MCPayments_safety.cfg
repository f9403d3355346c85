SPECIFICATION Spec
CONSTANTS
    g1 = g1  g2 = g2  m1 = m1  m2 = m2
    NoUser = NoUser
    NoVenue = NoVenue
    NoTopup = NoTopup
    Users = {g1, g2}
    Venues = {}
    TopupKeys = {k1, k2}
    Amounts = {1999}
    Charged <- MCCharged
    MaxIntents = 1
    MaxFaults = 1
    MaxPending = 1
    Offered = {"stripe", "mock"}
    MockIds = {m1, m2}
    MockId <- MCMockId
    KeysExpire = FALSE
    Slots = {r1, r2}
    Hooks = {h1, h2}
SYMMETRY AllSymmetry
INVARIANTS PInv OneCreditPerPayment CreditsWithinPayments AckedOnlyWhenCredited
CHECK_DEADLOCK FALSE
