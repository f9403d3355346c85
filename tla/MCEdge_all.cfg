SPECIFICATION FairSpec
CONSTANTS
    g1 = g1  g2 = g2  k1 = k1  k2 = k2  k3 = k3  beer = beer
    NoUser = NoUser
    NoVenue = NoVenue
    Users = {g1, g2}
    Venues = {v1}
    Items = {beer}
    Price <- MCPrice
    EdgeKeys = {k1, k2, k3}
    Bodies <- MCBodies
    EdgeVenue = v1
    EdgeDevice = "uuid"
    Credit <- MCCredit
    Slots = {r1, r2}
    FrameSlots = {f1, f2}
    BatchSize = 2
    MaxFaults = 2
INVARIANTS EInv SyncedIsBooked EdgeOverdraftBounded
PROPERTIES TransferSpec EventsReachCloud
CHECK_DEADLOCK FALSE
