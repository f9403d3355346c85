SPECIFICATION Spec
CONSTANTS
    g1 = g1  v1 = v1  v2 = v2
    NoUser = NoUser
    NoVenue = NoVenue
    Users = {g1}
    Venues = {v1}
    Slots = {r1, r2}
    CheckinXP = 10
    MaxSessions = 2
    MaxCheckins = 2
SYMMETRY SlotSymmetry
INVARIANTS SInv OpenSessionsBounded SessionEventsTrue CloseAnnouncedOnce RewardsWithinCheckins LocalXPWithinGlobal
PROPERTIES BalancesUntouched SessionLifecycle
CHECK_DEADLOCK FALSE
