SPECIFICATION Spec
CONSTANTS
    g1 = g1  g2 = g2  v1 = v1  k1 = k1  k2 = k2  k3 = k3  e1 = e1
    NoUser = NoUser
    NoVenue = NoVenue
    NoTicket = NoTicket
    BadEvent = BadEvent
    Users = {g1, g2}
    Venues = {v1}
    TicketKeys = {k1, k2, k3}
    Bodies <- MCBodies
    Slots = {r1, r2, r3}
SYMMETRY SlotSymmetry
INVARIANTS TInv TicketIsPaid AdmitsOnce
PROPERTIES TicketLifecycle
CHECK_DEADLOCK FALSE
