SPECIFICATION Spec
CONSTANTS
    g1 = g1  g2 = g2  v1 = v1  v2 = v2  s1 = s1  bar = bar  boss = boss
    NoUser = NoUser
    NoVenue = NoVenue
    NoOrder = NoOrder
    Staff = {bar, boss}
    RoleOf <- MCRoleOf
    Users = {g1, g2}
    Venues = {v1}
    OrderIds = {o1}
    Sessions = {s1}
    OrderBodies <- OneVenueBodies
    Topups <- TopupEach
    Slots = {r1, r2, r3}
    Faults = TRUE
    MaxBatches = 2
SYMMETRY SlotSymmetry
INVARIANTS IInv PaidOrderHasDebit OneDebitPerOrder RefundSentOnce SpendWithinSales XPWithinSales OnlyPaymentsMints
PROPERTIES RowLifecycle SettlementSpec LedgerContract
CHECK_DEADLOCK FALSE
