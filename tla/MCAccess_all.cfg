SPECIFICATION FairSpec
CONSTANTS
    d1 = d1
    NoUser = NoUser
    NoSession = NoSession
    Users = {u1}
    Assignments = {"bartender", "guest"}
    Devices = {d1}
    DeviceRole <- MCDeviceRole
    NewStatuses = {"active", "revoked"}
    TokenIds = {t1}
    SessionIds = {s1, s2}
    Slots = {r1, r2}
    MaxKeys = 2
INVARIANTS AInv LogoutForgets
PROPERTIES ForgottenSessionFades StaleAuthorityFades RotationTakesHold
CHECK_DEADLOCK FALSE
