---------------------------- MODULE AccessProofs -----------------------------
(***************************************************************************)
(* Theorems about Access for any number of users, devices, tokens and      *)
(* sessions, whatever is requested side by side, wherever a handler ends   *)
(* and whatever expires.                                                   *)
(***************************************************************************)
EXTENDS Access, TLAPS

USE ProfilesAssumption, DevicesAssumption, AccessAssumption

\* A new token takes a free id.
LEMMA MintEffect ==
    ASSUME TypeOK, NEW uid \in Uids, NEW role \in UserRoles,
           NEW s \in SessionIds \cup {NoSession}, Mint(uid, role, s)
    PROVE  /\ tokens' \in [TokenIds -> Claims \cup {NoToken}]
           /\ \A t \in TokenIds :
                 \/ tokens'[t] = tokens[t]
                 \/ /\ tokens'[t].uid = uid /\ tokens'[t].role = role
                    /\ tokens'[t].session_id = s
<1>. DEFINE new == [uid |-> uid, role |-> role, session_id |-> s, key |-> auth_key]
<1>1. PICK t \in TokenIds : tokens' = [tokens EXCEPT ![t] = new]
  BY DEF Mint
<1>2. new \in Claims /\ new.uid = uid /\ new.role = role /\ new.session_id = s
  BY DEF TypeOK, Claims
<1>3. tokens \in [TokenIds -> Claims \cup {NoToken}]
  BY DEF TypeOK
<1>. HIDE DEF new
<1>. QED  BY <1>1, <1>2, <1>3

\* What a step does to the tokens.
TokensStep ==
    /\ tokens' \in [TokenIds -> Claims \cup {NoToken}]
    /\ \A t \in TokenIds :
          \/ tokens'[t] = tokens[t]
          \/ tokens'[t] = NoToken
          \/ \E r \in Slots :
                /\ slots[r].pc \in {"issue", "mint", "pin"}
                /\ tokens'[t].uid = slots[r].uid /\ tokens'[t].role = slots[r].role
                /\ \/ /\ slots[r].pc = "issue" /\ IssueAccess(r)
                      /\ Unknown(tokens'[t].session_id)
                      /\ tokens'[t].session_id \in SessionIds
                   \/ slots[r].pc = "mint" /\ tokens'[t].session_id = slots[r].session
                   \/ slots[r].pc = "pin" /\ tokens'[t].session_id = NoSession

\* Whom a request was granted a token for has a uid and a role.
LEMMA GrantTyped ==
    ASSUME NEW uid, NEW role, NEW s, GrantedTo(uid, role, s)
    PROVE  uid \in Uids /\ role \in UserRoles
BY DEF GrantedTo, Uids, StaffRole, UserRoles

LEMMA TokensStepped ==
    ASSUME AInv, [Next]_vars
    PROVE  TokensStep
<1>0. TypeOK /\ SlotsKnow /\ tokens \in [TokenIds -> Claims \cup {NoToken}]
  BY DEF AInv, TypeOK
<1>1. ASSUME NEW r \in Slots, IssueAccess(r)
      PROVE  TokensStep
  <2>1. PICK s \in SessionIds : Unknown(s) /\ Mint(slots[r].uid, slots[r].role, s)
    BY <1>1 DEF IssueAccess
  <2>2. slots[r].uid \in Uids /\ slots[r].role \in UserRoles /\ slots[r].pc = "issue"
    BY <1>0, <1>1, GrantTyped DEF SlotsKnow, IssueAccess
  <2>. QED  BY <1>1, <2>1, <2>2, <1>0, MintEffect DEF TokensStep
<1>2. ASSUME NEW r \in Slots, MintRefreshed(r)
      PROVE  TokensStep
  <2>1. slots[r].pc = "mint" /\ Mint(slots[r].uid, slots[r].role, slots[r].session)
    BY <1>2 DEF MintRefreshed
  <2>2. slots[r].uid \in Uids /\ slots[r].role \in UserRoles /\ slots[r].session \in SessionIds
    BY <1>0, <2>1, GrantTyped DEF SlotsKnow
  <2>. QED  BY <2>1, <2>2, <1>0, MintEffect DEF TokensStep
<1>3. ASSUME NEW r \in Slots, MintStaff(r)
      PROVE  TokensStep
  <2>1. slots[r].pc = "pin" /\ Mint(slots[r].uid, slots[r].role, NoSession)
    BY <1>3 DEF MintStaff
  <2>2. slots[r].uid \in Uids /\ slots[r].role \in UserRoles
    BY <1>0, <2>1, GrantTyped DEF SlotsKnow
  <2>. QED  BY <2>1, <2>2, <1>0, MintEffect DEF TokensStep
<1>4. ASSUME NEW t \in TokenIds, tokens' = [tokens EXCEPT ![t] = NoToken]
      PROVE  TokensStep
  BY <1>0, <1>4 DEF TokensStep
<1>5. CASE tokens' = tokens
  BY <1>0, <1>5 DEF TokensStep
<1>. QED
  BY <1>1, <1>2, <1>3, <1>4, <1>5
     DEF Next, vars, Register, Login, StartScan, StartRefresh, ForgetOne, DeleteKey,
         PINLogin, IssueRefresh, FetchUser, StartLogout, EndScan, Abandon, ExpireToken,
         ExpireRefresh, RotateKey, RefreshJWKS, ManageUser, ManageDevice

\* What a step does to the refresh tokens.
RefreshStep ==
    /\ refresh' \in [SessionIds -> Users \cup {NoUser}]
    /\ \A s \in SessionIds :
          \/ refresh'[s] \in {refresh[s], NoUser}
          \/ \E r \in Slots : /\ slots[r].pc = "store" /\ slots'[r] = Idle
                              /\ slots[r].session = s /\ slots[r].uid = refresh'[s]

LEMMA RefreshStepped ==
    ASSUME AInv, [Next]_vars
    PROVE  RefreshStep
<1>0. SlotsKnow /\ refresh \in [SessionIds -> Users \cup {NoUser}]
  BY DEF AInv, TypeOK
<1>1. ASSUME NEW r \in Slots, IssueRefresh(r)
      PROVE  RefreshStep
  <2>1. /\ slots[r].pc = "store"
        /\ refresh' = [refresh EXCEPT ![slots[r].session] = slots[r].uid]
        /\ slots' = [slots EXCEPT ![r] = Idle] /\ slots \in [Slots -> Request]
    BY <1>1 DEF IssueRefresh, AInv, TypeOK
  <2>2. slots[r].session \in SessionIds /\ slots[r].uid \in Users
    BY <1>0, <2>1 DEF SlotsKnow
  <2>. QED  BY <1>0, <2>1, <2>2 DEF RefreshStep
<1>2. ASSUME NEW s \in SessionIds, refresh' = [refresh EXCEPT ![s] = NoUser]
      PROVE  RefreshStep
  BY <1>0, <1>2 DEF RefreshStep
<1>3. CASE refresh' = refresh
  BY <1>0, <1>3 DEF RefreshStep
<1>. QED
  BY <1>1, <1>2, <1>3
     DEF Next, vars, Register, Login, StartScan, StartRefresh, ForgetOne, DeleteKey,
         PINLogin, IssueAccess, FetchUser, MintRefreshed, MintStaff, StartLogout, EndScan,
         Abandon, ExpireToken, ExpireRefresh, RotateKey, RefreshJWKS, ManageUser,
         ManageDevice

Pcs == {"idle", "issue", "store", "fetch", "mint", "logout", "scan", "pin"}

\* A request goes on to its next call, and the others stay where they are.
LEMMA GotoEffect ==
    ASSUME TypeOK, NEW r \in Slots, NEW pc \in Pcs, NEW uid \in Uids \cup {NoUser},
           NEW role \in UserRoles \cup {"none"}, NEW s \in SessionIds \cup {NoSession},
           Goto(r, pc, uid, role, s)
    PROVE  /\ slots' \in [Slots -> Request]
           /\ slots'[r].pc = pc /\ slots'[r].uid = uid /\ slots'[r].role = role
           /\ slots'[r].session = s /\ slots'[r].todo = {}
           /\ \A q \in Slots : q # r => slots'[q] = slots[q]
<1>. DEFINE new == [pc |-> pc, uid |-> uid, role |-> role, session |-> s, todo |-> {}]
<1>1. slots' = [slots EXCEPT ![r] = new] /\ slots \in [Slots -> Request]
  BY DEF Goto, TypeOK
<1>2. /\ new \in Request /\ new.pc = pc /\ new.uid = uid /\ new.role = role
      /\ new.session = s /\ new.todo = {}
  BY DEF Request, Pcs
<1>. HIDE DEF new
<1>. QED  BY <1>1, <1>2

\* What a step does to the request of a goroutine.
SlotStep(r) ==
    \/ slots'[r] = slots[r]
    \/ /\ slots'[r].todo = {} /\ slots'[r].session = NoSession
       /\ \/ slots'[r].pc \in {"idle", "logout"}
          \/ /\ slots'[r].pc = "issue" /\ slots'[r].role \in UserRoles
             /\ slots'[r].uid \in Users /\ users'[slots'[r].uid] # "none"
          \/ /\ slots'[r].pc = "pin"
             /\ \E d \in Devices : /\ slots'[r].uid = Staff(d) /\ Active(d)
                                   /\ slots'[r].role = StaffRole(d)
    \/ /\ slots'[r].pc = "scan" /\ slots'[r].session = NoSession
       /\ \A s \in slots'[r].todo : refresh[s] # NoUser
    \/ /\ slots'[r].todo = {} /\ slots'[r].session \in SessionIds
       /\ \/ /\ slots'[r].pc = "fetch" /\ slots'[r].uid \in Users
             /\ slots'[r].uid = refresh[slots'[r].session]
          \/ /\ slots[r].pc = "fetch" /\ slots'[r].pc = "mint"
             /\ slots'[r].session = slots[r].session /\ slots'[r].uid = slots[r].uid
             /\ slots'[r].role = users[slots[r].uid]
          \/ /\ slots[r].pc = "issue" /\ slots'[r].pc = "store"
             /\ slots'[r].uid = slots[r].uid /\ IssueAccess(r)
             /\ Unknown(slots'[r].session)
             /\ forgotten' = forgotten \ {slots'[r].session} /\ refresh' = refresh
             /\ \A q \in Slots : q # r => slots'[q] = slots[q]

SlotsStep == slots' \in [Slots -> Request] /\ \A r \in Slots : SlotStep(r)

\* The request of r changes and the others do not.
LEMMA OneSlotSteps ==
    ASSUME TypeOK, NEW r \in Slots, SlotStep(r), slots' \in [Slots -> Request],
           \A q \in Slots : q # r => slots'[q] = slots[q]
    PROVE  SlotsStep
BY DEF SlotsStep, SlotStep

\* A request ends.
LEMMA IdleStep ==
    ASSUME TypeOK, NEW r \in Slots, slots' = [slots EXCEPT ![r] = Idle]
    PROVE  SlotsStep
<1>1. Idle \in Request /\ Idle.pc = "idle" /\ Idle.session = NoSession /\ Idle.todo = {}
  BY DEF Idle, Request
<1>2. slots \in [Slots -> Request]
  BY DEF TypeOK
<1>3. slots' \in [Slots -> Request] /\ slots'[r] = Idle
  BY <1>1, <1>2
<1>4. \A q \in Slots : q # r => slots'[q] = slots[q]
  BY <1>2
<1>. QED  BY <1>1, <1>3, <1>4, OneSlotSteps DEF SlotStep

LEMMA SlotsStepped ==
    ASSUME AInv, [Next]_vars
    PROVE  SlotsStep
<1>0. TypeOK /\ SlotsKnow /\ slots \in [Slots -> Request]
  BY DEF AInv, TypeOK
<1>1. ASSUME NEW r \in Slots, NEW u \in Users, Register(r, u)
      PROVE  SlotsStep
  <2>1. Goto(r, "issue", u, "guest", NoSession) /\ CreateUser(u)
    BY <1>1 DEF Register
  <2>2. users \in [Users -> UserRoles \cup {"none"}]
    BY <1>0 DEF TypeOK, ProfilesTypeOK
  <2>3. users'[u] # "none"
    BY <2>1, <2>2 DEF CreateUser, Registered
  <2>4. "issue" \in Pcs /\ "guest" \in UserRoles /\ u \in Uids
    BY DEF Pcs, UserRoles, Uids
  <2>5. /\ slots' \in [Slots -> Request] /\ \A q \in Slots : q # r => slots'[q] = slots[q]
        /\ slots'[r].pc = "issue" /\ slots'[r].uid = u
        /\ slots'[r].role = "guest" /\ slots'[r].session = NoSession /\ slots'[r].todo = {}
    BY <2>1, <2>3, <2>4, <1>0, GotoEffect
  <2>6. SlotStep(r)
    BY <2>1, <2>3, <2>4, <2>5 DEF SlotStep
  <2>. QED  BY <2>5, <2>6, <1>0, OneSlotSteps
<1>2. ASSUME NEW r \in Slots, NEW u \in Users, Login(r, u)
      PROVE  SlotsStep
  <2>1. Goto(r, "issue", u, users[u], NoSession) /\ Registered(u) /\ users' = users
    BY <1>2 DEF Login
  <2>2. users[u] \in UserRoles /\ users'[u] # "none"
    BY <1>0, <2>1 DEF TypeOK, ProfilesTypeOK, Registered
  <2>3. "issue" \in Pcs /\ u \in Uids
    BY DEF Pcs, Uids
  <2>4. /\ slots' \in [Slots -> Request] /\ \A q \in Slots : q # r => slots'[q] = slots[q]
        /\ slots'[r].pc = "issue" /\ slots'[r].uid = u
        /\ slots'[r].role = users[u] /\ slots'[r].session = NoSession /\ slots'[r].todo = {}
    BY <2>1, <2>2, <2>3, <1>0, GotoEffect
  <2>5. SlotStep(r)
    BY <2>1, <2>2, <2>3, <2>4 DEF SlotStep
  <2>. QED  BY <2>4, <2>5, <1>0, OneSlotSteps
<1>3. ASSUME NEW r \in Slots, IssueAccess(r)
      PROVE  SlotsStep
  <2>1. PICK s \in SessionIds : /\ Unknown(s)
                                /\ Goto(r, "store", slots[r].uid, "none", s)
                                /\ forgotten' = forgotten \ {s}
    BY <1>3 DEF IssueAccess
  <2>2. slots[r].pc = "issue" /\ refresh' = refresh
    BY <1>3 DEF IssueAccess
  <2>3. slots[r].uid \in Uids /\ "store" \in Pcs
    BY <1>0, <2>2 DEF SlotsKnow, Pcs, Uids
  <2>4. /\ slots' \in [Slots -> Request] /\ \A q \in Slots : q # r => slots'[q] = slots[q]
        /\ slots'[r].pc = "store" /\ slots'[r].uid = slots[r].uid
        /\ slots'[r].role = "none" /\ slots'[r].session = s /\ slots'[r].todo = {}
    BY <1>3, <2>1, <2>2, <2>3, <1>0, GotoEffect
  <2>5. SlotStep(r)
    BY <1>3, <2>1, <2>2, <2>3, <2>4 DEF SlotStep
  <2>. QED  BY <2>4, <2>5, <1>0, OneSlotSteps
<1>4. ASSUME NEW r \in Slots, NEW s \in SessionIds, StartRefresh(r, s)
      PROVE  SlotsStep
  <2>1. Goto(r, "fetch", refresh[s], "none", s) /\ refresh[s] # NoUser
    BY <1>4 DEF StartRefresh, Refreshable
  <2>2. refresh[s] \in Users
    BY <1>0, <2>1 DEF TypeOK
  <2>3. refresh[s] \in Uids /\ "fetch" \in Pcs
    BY <2>2 DEF Pcs, Uids
  <2>4. /\ slots' \in [Slots -> Request] /\ \A q \in Slots : q # r => slots'[q] = slots[q]
        /\ slots'[r].pc = "fetch" /\ slots'[r].uid = refresh[s]
        /\ slots'[r].role = "none" /\ slots'[r].session = s /\ slots'[r].todo = {}
    BY <2>1, <2>2, <2>3, <1>0, GotoEffect
  <2>5. SlotStep(r)
    BY <2>1, <2>2, <2>3, <2>4 DEF SlotStep
  <2>. QED  BY <2>4, <2>5, <1>0, OneSlotSteps
<1>5. ASSUME NEW r \in Slots, FetchUser(r)
      PROVE  SlotsStep
  <2>1. /\ slots[r].pc = "fetch"
        /\ Goto(r, "mint", slots[r].uid, users[slots[r].uid], slots[r].session)
    BY <1>5 DEF FetchUser
  <2>2. slots[r].uid \in Users /\ slots[r].session \in SessionIds
    BY <1>0, <2>1 DEF SlotsKnow
  <2>3. /\ users[slots[r].uid] \in UserRoles \cup {"none"}
        /\ slots[r].uid \in Uids /\ "mint" \in Pcs
    BY <1>0, <2>2 DEF TypeOK, ProfilesTypeOK, Pcs, Uids
  <2>4. /\ slots' \in [Slots -> Request] /\ \A q \in Slots : q # r => slots'[q] = slots[q]
        /\ slots'[r].pc = "mint" /\ slots'[r].uid = slots[r].uid
        /\ slots'[r].role = users[slots[r].uid] /\ slots'[r].session = slots[r].session /\ slots'[r].todo = {}
    BY <2>1, <2>2, <2>3, <1>0, GotoEffect
  <2>5. SlotStep(r)
    BY <2>1, <2>2, <2>3, <2>4 DEF SlotStep
  <2>. QED  BY <2>4, <2>5, <1>0, OneSlotSteps
<1>6. ASSUME NEW r \in Slots, StartLogout(r)
      PROVE  SlotsStep
  <2>1. Goto(r, "logout", NoUser, "none", NoSession) /\ "logout" \in Pcs
    BY <1>6 DEF StartLogout, Pcs
  <2>2. /\ slots' \in [Slots -> Request] /\ \A q \in Slots : q # r => slots'[q] = slots[q]
        /\ slots'[r].pc = "logout" /\ slots'[r].uid = NoUser
        /\ slots'[r].role = "none" /\ slots'[r].session = NoSession /\ slots'[r].todo = {}
    BY <2>1, <1>0, GotoEffect
  <2>3. SlotStep(r)
    BY <2>1, <2>2 DEF SlotStep
  <2>. QED  BY <2>2, <2>3, <1>0, OneSlotSteps
<1>7. ASSUME NEW r \in Slots, NEW u \in Users, StartScan(r, u)
      PROVE  SlotsStep
  <2>. DEFINE new == [Idle EXCEPT !.pc = "scan", !.uid = u, !.todo = Stored(u)]
  <2>1. /\ new \in Request /\ new.pc = "scan" /\ new.session = NoSession
        /\ \A s \in new.todo : refresh[s] # NoUser
    BY DEF Idle, Request, Uids, Stored
  <2>2. slots' = [slots EXCEPT ![r] = new]
    BY <1>7 DEF StartScan
  <2>. HIDE DEF new
  <2>. QED  BY <2>1, <2>2, <1>0, OneSlotSteps DEF SlotStep
<1>8. ASSUME NEW r \in Slots, NEW d \in Devices, PINLogin(r, d)
      PROVE  SlotsStep
  <2>1. Goto(r, "pin", Staff(d), StaffRole(d), NoSession) /\ Active(d)
    BY <1>8 DEF PINLogin
  <2>2. Staff(d) \in Uids /\ StaffRole(d) \in UserRoles /\ "pin" \in Pcs
    BY DEF Uids, StaffRole, UserRoles, Pcs
  <2>3. /\ slots' \in [Slots -> Request] /\ \A q \in Slots : q # r => slots'[q] = slots[q]
        /\ slots'[r].pc = "pin" /\ slots'[r].uid = Staff(d)
        /\ slots'[r].role = StaffRole(d) /\ slots'[r].session = NoSession /\ slots'[r].todo = {}
    BY <2>1, <2>2, <1>0, GotoEffect
  <2>4. SlotStep(r)
    BY <2>1, <2>2, <2>3 DEF SlotStep
  <2>. QED  BY <2>3, <2>4, <1>0, OneSlotSteps
<1>9. ASSUME NEW r \in Slots, slots' = [slots EXCEPT ![r] = Idle]
      PROVE  SlotsStep
  BY <1>0, <1>9, IdleStep
<1>10. CASE RotateKey
  <2>1. Idle \in Request /\ Idle.pc = "idle" /\ Idle.session = NoSession /\ Idle.todo = {}
    BY DEF Idle, Request
  <2>2. slots' = [r \in Slots |-> Idle]
    BY <1>10 DEF RotateKey
  <2>. QED  BY <2>1, <2>2 DEF SlotsStep, SlotStep
<1>11. CASE slots' = slots
  BY <1>0, <1>11 DEF SlotsStep, SlotStep
<1>12. ASSUME NEW r \in Slots,
              \/ IssueRefresh(r) \/ MintRefreshed(r) \/ MintStaff(r) \/ EndScan(r)
              \/ Abandon(r) \/ \E s \in SessionIds : ForgetOne(r, s)
       PROVE  SlotsStep
  BY <1>9, <1>12 DEF IssueRefresh, MintRefreshed, MintStaff, EndScan, Abandon, ForgetOne
<1>13. \/ \E r \in Slots, s \in SessionIds : DeleteKey(r, s)
       \/ \E t \in TokenIds : ExpireToken(t)
       \/ \E s \in SessionIds : ExpireRefresh(s)
       \/ RefreshJWKS
       \/ \E by \in UserRoles, u \in Users, role \in Assignments : ManageUser(by, u, role)
       \/ \E by \in UserRoles, d \in Devices : ManageDevice(by, d)
       \/ UNCHANGED vars
       => SlotsStep
  BY <1>11 DEF DeleteKey, ExpireToken, ExpireRefresh, RefreshJWKS, ManageUser,
               ManageDevice, vars
<1>. QED
  BY <1>1, <1>2, <1>3, <1>4, <1>5, <1>6, <1>7, <1>8, <1>10, <1>12, <1>13 DEF Next

\* What a step does to the sessions that were logged out of.
ForgottenStep ==
    /\ forgotten' \subseteq SessionIds
    /\ \A s \in forgotten' \ forgotten :
          /\ refresh'[s] = NoUser
          /\ refresh[s] # NoUser \/ \E r \in Slots : s \in slots[r].todo

LEMMA ForgottenStepped ==
    ASSUME AInv, [Next]_vars
    PROVE  ForgottenStep
<1>0. /\ forgotten \subseteq SessionIds
      /\ refresh \in [SessionIds -> Users \cup {NoUser}]
      /\ \A r \in Slots : slots[r].todo \subseteq SessionIds
  BY DEF AInv, TypeOK, Request
<1>1. ASSUME NEW r \in Slots, NEW s \in SessionIds, ForgetOne(r, s)
      PROVE  ForgottenStep
  BY <1>0, <1>1 DEF ForgetOne, Refreshable, ForgottenStep
<1>2. ASSUME NEW r \in Slots, EndScan(r)
      PROVE  ForgottenStep
  BY <1>0, <1>2 DEF EndScan, ForgottenStep
<1>3. CASE forgotten' \subseteq forgotten
  BY <1>0, <1>3 DEF ForgottenStep
<1>. QED
  BY <1>1, <1>2, <1>3
     DEF Next, vars, Register, Login, StartScan, StartRefresh, DeleteKey, PINLogin,
         IssueAccess, IssueRefresh, FetchUser, MintRefreshed, MintStaff, StartLogout,
         Abandon, ExpireToken, ExpireRefresh, RotateKey, RefreshJWKS, ManageUser,
         ManageDevice

\* Whoever is registered stays so, and so does a device that is enrolled.
LEMMA RowsStay ==
    ASSUME TypeOK, [Next]_vars
    PROVE  /\ ProfilesTypeOK' /\ DevicesTypeOK'
           /\ \A u \in Users : Registered(u) => users'[u] # "none"
           /\ \A d \in Devices : devices[d] # "none" => devices'[d] # "none"
<1>0. /\ users \in [Users -> UserRoles \cup {"none"}]
      /\ devices \in [Devices -> Statuses \cup {"none", "pending"}]
  BY DEF TypeOK, ProfilesTypeOK, DevicesTypeOK
<1>1. \/ users' = users
      \/ \E u \in Users : CreateUser(u)
      \/ \E by \in UserRoles, u \in Users, role \in Assignments : SetUserVenue(by, u, role)
  BY DEF Next, vars, Register, Login, StartScan, StartRefresh, ForgetOne, DeleteKey,
         PINLogin, IssueAccess, IssueRefresh, FetchUser, MintRefreshed, MintStaff,
         StartLogout, EndScan, Abandon, ExpireToken, ExpireRefresh, RotateKey,
         RefreshJWKS, ManageUser, ManageDevice
<1>2. \/ devices' = devices
      \/ \E by \in UserRoles, d \in Devices :
            Enroll(by, d) \/ \E status \in NewStatuses : SetStatus(by, d, status)
  BY DEF Next, vars, Register, Login, StartScan, StartRefresh, ForgetOne, DeleteKey,
         PINLogin, IssueAccess, IssueRefresh, FetchUser, MintRefreshed, MintStaff,
         StartLogout, EndScan, Abandon, ExpireToken, ExpireRefresh, RotateKey,
         RefreshJWKS, ManageUser, ManageDevice
<1>3. /\ users' \in [Users -> UserRoles \cup {"none"}]
      /\ \A u \in Users : users[u] # "none" => users'[u] # "none"
  BY <1>0, <1>1 DEF CreateUser, SetUserVenue, UserRoles
<1>4. /\ devices' \in [Devices -> Statuses \cup {"none", "pending"}]
      /\ \A d \in Devices : devices[d] # "none" => devices'[d] # "none"
  BY <1>0, <1>2 DEF Enroll, SetStatus, Statuses
<1>. QED  BY <1>3, <1>4 DEF ProfilesTypeOK, DevicesTypeOK, Registered

\* The keys are numbered in the order they are used in.
LEMMA KeysStay ==
    ASSUME TypeOK, [Next]_vars
    PROVE  auth_key' \in 1 .. MaxKeys /\ gateway_key' \in 1 .. MaxKeys
<1>0. auth_key \in 1 .. MaxKeys /\ gateway_key \in 1 .. MaxKeys
  BY DEF TypeOK
<1>1. CASE RotateKey
  BY <1>0, <1>1 DEF RotateKey
<1>2. CASE RefreshJWKS
  BY <1>0, <1>2 DEF RefreshJWKS, JWKS
<1>3. CASE auth_key' = auth_key /\ gateway_key' = gateway_key
  BY <1>0, <1>3
<1>. QED
  BY <1>1, <1>2, <1>3
     DEF Next, vars, key_vars, Register, Login, StartScan, StartRefresh, ForgetOne,
         DeleteKey, PINLogin, IssueAccess, IssueRefresh, FetchUser, MintRefreshed,
         MintStaff, StartLogout, EndScan, Abandon, ExpireToken, ExpireRefresh, ManageUser,
         ManageDevice

\* Whom a token was granted for it still is.
LEMMA GrantsStay ==
    ASSUME TypeOK, [Next]_vars
    PROVE  \A uid, role, s : GrantedTo(uid, role, s) =>
              \/ uid \in Users /\ users'[uid] # "none" /\ role \in UserRoles
              \/ \E d \in Devices : /\ uid = Staff(d) /\ devices'[d] # "none"
                                    /\ role = StaffRole(d) /\ s = NoSession
BY RowsStay DEF GrantedTo

\* The holders of refresh tokens stay registered.
LEMMA HoldersStay ==
    ASSUME AInv, [Next]_vars
    PROVE  \A s \in SessionIds : refresh'[s] # NoUser => users'[refresh'[s]] # "none"
<1>1. TypeOK /\ TokensAreGenuine /\ SlotsKnow /\ RefreshStep
  BY RefreshStepped DEF AInv
<1>2. refresh \in [SessionIds -> Users \cup {NoUser}]
  BY <1>1 DEF TypeOK
<1>3. \A u \in Users : Registered(u) => users'[u] # "none"
  BY <1>1, RowsStay
<1>. QED  BY <1>1, <1>2, <1>3 DEF RefreshStep, TokensAreGenuine, SlotsKnow

LEMMA TokensStayGenuine ==
    ASSUME AInv, [Next]_vars
    PROVE  \A t \in TokenIds : Live(t)' =>
              GrantedTo(tokens[t].uid, tokens[t].role, tokens[t].session_id)'
<1>1. SUFFICES ASSUME NEW t \in TokenIds, Live(t)'
               PROVE  GrantedTo(tokens[t].uid, tokens[t].role, tokens[t].session_id)'
  OBVIOUS
<1>2. TypeOK /\ TokensAreGenuine /\ SlotsKnow
  BY DEF AInv
<1>. DEFINE uid == tokens'[t].uid
            role == tokens'[t].role
            s == tokens'[t].session_id
<1>3. GrantedTo(uid, role, s)
  <2>1. CASE tokens'[t] = tokens[t]
    BY <1>1, <1>2, <2>1 DEF TokensAreGenuine, Live
  <2>2. CASE tokens'[t] = NoToken
    BY <1>1, <2>2 DEF NoToken, Live
  <2>3. ASSUME NEW r \in Slots, slots[r].pc \in {"issue", "mint", "pin"},
               tokens'[t].uid = slots[r].uid, tokens'[t].role = slots[r].role,
               slots[r].pc = "pin" => s = NoSession
        PROVE  GrantedTo(uid, role, s)
    <3>1. GrantedTo(uid, role, slots[r].session)
      BY <1>2, <2>3 DEF SlotsKnow
    <3>2. slots[r].pc \in {"issue", "mint"} => uid \in Users /\ Registered(uid)
      BY <1>2, <2>3 DEF SlotsKnow
    <3>3. role \in UserRoles
      BY <3>1, GrantTyped
    <3>4. CASE slots[r].pc = "pin"
      BY <3>1, <3>4, <2>3 DEF GrantedTo
    <3>. QED  BY <2>3, <3>2, <3>3, <3>4 DEF GrantedTo
  <2>. QED  BY <2>1, <2>2, <2>3, TokensStepped DEF TokensStep
<1>4. \/ uid \in Users /\ users'[uid] # "none" /\ role \in UserRoles
      \/ \E d \in Devices : /\ uid = Staff(d) /\ devices'[d] # "none"
                            /\ role = StaffRole(d) /\ s = NoSession
  <2>. HIDE DEF uid, role, s
  <2>. QED  BY <1>2, <1>3, GrantsStay
<1>. QED  BY <1>4 DEF GrantedTo, Registered, Staff, StaffRole

LEMMA SlotsStillKnow ==
    ASSUME AInv, [Next]_vars
    PROVE  SlotsKnow'
<1>1. TypeOK /\ SlotsKnow /\ TokensAreGenuine
  BY DEF AInv
<1>2. ASSUME NEW r \in Slots
      PROVE  /\ slots'[r].pc \in {"issue", "mint", "pin"} =>
                   \/ /\ slots'[r].uid \in Users /\ users'[slots'[r].uid] # "none"
                      /\ slots'[r].role \in UserRoles
                   \/ \E d \in Devices : /\ slots'[r].uid = Staff(d) /\ devices'[d] # "none"
                                         /\ slots'[r].role = StaffRole(d)
                                         /\ slots'[r].session = NoSession
             /\ slots'[r].pc \in {"issue", "store", "fetch", "mint"} =>
                   slots'[r].uid \in Users /\ users'[slots'[r].uid] # "none"
             /\ slots'[r].pc \in {"store", "fetch", "mint"} => slots'[r].session \in SessionIds
  <2>1. SlotStep(r)
    BY SlotsStepped DEF SlotsStep
  <2>2. \A u \in Users : Registered(u) => users'[u] # "none"
    BY <1>1, RowsStay
  <2>3. \A d \in Devices : devices[d] # "none" => devices'[d] # "none"
    BY <1>1, RowsStay
  <2>4. CASE slots'[r] = slots[r]
    <3>1. slots[r].pc \in {"issue", "mint", "pin"} =>
              \/ /\ slots[r].uid \in Users /\ users'[slots[r].uid] # "none"
                 /\ slots[r].role \in UserRoles
              \/ \E d \in Devices : /\ slots[r].uid = Staff(d) /\ devices'[d] # "none"
                                    /\ slots[r].role = StaffRole(d)
                                    /\ slots[r].session = NoSession
      BY <1>1, GrantsStay DEF SlotsKnow
    <3>2. /\ slots[r].pc \in {"issue", "store", "fetch", "mint"} =>
                slots[r].uid \in Users /\ Registered(slots[r].uid)
          /\ slots[r].pc \in {"store", "fetch", "mint"} => slots[r].session \in SessionIds
      BY <1>1 DEF SlotsKnow
    <3>. QED  BY <2>2, <2>4, <3>1, <3>2
  <2>5. CASE slots'[r].pc \in {"idle", "logout", "scan"}
    BY <2>5
  <2>6. CASE /\ slots'[r].pc = "issue" /\ slots'[r].role \in UserRoles
             /\ slots'[r].uid \in Users /\ users'[slots'[r].uid] # "none"
    BY <2>6
  <2>7. CASE /\ slots'[r].pc = "pin" /\ slots'[r].session = NoSession
             /\ \E d \in Devices : /\ slots'[r].uid = Staff(d) /\ Active(d)
                                   /\ slots'[r].role = StaffRole(d)
    BY <2>3, <2>7 DEF Active
  <2>8. CASE /\ slots'[r].pc = "fetch" /\ slots'[r].uid \in Users
             /\ slots'[r].session \in SessionIds
             /\ slots'[r].uid = refresh[slots'[r].session]
    <3>0. \A s \in SessionIds : refresh[s] # NoUser => Registered(refresh[s])
      BY <1>1 DEF TokensAreGenuine
    <3>1. Registered(refresh[slots'[r].session])
      BY <2>8, <3>0
    <3>2. users'[slots'[r].uid] # "none"
      BY <2>2, <2>8, <3>1
    <3>. QED  BY <2>8, <3>2
  <2>9. CASE /\ slots[r].pc = "fetch" /\ slots'[r].pc = "mint"
             /\ slots'[r].session = slots[r].session /\ slots'[r].uid = slots[r].uid
             /\ slots'[r].role = users[slots[r].uid]
    <3>1. /\ slots[r].uid \in Users /\ Registered(slots[r].uid)
          /\ slots[r].session \in SessionIds
      BY <1>1, <2>9 DEF SlotsKnow
    <3>2. users[slots[r].uid] \in UserRoles
      BY <1>1, <3>1 DEF TypeOK, ProfilesTypeOK, Registered
    <3>. QED  BY <2>2, <2>9, <3>1, <3>2
  <2>10. CASE /\ slots[r].pc = "issue" /\ slots'[r].pc = "store"
              /\ slots'[r].uid = slots[r].uid /\ slots'[r].session \in SessionIds
    BY <2>2, <2>10, <1>1 DEF SlotsKnow
  <2>. QED  BY <2>1, <2>4, <2>5, <2>6, <2>7, <2>8, <2>9, <2>10 DEF SlotStep
<1>. QED  BY <1>2 DEF SlotsKnow, GrantedTo, Registered, Staff, StaffRole

\* A login that is about to store its refresh token still has its session to itself.
LEMMA LoginsStayPrivate ==
    ASSUME AInv, [Next]_vars
    PROVE  LoginsArePrivate'
<1>1. /\ TypeOK /\ SlotsKnow /\ LoginsArePrivate
      /\ RefreshStep /\ SlotsStep /\ ForgottenStep
  BY RefreshStepped, SlotsStepped, ForgottenStepped DEF AInv
<1>2. refresh \in [SessionIds -> Users \cup {NoUser}]
  BY <1>1 DEF TypeOK
<1>3. ASSUME NEW r \in Slots, slots'[r].pc = "store",
             NEW s \in SessionIds, s = slots'[r].session
      PROVE  /\ refresh'[s] = NoUser /\ s \notin forgotten'
             /\ \A q \in Slots : /\ s \notin slots'[q].todo
                                 /\ q # r => slots'[q].session # s
  <2>1. CASE slots'[r] = slots[r]
    <3>1. /\ refresh[s] = NoUser /\ s \notin forgotten
          /\ \A q \in Slots : s \notin slots[q].todo /\ (q # r => slots[q].session # s)
      BY <1>1, <1>3, <2>1 DEF LoginsArePrivate
    <3>2. refresh'[s] = NoUser
      BY <1>1, <1>3, <2>1, <3>1 DEF RefreshStep, Idle
    <3>3. s \notin forgotten'
      BY <1>1, <3>1 DEF ForgottenStep
    <3>4. ASSUME NEW q \in Slots
          PROVE  s \notin slots'[q].todo /\ (q # r => slots'[q].session # s)
      <4>1. SlotStep(q)
        BY <1>1 DEF SlotsStep
      <4>2. ~Unknown(s)
        BY <1>3, <2>1 DEF Unknown, Owners
      <4>. QED  BY <3>1, <4>1, <4>2 DEF SlotStep
    <3>. QED  BY <3>2, <3>3, <3>4
  <2>2. CASE /\ Unknown(s) /\ forgotten' = forgotten \ {s} /\ refresh' = refresh
             /\ slots'[r].todo = {}
             /\ \A q \in Slots : q # r => slots'[q] = slots[q]
    <3>1. refresh[s] = NoUser /\ \A q \in Slots : slots[q].session # s /\ s \notin slots[q].todo
      BY <2>2, <1>2 DEF Unknown, Owners
    <3>. QED  BY <2>2, <3>1
  <2>. QED  BY <1>1, <1>3, <2>1, <2>2 DEF SlotsStep, SlotStep
<1>. QED  BY <1>3, SlotsStillKnow DEF SlotsKnow, LoginsArePrivate

\* No refresh token of a session that was logged out of comes back.
LEMMA LogoutStillForgets ==
    ASSUME AInv, [Next]_vars
    PROVE  LogoutForgets'
<1>1. LogoutForgets /\ LoginsArePrivate /\ RefreshStep /\ ForgottenStep
  BY RefreshStepped, ForgottenStepped DEF AInv
<1>2. ASSUME NEW s \in forgotten'
      PROVE  refresh'[s] = NoUser
  <2>1. CASE s \notin forgotten
    BY <1>1, <2>1 DEF ForgottenStep
  <2>2. CASE s \in forgotten
    <3>1. refresh[s] = NoUser /\ s \in SessionIds
      BY <1>1, <2>2 DEF LogoutForgets, AInv, TypeOK
    <3>2. \A r \in Slots : ~(slots[r].pc = "store" /\ slots[r].session = s)
      BY <1>1, <2>2 DEF LoginsArePrivate
    <3>. QED  BY <1>1, <3>1, <3>2 DEF RefreshStep
  <2>. QED  BY <2>1, <2>2
<1>. QED  BY <1>2 DEF LogoutForgets

\* A session that is known gets no other owner.
LEMMA OwnersFollow ==
    ASSUME AInv, [Next]_vars, NEW s \in SessionIds, ~Unknown(s)
    PROVE  Owners(s)' \subseteq Owners(s)
<1>1. TokensStep /\ RefreshStep /\ SlotsStep
  BY TokensStepped, RefreshStepped, SlotsStepped
<1>2. ASSUME refresh'[s] # NoUser
      PROVE  refresh'[s] \in Owners(s)
  BY <1>1, <1>2 DEF RefreshStep, Owners
<1>3. ASSUME NEW t \in TokenIds, tokens'[t].session_id = s
      PROVE  tokens'[t].uid \in Owners(s)
  <2>1. CASE tokens'[t] = tokens[t]
    BY <1>3, <2>1 DEF Owners
  <2>2. CASE \E r \in Slots : slots[r].session = s /\ tokens'[t].uid = slots[r].uid
    BY <2>2 DEF Owners
  <2>. QED  BY <1>1, <1>3, <2>1, <2>2 DEF TokensStep, NoToken
<1>4. ASSUME NEW r \in Slots, slots'[r].session = s
      PROVE  slots'[r].uid \in Owners(s)
  <2>1. CASE slots'[r].session = slots[r].session /\ slots'[r].uid = slots[r].uid
    BY <1>4, <2>1 DEF Owners
  <2>2. CASE slots'[r].uid \in Users /\ slots'[r].uid = refresh[s]
    BY <2>2 DEF Owners
  <2>3. SlotStep(r)
    BY <1>1 DEF SlotsStep
  <2>. QED  BY <1>4, <2>1, <2>2, <2>3 DEF SlotStep
<1>. QED  BY <1>2, <1>3, <1>4 DEF Owners

\* A session that nothing knows gets an owner from the login that takes it.
LEMMA OwnerIsNew ==
    ASSUME AInv, [Next]_vars, NEW s \in SessionIds, Unknown(s)
    PROVE  \A u, v \in Owners(s)' : u = v
<1>1. TypeOK /\ SlotsKnow /\ refresh \in [SessionIds -> Users \cup {NoUser}]
  BY DEF AInv, TypeOK
<1>2. /\ refresh[s] = NoUser
      /\ \A t \in TokenIds : tokens[t].session_id # s
      /\ \A r \in Slots : slots[r].session # s
  BY <1>1 DEF Unknown, Owners
<1>3. ASSUME NEW r \in Slots, IssueAccess(r)
      PROVE  \A u, v \in Owners(s)' : u = v
  <2>1. PICK x \in SessionIds : /\ Mint(slots[r].uid, slots[r].role, x)
                                /\ Goto(r, "store", slots[r].uid, "none", x)
    BY <1>3 DEF IssueAccess
  <2>2. slots[r].pc = "issue" /\ refresh' = refresh
    BY <1>3 DEF IssueAccess
  <2>3. slots[r].uid \in Uids /\ slots[r].role \in UserRoles /\ "store" \in Pcs
    BY <1>1, <2>2, GrantTyped DEF SlotsKnow, Pcs
  <2>4. \A t \in TokenIds : tokens'[t] = tokens[t] \/ tokens'[t].uid = slots[r].uid
    BY <1>1, <2>1, <2>3, MintEffect
  <2>5. /\ slots'[r].uid = slots[r].uid
        /\ \A q \in Slots : q # r => slots'[q] = slots[q]
    BY <1>1, <2>1, <2>3, GotoEffect
  <2>6. Owners(s)' \subseteq {slots[r].uid}
    BY <1>2, <2>2, <2>4, <2>5 DEF Owners
  <2>. QED  BY <2>6
<1>4. CASE \A r \in Slots : ~IssueAccess(r)
  <2>1. TokensStep /\ RefreshStep /\ SlotsStep
    BY TokensStepped, RefreshStepped, SlotsStepped
  <2>2. refresh'[s] = NoUser
    BY <1>2, <2>1 DEF RefreshStep
  <2>3. ASSUME NEW t \in TokenIds
        PROVE  tokens'[t].session_id # s
    BY <1>2, <1>4, <2>1 DEF TokensStep, NoToken
  <2>4. ASSUME NEW r \in Slots
        PROVE  slots'[r].session # s
    <3>1. SlotStep(r)
      BY <2>1 DEF SlotsStep
    <3>. QED  BY <1>2, <1>4, <3>1 DEF SlotStep
  <2>5. Owners(s)' = {}
    BY <2>2, <2>3, <2>4 DEF Owners
  <2>. QED  BY <2>5
<1>. QED  BY <1>3, <1>4

LEMMA OneOwnerStays ==
    ASSUME AInv, [Next]_vars
    PROVE  SessionsHaveOneOwner'
BY OwnersFollow, OwnerIsNew DEF AInv, SessionsHaveOneOwner

LEMMA TypesStay ==
    ASSUME AInv, [Next]_vars
    PROVE  TypeOK'
<1>1. TypeOK
  BY DEF AInv
<1>2. ProfilesTypeOK' /\ DevicesTypeOK'
  BY <1>1, RowsStay
<1>3. /\ tokens' \in [TokenIds -> Claims \cup {NoToken}]
      /\ refresh' \in [SessionIds -> Users \cup {NoUser}]
      /\ slots' \in [Slots -> Request]
      /\ forgotten' \subseteq SessionIds
  BY TokensStepped, RefreshStepped, SlotsStepped, ForgottenStepped
     DEF TokensStep, RefreshStep, SlotsStep, ForgottenStep
<1>4. auth_key' \in 1 .. MaxKeys /\ gateway_key' \in 1 .. MaxKeys
  BY <1>1, KeysStay
<1>. QED  BY <1>2, <1>3, <1>4 DEF TypeOK

\* The invariant holds at the start: nobody is registered and nothing is issued.
LEMMA AInvInit ==
    ASSUME Init
    PROVE  AInv
<1>1. ProfilesTypeOK /\ DevicesTypeOK
  BY DEF Init, ProfilesInit, DevicesInit, ProfilesTypeOK, DevicesTypeOK
<1>2. Idle \in Request
  BY DEF Idle, Request
<1>3. TypeOK
  BY <1>1, <1>2 DEF Init, TypeOK
<1>4. SessionsHaveOneOwner
  <2>1. ASSUME NEW s \in SessionIds
        PROVE  Owners(s) = {}
    BY <2>1 DEF Init, Owners, NoToken, Idle
  <2>. QED  BY <2>1 DEF SessionsHaveOneOwner
<1>5. TokensAreGenuine /\ SlotsKnow /\ LoginsArePrivate /\ LogoutForgets
  BY DEF Init, TokensAreGenuine, SlotsKnow, LoginsArePrivate, LogoutForgets, Live,
         NoToken, Idle
<1>. QED  BY <1>3, <1>4, <1>5 DEF AInv

\* Every step preserves the invariant.
LEMMA AInvStep ==
    ASSUME AInv, [Next]_vars
    PROVE  AInv'
<1>1. TokensAreGenuine'
  <2>1. \A s \in SessionIds : (refresh[s] # NoUser => Registered(refresh[s]))'
    BY HoldersStay DEF Registered
  <2>. QED  BY <2>1, TokensStayGenuine DEF TokensAreGenuine
<1>. QED
  BY <1>1, TypesStay, OneOwnerStays, SlotsStillKnow, LoginsStayPrivate, LogoutStillForgets
     DEF AInv

\* Whatever logins, refreshes, logouts and staff logins are under way at once, a
\* session is of one user, tokens are of whom they were granted to, and what a login
\* is about to store is its own.
THEOREM AccessInvariance == Spec => []AInv
<1>1. Init => AInv
  BY AInvInit
<1>2. AInv /\ [Next]_vars => AInv'
  BY AInvStep
<1>. QED  BY <1>1, <1>2, PTL DEF Spec

\* After a logout that came through, none of the sessions it was for is refreshed
\* any more, whatever was under way.
THEOREM LogoutIsFinal == Spec => []LogoutForgets
<1>1. AInv => LogoutForgets
  BY DEF AInv
<1>. QED  BY <1>1, AccessInvariance, PTL

=============================================================================
