-------------------------------- MODULE Access --------------------------------
(***************************************************************************)
(* The auth service and the gateway, with the users and devices they look  *)
(* up: tokens are issued, refreshed, revoked and expire in Redis, where    *)
(* the gateway looks for them, by handlers that are cut at every call they *)
(* make.                                                                   *)
(*                                                                         *)
(* A token is its record tok:{jti} with the claims of its JWT, and both    *)
(* expire together.  A session has one refresh token and stands for it.    *)
(* Ids are random and are used once; those of the model are taken again    *)
(* when nothing knows them any more, so that their number bounds how many  *)
(* there are at a time and not how many there ever are.  Requests that are *)
(* refused, for a password or too often, change nothing that is modelled.  *)
(***************************************************************************)
EXTENDS Profiles, Devices, Naturals

CONSTANTS
    TokenIds,     \* jti of tokens
    SessionIds,   \* session_id of tokens
    NoSession,
    Slots,        \* goroutines of the handlers
    MaxKeys       \* bound on the signing keys, which are numbered

Staff(d) == <<"staff", d>>
Uids == Users \cup {Staff(d) : d \in Devices}

ASSUME AccessAssumption ==
    /\ Users \cap {Staff(d) : d \in Devices} = {}
    /\ NoUser \notin Uids
    /\ NoSession \notin SessionIds
    /\ MaxKeys \in Nat \ {0}

VARIABLES
    tokens,        \* tok:{jti} in Redis, and the claims
    refresh,       \* ref:{uid}:{hash} in Redis: the uid, by session
    slots,         \* requests in progress in the auth service
    auth_key,      \* the key the auth service signs with
    gateway_key,   \* the key the gateway checks with
    forgotten      \* sessions that a logout was told to end, and did

key_vars == <<auth_key, gateway_key>>
vars == <<users, devices, tokens, refresh, slots, key_vars, forgotten>>

NoToken == [uid |-> NoUser, role |-> "none", session_id |-> NoSession, key |-> 0]
Idle == [pc |-> "idle", uid |-> NoUser, role |-> "none", session |-> NoSession, todo |-> {}]

Live(t) == tokens[t].uid # NoUser
\* GetRefreshToken finds it.
Refreshable(s) == refresh[s] # NoUser
Stored(u) == {s \in SessionIds : refresh[s] = u}

Init ==
    /\ ProfilesInit
    /\ DevicesInit
    /\ tokens = [t \in TokenIds |-> NoToken]
    /\ refresh = [s \in SessionIds |-> NoUser]
    /\ slots = [r \in Slots |-> Idle]
    /\ auth_key = 1 /\ gateway_key = 1
    /\ forgotten = {}

Goto(r, pc, uid, role, s) ==
    slots' = [slots EXCEPT ![r] =
        [pc |-> pc, uid |-> uid, role |-> role, session |-> s, todo |-> {}]]

\* mintToken and SetAccessToken, under an id that is not in use.
Mint(uid, role, s) ==
    \E t \in TokenIds :
        /\ ~Live(t)
        /\ t = CHOOSE i \in TokenIds : ~Live(i)
        /\ tokens' = [tokens EXCEPT ![t] =
              [uid |-> uid, role |-> role, session_id |-> s, key |-> auth_key]]

\* Whom a session belongs to, after all that knows it.
Owners(s) ==
    ({refresh[s]} \ {NoUser})
        \cup {tokens[t].uid : t \in {t \in TokenIds : tokens[t].session_id = s}}
        \cup {slots[r].uid : r \in {r \in Slots : slots[r].session = s}}

\* newJTI: a session nothing knows.
Unknown(s) == Owners(s) = {} /\ \A r \in Slots : s \notin slots[r].todo

-----------------------------------------------------------------------------
\* POST /register, POST /login and issueTokens

\* The call of the profiles service.
Register(r, u) ==
    /\ slots[r] = Idle
    /\ CreateUser(u)
    /\ Goto(r, "issue", u, "guest", NoSession)
    /\ UNCHANGED <<devices, tokens, refresh, key_vars, forgotten>>

\* fetchProfilesUser, and the password.
Login(r, u) ==
    /\ slots[r] = Idle
    /\ Registered(u)
    /\ Goto(r, "issue", u, users[u], NoSession)
    /\ UNCHANGED <<users, devices, tokens, refresh, key_vars, forgotten>>

IssueAccess(r) ==
    /\ slots[r].pc = "issue"
    /\ \E s \in SessionIds :
          /\ Unknown(s)
          /\ s = CHOOSE i \in SessionIds : Unknown(i)
          /\ Mint(slots[r].uid, slots[r].role, s)
          /\ Goto(r, "store", slots[r].uid, "none", s)
          /\ forgotten' = forgotten \ {s}
    /\ UNCHANGED <<users, devices, refresh, key_vars>>

\* SetRefreshToken, and the answer.
IssueRefresh(r) ==
    /\ slots[r].pc = "store"
    /\ refresh' = [refresh EXCEPT ![slots[r].session] = slots[r].uid]
    /\ slots' = [slots EXCEPT ![r] = Idle]
    /\ UNCHANGED <<users, devices, tokens, key_vars, forgotten>>

-----------------------------------------------------------------------------
\* POST /refresh

\* Variant: a token of the session will do as well.
StartRefreshByAccess(r, s) ==
    /\ slots[r] = Idle
    /\ \/ Refreshable(s) /\ Goto(r, "fetch", refresh[s], "none", s)
       \/ \E t \in TokenIds : /\ tokens[t].session_id = s
                              /\ Goto(r, "fetch", tokens[t].uid, "none", s)
    /\ UNCHANGED <<users, devices, tokens, refresh, key_vars, forgotten>>

\* GetRefreshToken.
StartRefresh(r, s) ==
    /\ slots[r] = Idle
    /\ Refreshable(s)
    /\ Goto(r, "fetch", refresh[s], "none", s)
    /\ UNCHANGED <<users, devices, tokens, refresh, key_vars, forgotten>>

\* Variant: the role is copied from a token of the session, if there is one.
FetchUserOnce(r) ==
    /\ slots[r].pc = "fetch"
    /\ LET old == {t \in TokenIds : tokens[t].session_id = slots[r].session}
           role == IF old = {} THEN users[slots[r].uid] ELSE tokens[CHOOSE t \in old : TRUE].role
       IN  Goto(r, "mint", slots[r].uid, role, slots[r].session)
    /\ UNCHANGED <<users, devices, tokens, refresh, key_vars, forgotten>>

\* fetchProfilesUserByID.
FetchUser(r) ==
    /\ slots[r].pc = "fetch"
    /\ Goto(r, "mint", slots[r].uid, users[slots[r].uid], slots[r].session)
    /\ UNCHANGED <<users, devices, tokens, refresh, key_vars, forgotten>>

\* Variant: the refresh token is rotated.
MintRefreshedRotating(r) ==
    /\ slots[r].pc = "mint"
    /\ Mint(slots[r].uid, slots[r].role, slots[r].session)
    /\ refresh' = [refresh EXCEPT ![slots[r].session] = slots[r].uid]
    /\ slots' = [slots EXCEPT ![r] = Idle]
    /\ UNCHANGED <<users, devices, key_vars, forgotten>>

\* The new access token, for the same session; the refresh token stays.
MintRefreshed(r) ==
    /\ slots[r].pc = "mint"
    /\ Mint(slots[r].uid, slots[r].role, slots[r].session)
    /\ slots' = [slots EXCEPT ![r] = Idle]
    /\ UNCHANGED <<users, devices, refresh, key_vars, forgotten>>

-----------------------------------------------------------------------------
\* POST /logout, which answers 200 whatever its calls return

\* The access token of the body, if one is named.
StartLogout(r) ==
    /\ slots[r] = Idle
    /\ \/ UNCHANGED tokens
       \/ \E t \in TokenIds : Live(t) /\ tokens' = [tokens EXCEPT ![t] = NoToken]
    /\ Goto(r, "logout", NoUser, "none", NoSession)
    /\ UNCHANGED <<users, devices, refresh, key_vars, forgotten>>

\* DeleteRefreshToken.
ForgetOne(r, s) ==
    /\ slots[r].pc = "logout"
    /\ Refreshable(s)
    /\ refresh' = [refresh EXCEPT ![s] = NoUser]
    /\ forgotten' = forgotten \cup {s}
    /\ slots' = [slots EXCEPT ![r] = Idle]
    /\ UNCHANGED <<users, devices, tokens, key_vars>>

\* DeleteAllRefreshTokens begins.
StartScan(r, u) ==
    /\ slots[r].pc = "logout"
    /\ slots' = [slots EXCEPT ![r] =
          [Idle EXCEPT !.pc = "scan", !.uid = u, !.todo = Stored(u)]]
    /\ UNCHANGED <<users, devices, tokens, refresh, key_vars, forgotten>>

\* The scan meets a key and deletes it.
DeleteKey(r, s) ==
    /\ slots[r].pc = "scan"
    /\ refresh[s] = slots[r].uid
    /\ refresh' = [refresh EXCEPT ![s] = NoUser]
    /\ UNCHANGED <<users, devices, tokens, slots, key_vars, forgotten>>

\* The cursor is back at 0: the keys that were there all the time were met.
EndScan(r) ==
    /\ slots[r].pc = "scan"
    /\ \A s \in slots[r].todo : refresh[s] = NoUser
    /\ forgotten' = forgotten \cup slots[r].todo
    /\ slots' = [slots EXCEPT ![r] = Idle]
    /\ UNCHANGED <<users, devices, tokens, refresh, key_vars>>

-----------------------------------------------------------------------------
\* POST /pin

StaffRole(d) == IF DeviceRole[d] = "terminal" THEN "door_staff" ELSE "bartender"

\* GetDeviceVenueRole, and the PIN of the venue.
PINLogin(r, d) ==
    /\ slots[r] = Idle
    /\ Active(d)
    /\ Goto(r, "pin", Staff(d), StaffRole(d), NoSession)
    /\ UNCHANGED <<users, devices, tokens, refresh, key_vars, forgotten>>

MintStaff(r) ==
    /\ slots[r].pc = "pin"
    /\ Mint(slots[r].uid, slots[r].role, NoSession)
    /\ slots' = [slots EXCEPT ![r] = Idle]
    /\ UNCHANGED <<users, devices, refresh, key_vars, forgotten>>

\* A call fails and the handler ends, or a logout's deletion did, or its process.
Abandon(r) ==
    /\ slots[r] # Idle
    /\ slots' = [slots EXCEPT ![r] = Idle]
    /\ UNCHANGED <<users, devices, tokens, refresh, key_vars, forgotten>>

-----------------------------------------------------------------------------
\* Redis and the keys

ExpireToken(t) ==
    /\ Live(t)
    /\ tokens' = [tokens EXCEPT ![t] = NoToken]
    /\ UNCHANGED <<users, devices, refresh, slots, key_vars, forgotten>>

ExpireRefresh(s) ==
    /\ Refreshable(s)
    /\ refresh' = [refresh EXCEPT ![s] = NoUser]
    /\ UNCHANGED <<users, devices, tokens, slots, key_vars, forgotten>>

\* The auth service is restarted with another key.
RotateKey ==
    /\ auth_key < MaxKeys
    /\ auth_key' = auth_key + 1
    /\ slots' = [r \in Slots |-> Idle]
    /\ UNCHANGED <<users, devices, tokens, refresh, gateway_key, forgotten>>

\* GET /jwks
JWKS == auth_key

\* Variant: the key is fetched when the gateway has none.
RefreshJWKSOnce ==
    /\ gateway_key = 0
    /\ gateway_key' = JWKS
    /\ UNCHANGED <<users, devices, tokens, refresh, slots, auth_key, forgotten>>

\* refreshJWKS.  The goroutine that asks for the key stores the answer before it
\* asks again, and when it fails or takes its time the old key stays for as long.
RefreshJWKS ==
    /\ gateway_key' = JWKS
    /\ UNCHANGED <<users, devices, tokens, refresh, slots, auth_key, forgotten>>

\* validateToken of the gateway.
Accepted(t) == Live(t) /\ tokens[t].key = gateway_key

\* The administration of users and of devices, in the role the gateway names.
ManageUser(by, u, role) ==
    /\ SetUserVenue(by, u, role)
    /\ UNCHANGED <<devices, tokens, refresh, slots, key_vars, forgotten>>

ManageDevice(by, d) ==
    /\ \/ Enroll(by, d)
       \/ \E status \in NewStatuses : SetStatus(by, d, status)
    /\ UNCHANGED <<users, tokens, refresh, slots, key_vars, forgotten>>

Next ==
    \/ \E r \in Slots :
          \/ \E u \in Users : Register(r, u) \/ Login(r, u) \/ StartScan(r, u)
          \/ \E s \in SessionIds : StartRefresh(r, s) \/ ForgetOne(r, s) \/ DeleteKey(r, s)
          \/ \E d \in Devices : PINLogin(r, d)
          \/ IssueAccess(r)
          \/ IssueRefresh(r)
          \/ FetchUser(r)
          \/ MintRefreshed(r)
          \/ StartLogout(r)
          \/ EndScan(r)
          \/ MintStaff(r)
          \/ Abandon(r)
    \/ \E t \in TokenIds : ExpireToken(t)
    \/ \E s \in SessionIds : ExpireRefresh(s)
    \/ RotateKey
    \/ RefreshJWKS
    \/ \E by \in UserRoles :
          \/ \E u \in Users, role \in Assignments : ManageUser(by, u, role)
          \/ \E d \in Devices : ManageDevice(by, d)

Spec == Init /\ [][Next]_vars

\* A token expires, and the gateway asks for the key every five minutes.
Fairness ==
    /\ \A t \in TokenIds : WF_vars(ExpireToken(t))
    /\ WF_vars(RefreshJWKS)

FairSpec == Spec /\ Fairness

-----------------------------------------------------------------------------
\* Properties

Claims == [uid : Uids, role : UserRoles, session_id : SessionIds \cup {NoSession},
           key : 1 .. MaxKeys]

Request == [pc : {"idle", "issue", "store", "fetch", "mint", "logout", "scan", "pin"},
            uid : Uids \cup {NoUser}, role : UserRoles \cup {"none"},
            session : SessionIds \cup {NoSession}, todo : SUBSET SessionIds]

TypeOK ==
    /\ ProfilesTypeOK
    /\ DevicesTypeOK
    /\ tokens \in [TokenIds -> Claims \cup {NoToken}]
    /\ refresh \in [SessionIds -> Users \cup {NoUser}]
    /\ slots \in [Slots -> Request]
    /\ auth_key \in 1 .. MaxKeys /\ gateway_key \in 1 .. MaxKeys
    /\ forgotten \subseteq SessionIds

\* A session that a logout was answered for, of one device or of all, and whose
\* calls came through, has no refresh token any more and never gets one back from
\* the logins and refreshes that were under way.
LogoutForgets == \A s \in forgotten : refresh[s] = NoUser

SessionTokens(s) == {t \in TokenIds : Live(t) /\ tokens[t].session_id = s}

\* Logout leaves the access tokens of the session alone, and so does a refresh that
\* is under way: but they run out, and nothing prolongs them.
ForgottenSessionFades ==
    \A s \in SessionIds : <>[](s \in forgotten) => <>[](SessionTokens(s) = {})

\* Roles are in the tokens and are not looked up: whoever loses a role, or a device
\* that is revoked, keeps it for as long as a token lives and no longer, whatever is
\* refreshed meanwhile.
StaleAuthorityFades ==
    /\ \A u \in Users, role \in Assignments \cup {"guest"} :
          <>[](users[u] # role) =>
              <>[](\A t \in TokenIds : tokens[t].uid = u => tokens[t].role # role)
    /\ \A d \in Devices :
          <>[](~Active(d)) => <>[](\A t \in TokenIds : tokens[t].uid # Staff(d))

\* After the auth service got another key, the gateway takes what it signs and,
\* in the end, nothing else.
RotationTakesHold ==
    \A k \in 1 .. MaxKeys :
        <>[](auth_key = k) => <>[](\A t \in TokenIds : Live(t) => (Accepted(t) <=> tokens[t].key = k))

-----------------------------------------------------------------------------
\* The inductive invariant of AccessProofs

\* A session is of one user, whichever token says so.
SessionsHaveOneOwner == \A s \in SessionIds : \A u, v \in Owners(s) : u = v

GrantedTo(uid, role, s) ==
    \/ uid \in Users /\ Registered(uid) /\ role \in UserRoles
    \/ \E d \in Devices : /\ uid = Staff(d) /\ devices[d] # "none"
                          /\ role = StaffRole(d) /\ s = NoSession

\* A token is of a user who is registered, or of staff at a device that is
\* enrolled, and of no session.
TokensAreGenuine ==
    /\ \A t \in TokenIds :
          Live(t) => GrantedTo(tokens[t].uid, tokens[t].role, tokens[t].session_id)
    /\ \A s \in SessionIds : refresh[s] # NoUser => Registered(refresh[s])

\* A request that will issue a token has looked up whom to.
SlotsKnow ==
    \A r \in Slots :
        /\ slots[r].pc \in {"issue", "mint", "pin"} =>
              GrantedTo(slots[r].uid, slots[r].role, slots[r].session)
        /\ slots[r].pc \in {"issue", "store", "fetch", "mint"} =>
              slots[r].uid \in Users /\ Registered(slots[r].uid)
        /\ slots[r].pc \in {"store", "fetch", "mint"} => slots[r].session \in SessionIds

\* A session whose refresh token is about to be stored is known to that login only.
LoginsArePrivate ==
    \A r \in Slots : slots[r].pc = "store" =>
        /\ refresh[slots[r].session] = NoUser
        /\ slots[r].session \notin forgotten
        /\ \A q \in Slots : /\ slots[r].session \notin slots[q].todo
                            /\ q # r => slots[q].session # slots[r].session

\* The invariant every step preserves.
AInv ==
    /\ TypeOK
    /\ SessionsHaveOneOwner
    /\ TokensAreGenuine
    /\ SlotsKnow
    /\ LoginsArePrivate
    /\ LogoutForgets

=============================================================================
