------------------------------ MODULE Sessions ------------------------------
(***************************************************************************)
(* The sessions service: check-in and check-out at a venue, and what its   *)
(* goroutines tell the ledger and the profiles service afterwards.  Every  *)
(* handler is cut at its statements, and its goroutines run, or get lost,  *)
(* whenever they like.                                                     *)
(*                                                                         *)
(* Sessions are numbered in the order they were opened in.  The spend      *)
(* counter of a session is in Orders, which writes it; wristbands, tickets *)
(* and devices are columns nothing here reads.  A request whose role is    *)
(* refused changes nothing and has no action.                              *)
(***************************************************************************)
EXTENDS Ledger, Sequences

CONSTANTS
    Slots,        \* goroutines of check-in and check-out
    CheckinXP,    \* XP for a check-in
    MaxSessions,  \* bound on the sessions opened
    MaxCheckins   \* bound on the check-ins answered for a guest at a venue

ASSUME SessionsAssumption ==
    /\ CheckinXP \in Nat \ {0}
    /\ MaxSessions \in Nat /\ MaxCheckins \in Nat
    /\ IsFiniteSet(Slots) /\ IsFiniteSet(Venues)

CheckinKey(s) == <<"venue_checkin", s>>
ClosedKey(s)  == <<"session_closed", s>>

VARIABLES
    venue_sessions,  \* rows of sessions.venue_sessions
    slots,           \* requests in progress
    tasks,           \* goroutines started before the reply, by kind and session
    checkins,        \* check-ins answered, by guest and venue
    visit_count,     \* profiles.venue_profiles, 0: there is no row
    local_xp,        \* the same: the share that comes from check-ins
    global_xp        \* profiles.users: the share that comes from check-ins

profile_vars == <<visit_count, local_xp, global_xp>>
vars == <<ledger_events, venue_sessions, slots, tasks, checkins, profile_vars>>

Ids == DOMAIN venue_sessions
Guests == Users \X Venues
GuestOf(s) == <<venue_sessions[s].user_id, venue_sessions[s].venue_id>>
Idle == [pc |-> "idle", user |-> NoUser, venue |-> NoVenue, session |-> 0]
TaskKinds == {"checkin", "closed", "profile", "xp", "local_xp"}

Init ==
    /\ ledger_events = {}
    /\ venue_sessions = <<>>
    /\ slots = [r \in Slots |-> Idle]
    /\ tasks = [t \in TaskKinds \X (1 .. MaxSessions) |-> 0]
    /\ checkins = [p \in Guests |-> 0]
    /\ visit_count = [p \in Guests |-> 0]
    /\ local_xp = [p \in Guests |-> 0]
    /\ global_xp = [u \in Users |-> 0]

-----------------------------------------------------------------------------
\* POST /checkin

Open(u, v) ==
    {s \in Ids : /\ venue_sessions[s].user_id = u
                 /\ venue_sessions[s].venue_id = v
                 /\ venue_sessions[s].status = "open"}

At(r, pc, u, v, s) ==
    slots' = [slots EXCEPT ![r] = [pc |-> pc, user |-> u, venue |-> v, session |-> s]]

\* Variant: the open session is not looked for.
StartCheckinBlindly(r, u, v) ==
    /\ slots[r].pc = "idle"
    /\ At(r, "insert", u, v, 0)
    /\ UNCHANGED <<ledger_events, venue_sessions, tasks, checkins, profile_vars>>

\* getOpenSessionForUserVenue: the newest open session, if there is one, is what
\* the check-in returns.
StartCheckin(r, u, v) ==
    /\ slots[r].pc = "idle"
    /\ \/ \E s \in Open(u, v) : /\ \A t \in Open(u, v) : t <= s
                                /\ At(r, "spawn", u, v, s)
       \/ Open(u, v) = {} /\ At(r, "insert", u, v, 0)
    /\ UNCHANGED <<ledger_events, venue_sessions, tasks, checkins, profile_vars>>

NewSession(u, v) == [user_id |-> u, venue_id |-> v, status |-> "open"]

\* Variant: a guest who was here before gets the old session back.
OpenSessionReopening(r) ==
    LET u == slots[r].user
        v == slots[r].venue
    IN  /\ slots[r].pc = "insert"
        /\ \/ \E s \in Ids :
                 /\ venue_sessions[s].user_id = u /\ venue_sessions[s].venue_id = v
                 /\ venue_sessions' = [venue_sessions EXCEPT ![s].status = "open"]
                 /\ At(r, "spawn", u, v, s)
           \/ /\ Len(venue_sessions) < MaxSessions
              /\ venue_sessions' = Append(venue_sessions, NewSession(u, v))
              /\ At(r, "spawn", u, v, Len(venue_sessions) + 1)
        /\ UNCHANGED <<ledger_events, tasks, checkins, profile_vars>>

\* The INSERT, in a statement of its own.
OpenSession(r) ==
    LET u == slots[r].user
        v == slots[r].venue
    IN  /\ slots[r].pc = "insert"
        /\ Len(venue_sessions) < MaxSessions
        /\ venue_sessions' = Append(venue_sessions, NewSession(u, v))
        /\ At(r, "spawn", u, v, Len(venue_sessions) + 1)
        /\ UNCHANGED <<ledger_events, tasks, checkins, profile_vars>>

\* The goroutines for the ledger event, the venue profile and the XP, and the
\* 201.  They are started for a session that was there already, too.
SpawnCheckin(r) ==
    LET s == slots[r].session
        p == GuestOf(s)
    IN  /\ slots[r].pc = "spawn"
        /\ checkins[p] < MaxCheckins
        /\ checkins' = [checkins EXCEPT ![p] = @ + 1]
        /\ tasks' = [tasks EXCEPT ![<<"checkin", s>>] = @ + 1,
                                 ![<<"profile", s>>] = @ + 1,
                                 ![<<"xp", s>>] = @ + 1]
        /\ slots' = [slots EXCEPT ![r] = Idle]
        /\ UNCHANGED <<ledger_events, venue_sessions, profile_vars>>

-----------------------------------------------------------------------------
\* POST /{session_id}/checkout

\* Variant: the goroutine is started before the UPDATE.
StartCheckoutAnnouncing(r, s) ==
    /\ slots[r].pc = "idle"
    /\ s \in Ids
    /\ At(r, "close", venue_sessions[s].user_id, venue_sessions[s].venue_id, s)
    /\ tasks' = [tasks EXCEPT ![<<"closed", s>>] = @ + 1]
    /\ UNCHANGED <<ledger_events, venue_sessions, checkins, profile_vars>>

\* GetSession, which is read for the permission only.
StartCheckout(r, s) ==
    /\ slots[r].pc = "idle"
    /\ s \in Ids
    /\ At(r, "close", venue_sessions[s].user_id, venue_sessions[s].venue_id, s)
    /\ UNCHANGED <<ledger_events, venue_sessions, tasks, checkins, profile_vars>>

\* Variant: the UPDATE has no condition on the status.
CloseSessionUnguarded(r) ==
    LET s == slots[r].session IN
    /\ slots[r].pc = "close"
    /\ venue_sessions' = [venue_sessions EXCEPT ![s].status = "closed"]
    /\ slots' = [slots EXCEPT ![r].pc = "announce"]
    /\ UNCHANGED <<ledger_events, tasks, checkins, profile_vars>>

\* The UPDATE, and the 409 when it finds no open row.
CloseSession(r) ==
    LET s == slots[r].session IN
    /\ slots[r].pc = "close"
    /\ \/ /\ venue_sessions[s].status = "open"
          /\ venue_sessions' = [venue_sessions EXCEPT ![s].status = "closed"]
          /\ slots' = [slots EXCEPT ![r].pc = "announce"]
       \/ /\ venue_sessions[s].status = "closed"
          /\ slots' = [slots EXCEPT ![r] = Idle]
          /\ UNCHANGED venue_sessions
    /\ UNCHANGED <<ledger_events, tasks, checkins, profile_vars>>

\* The goroutine for the ledger event, and the 200.
SpawnClosed(r) ==
    /\ slots[r].pc = "announce"
    /\ tasks' = [tasks EXCEPT ![<<"closed", slots[r].session>>] = @ + 1]
    /\ slots' = [slots EXCEPT ![r] = Idle]
    /\ UNCHANGED <<ledger_events, venue_sessions, checkins, profile_vars>>

\* A handler ends at any point: an error of the database, or a crash.
Abandon(r) ==
    /\ slots[r].pc # "idle"
    /\ slots' = [slots EXCEPT ![r] = Idle]
    /\ UNCHANGED <<ledger_events, venue_sessions, tasks, checkins, profile_vars>>

-----------------------------------------------------------------------------
\* The goroutines

TaskDone(kind, s) ==
    /\ tasks[<<kind, s>>] > 0
    /\ tasks' = [tasks EXCEPT ![<<kind, s>>] = @ - 1]

\* The amount is for information, and must not be 0.
SessionRequest(event_type, s, key) ==
    WriteRequest(event_type, venue_sessions[s].user_id, venue_sessions[s].venue_id, 1,
                 "uuid", key)

PostCheckin(s) ==
    /\ TaskDone("checkin", s)
    /\ WriteEvent("sessions", SessionRequest("venue_checkin", s, CheckinKey(s)))
    /\ UNCHANGED <<venue_sessions, slots, checkins, profile_vars>>

PostClosed(s) ==
    /\ TaskDone("closed", s)
    /\ WriteEvent("sessions", SessionRequest("session_closed", s, ClosedKey(s)))
    /\ UNCHANGED <<venue_sessions, slots, checkins, profile_vars>>

\* Variant: the call is repeated when its answer is lost.
UpsertVenueProfileAgain(s) ==
    /\ tasks[<<"profile", s>>] > 0
    /\ tasks' \in {tasks, [tasks EXCEPT ![<<"profile", s>>] = @ - 1]}
    /\ visit_count' = [visit_count EXCEPT ![GuestOf(s)] = @ + 1]
    /\ UNCHANGED <<ledger_events, venue_sessions, slots, checkins, local_xp, global_xp>>

\* POST /venue-profiles: the row is inserted with one visit, or counts one more.
UpsertVenueProfile(s) ==
    /\ TaskDone("profile", s)
    /\ visit_count' = [visit_count EXCEPT ![GuestOf(s)] = @ + 1]
    /\ UNCHANGED <<ledger_events, venue_sessions, slots, checkins, local_xp, global_xp>>

\* POST /users/{user_id}/xp, first statement.
AddGlobalXP(s) ==
    /\ tasks[<<"xp", s>>] > 0
    /\ tasks' = [tasks EXCEPT ![<<"xp", s>>] = @ - 1, ![<<"local_xp", s>>] = @ + 1]
    /\ global_xp' = [global_xp EXCEPT ![venue_sessions[s].user_id] = @ + CheckinXP]
    /\ UNCHANGED <<ledger_events, venue_sessions, slots, checkins, visit_count, local_xp>>

\* Variant: the statement is repeated when its answer is lost.
AddLocalXPAgain(s) ==
    /\ tasks[<<"local_xp", s>>] > 0
    /\ tasks' \in {tasks, [tasks EXCEPT ![<<"local_xp", s>>] = @ - 1]}
    /\ \/ /\ visit_count[GuestOf(s)] > 0
          /\ local_xp' = [local_xp EXCEPT ![GuestOf(s)] = @ + CheckinXP]
       \/ visit_count[GuestOf(s)] = 0 /\ UNCHANGED local_xp
    /\ UNCHANGED <<ledger_events, venue_sessions, slots, checkins, visit_count, global_xp>>

\* Its second statement, which finds no row when the upsert has not come yet.
AddLocalXP(s) ==
    /\ TaskDone("local_xp", s)
    /\ \/ /\ visit_count[GuestOf(s)] > 0
          /\ local_xp' = [local_xp EXCEPT ![GuestOf(s)] = @ + CheckinXP]
       \/ visit_count[GuestOf(s)] = 0 /\ UNCHANGED local_xp
    /\ UNCHANGED <<ledger_events, venue_sessions, slots, checkins, visit_count, global_xp>>

\* A call fails, or the process dies with its goroutines; nothing repeats it.
LoseTask(kind, s) ==
    /\ TaskDone(kind, s)
    /\ UNCHANGED <<ledger_events, venue_sessions, slots, checkins, profile_vars>>

Next ==
    \/ \E r \in Slots :
          \/ \E u \in Users, v \in Venues : StartCheckin(r, u, v)
          \/ OpenSession(r)
          \/ SpawnCheckin(r)
          \/ \E s \in Ids : StartCheckout(r, s)
          \/ CloseSession(r)
          \/ SpawnClosed(r)
          \/ Abandon(r)
    \/ \E s \in Ids :
          \/ PostCheckin(s)
          \/ PostClosed(s)
          \/ UpsertVenueProfile(s)
          \/ AddGlobalXP(s)
          \/ AddLocalXP(s)
          \/ \E kind \in TaskKinds : LoseTask(kind, s)

Spec == Init /\ [][Next]_vars

-----------------------------------------------------------------------------
\* Properties

Session == [user_id : Users, venue_id : Venues, status : {"open", "closed"}]

CheckSlot == [pc : {"idle", "insert", "spawn", "close", "announce"},
              user : Users \cup {NoUser}, venue : Venues \cup {NoVenue},
              session : 0 .. MaxSessions]

Keys == {CheckinKey(s) : s \in 1 .. MaxSessions} \cup {ClosedKey(s) : s \in 1 .. MaxSessions}

SessionsTypeOK ==
    /\ ledger_events \subseteq LedgerRow(Keys)
    /\ venue_sessions \in Seq(Session) /\ Len(venue_sessions) <= MaxSessions
    /\ slots \in [Slots -> CheckSlot]
    /\ tasks \in [TaskKinds \X (1 .. MaxSessions) -> Nat]
    /\ checkins \in [Guests -> 0 .. MaxCheckins]
    /\ visit_count \in [Guests -> Nat]
    /\ local_xp \in [Guests -> Nat]
    /\ global_xp \in [Users -> Nat]

\* "Invariant: only one open session per user per venue" (store.go, OpenSession).
OneOpenSession ==
    \A u \in Users, v \in Venues : Cardinality(Open(u, v)) <= 1

Inserting(u, v) ==
    {r \in Slots : slots[r].pc = "insert" /\ slots[r].user = u /\ slots[r].venue = v}

\* What the check before the INSERT does achieve: a guest has no more open
\* sessions at a venue than check-ins ever ran side by side.
OpenSessionsBounded ==
    \A u \in Users, v \in Venues :
        Cardinality(Open(u, v)) + Cardinality(Inserting(u, v)) <= Cardinality(Slots)

\* What the ledger says of a session is true: it is about the guest and the venue
\* of the session, and says it is closed only when it is, although it is written
\* by a goroutine of a handler that may have been overtaken.
SessionEventsTrue ==
    \A e \in ledger_events : \E s \in Ids :
        /\ e.idempotency_key \in {CheckinKey(s), ClosedKey(s)}
        /\ <<e.user_id, e.venue_id>> = GuestOf(s)
        /\ e.event_type = "session_closed" => venue_sessions[s].status = "closed"

Announcing(s) == {r \in Slots : slots[r].pc = "announce" /\ slots[r].session = s}

\* Of the check-outs that race for a session, one tells the ledger.
CloseAnnouncedOnce ==
    \A s \in Ids :
        Cardinality(Announcing(s)) + tasks[<<"closed", s>>]
            + (IF KeyTaken(ClosedKey(s)) THEN 1 ELSE 0) <= 1

SessionsOf(p) == {s \in Ids : GuestOf(s) = p}

\* The goroutines of a kind that have yet to run, for some of the sessions.
Waiting(kind, sessions) ==
    SumFunctionOnSet([s \in sessions |-> tasks[<<kind, s>>]], sessions)

\* Visits and the XP for check-ins lag behind the answered check-ins, as calls get
\* lost, and never overtake them.
RewardsWithinCheckins ==
    \A p \in Guests :
        /\ visit_count[p] + Waiting("profile", SessionsOf(p)) <= checkins[p]
        /\ local_xp[p]
              + CheckinXP * (Waiting("local_xp", SessionsOf(p)) + Waiting("xp", SessionsOf(p)))
              <= CheckinXP * checkins[p]

LocalXP(u) == SumFunctionOnSet([v \in Venues |-> local_xp[<<u, v>>]], Venues)

\* Whatever XP a guest has from check-ins at venues is part of the global XP, in
\* every state between the two statements, and whatever is lost.  Orders give
\* theirs by the same two statements, in Orders.
LocalXPWithinGlobal == \A u \in Users : LocalXP(u) <= global_xp[u]

\* Session events are "informational only; excluded from balance projection"
\* (handler.go, Checkin).
BalancesUntouched ==
    [][\A u \in Users : GlobalBalance(u)' = GlobalBalance(u)]_ledger_events

\* A session keeps its guest and venue, and once closed is never opened again.
SessionLifecycle ==
    [][\A s \in Ids :
          /\ s \in Ids'
          /\ venue_sessions'[s].user_id = venue_sessions[s].user_id
          /\ venue_sessions'[s].venue_id = venue_sessions[s].venue_id
          /\ venue_sessions[s].status = "closed" => venue_sessions'[s].status = "closed"
      ]_venue_sessions

-----------------------------------------------------------------------------
\* The inductive invariant of SessionsProofs

\* A handler that has a session has one of the guest and venue it works for, and
\* announces only what is closed.
SlotsKnow ==
    \A r \in Slots :
        /\ slots[r].pc = "insert" => slots[r].user \in Users /\ slots[r].venue \in Venues
        /\ slots[r].pc \in {"spawn", "close", "announce"} =>
              /\ slots[r].session \in Ids
              /\ <<slots[r].user, slots[r].venue>> = GuestOf(slots[r].session)
        /\ slots[r].pc = "announce" =>
              venue_sessions[slots[r].session].status = "closed"

\* A goroutine works for a session that is there, and one that tells of a closing
\* was started by it.
TasksKnow ==
    \A kind \in TaskKinds, s \in 1 .. MaxSessions :
        tasks[<<kind, s>>] > 0 =>
            s \in Ids /\ (kind = "closed" => venue_sessions[s].status = "closed")

\* The key of a closing is taken by nothing else.
ClosedKeysKnow ==
    \A s \in 1 .. MaxSessions :
        KeyTaken(ClosedKey(s)) => s \in Ids /\ venue_sessions[s].status = "closed"

SessionsBy(u) == {s \in Ids : venue_sessions[s].user_id = u}

\* The XP a guest is yet to get at venues is part of the global XP already.
GlobalXPFirst ==
    \A u \in Users :
        LocalXP(u) + CheckinXP * Waiting("local_xp", SessionsBy(u)) <= global_xp[u]

\* The invariant every step preserves.
SInv ==
    /\ SessionsTypeOK
    /\ UniqueIdempotencyKey
    /\ SlotsKnow
    /\ TasksKnow
    /\ ClosedKeysKnow
    /\ SessionEventsTrue
    /\ CloseAnnouncedOnce
    /\ RewardsWithinCheckins
    /\ GlobalXPFirst

=============================================================================
