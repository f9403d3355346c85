--------------------------- MODULE SessionsProofs ----------------------------
(***************************************************************************)
(* Theorems about Sessions for any number of guests, venues and requests,  *)
(* whatever fails or gets lost.                                            *)
(***************************************************************************)
EXTENDS Sessions, LedgerProofs, SequenceTheorems

\* Sessions are known by position.
LEMMA SessionsAreNumbered ==
    ASSUME venue_sessions \in Seq(Session), Len(venue_sessions) <= MaxSessions
    PROVE  /\ Len(venue_sessions) \in Nat
           /\ Ids = 1 .. Len(venue_sessions)
           /\ Ids \subseteq 1 .. MaxSessions
           /\ \A s \in Ids : venue_sessions[s] \in Session
<1>1. /\ Len(venue_sessions) \in Nat
      /\ Ids = 1 .. Len(venue_sessions)
      /\ \A s \in Ids : venue_sessions[s] \in Session
  BY LenProperties, ElementOfSeq DEF Ids
<1>2. MaxSessions \in Nat
  BY SessionsAssumption
<1>. QED  BY <1>1, <1>2

-----------------------------------------------------------------------------
\* What a step does to the sessions

\* A session is opened, or an open one is closed.
SessionsStep ==
    \/ venue_sessions' = venue_sessions
    \/ /\ Len(venue_sessions) < MaxSessions
       /\ \E x \in Session : venue_sessions' = Append(venue_sessions, x)
    \/ \E s \in Ids : venue_sessions' = [venue_sessions EXCEPT ![s].status = "closed"]

\* What follows for each session.
SessionsKept ==
    /\ venue_sessions' \in Seq(Session) /\ Len(venue_sessions)' <= MaxSessions
    /\ \A s \in Ids :
          /\ s \in Ids'
          /\ venue_sessions'[s].user_id = venue_sessions[s].user_id
          /\ venue_sessions'[s].venue_id = venue_sessions[s].venue_id
          /\ venue_sessions[s].status = "closed" => venue_sessions'[s].status = "closed"

\* No step moves a session to another guest or venue or opens it again.
LEMMA SessionsStayed ==
    ASSUME SessionsTypeOK, SessionsStep
    PROVE  SessionsKept
<1>0. /\ venue_sessions \in Seq(Session) /\ Len(venue_sessions) <= MaxSessions
      /\ Len(venue_sessions) \in Nat /\ MaxSessions \in Nat
      /\ Ids = 1 .. Len(venue_sessions)
      /\ \A s \in Ids : venue_sessions[s] \in Session
  BY SessionsAreNumbered, SessionsAssumption DEF SessionsTypeOK
<1>1. CASE venue_sessions' = venue_sessions
  BY <1>0, <1>1 DEF SessionsKept, Ids
<1>2. ASSUME Len(venue_sessions) < MaxSessions, NEW x \in Session,
             venue_sessions' = Append(venue_sessions, x)
      PROVE  SessionsKept
  <2>1. /\ venue_sessions' \in Seq(Session)
        /\ Len(venue_sessions') = Len(venue_sessions) + 1
        /\ \A s \in 1 .. Len(venue_sessions) : venue_sessions'[s] = venue_sessions[s]
    BY <1>0, <1>2, AppendProperties
  <2>2. Ids' = 1 .. Len(venue_sessions) + 1
    BY <2>1, LenProperties DEF Ids
  <2>3. Len(venue_sessions') <= MaxSessions
    BY <1>0, <1>2, <2>1
  <2>. QED  BY <1>0, <2>1, <2>2, <2>3 DEF SessionsKept
<1>3. ASSUME NEW s \in Ids, venue_sessions' = [venue_sessions EXCEPT ![s].status = "closed"]
      PROVE  SessionsKept
  <2>. DEFINE x == [venue_sessions[s] EXCEPT !.status = "closed"]
  <2>1. /\ x \in Session
        /\ x.user_id = venue_sessions[s].user_id
        /\ x.venue_id = venue_sessions[s].venue_id
        /\ x.status = "closed"
    BY <1>0 DEF Session
  <2>2. venue_sessions' = [venue_sessions EXCEPT ![s] = x]
    BY <1>3
  <2>. HIDE DEF x
  <2>3. /\ venue_sessions' \in Seq(Session)
        /\ Len(venue_sessions') = Len(venue_sessions)
        /\ \A t \in 1 .. Len(venue_sessions) :
              venue_sessions'[t] = IF t = s THEN x ELSE venue_sessions[t]
    BY <1>0, <2>1, <2>2, ExceptSeq
  <2>4. Ids' = Ids
    BY <1>0, <2>3, LenProperties DEF Ids
  <2>. QED  BY <1>0, <2>1, <2>3, <2>4 DEF SessionsKept
<1>. QED  BY <1>1, <1>2, <1>3 DEF SessionsStep

\* Every step opens or closes at most one session.
LEMMA SessionsStepped ==
    ASSUME SInv, [Next]_vars
    PROVE  SessionsStep
<1>1. ASSUME NEW r \in Slots, OpenSession(r) PROVE SessionsStep
  <2>1. NewSession(slots[r].user, slots[r].venue) \in Session
    BY <1>1 DEF OpenSession, SInv, SlotsKnow, NewSession, Session
  <2>. QED  BY <1>1, <2>1 DEF OpenSession, SessionsStep
<1>2. ASSUME NEW r \in Slots, CloseSession(r) PROVE SessionsStep
  <2>1. slots[r].session \in Ids
    BY <1>2 DEF CloseSession, SInv, SlotsKnow
  <2>. QED  BY <1>2, <2>1 DEF CloseSession, SessionsStep
<1>. QED
  BY <1>1, <1>2
     DEF Next, vars, profile_vars, SessionsStep, StartCheckin, SpawnCheckin,
         StartCheckout, SpawnClosed, Abandon, PostCheckin, PostClosed,
         UpsertVenueProfile, AddGlobalXP, AddLocalXP, LoseTask

-----------------------------------------------------------------------------
\* The invariant is kept

\* What a handler at x may rely on.
SlotKnows(x) ==
    /\ x.pc = "insert" => x.user \in Users /\ x.venue \in Venues
    /\ x.pc \in {"spawn", "close", "announce"} =>
          x.session \in Ids /\ <<x.user, x.venue>> = GuestOf(x.session)
    /\ x.pc = "announce" => venue_sessions[x.session].status = "closed"

\* What a handler found stays true while it waits.
LEMMA SlotKnowsKept ==
    ASSUME SInv, SessionsKept, NEW x, SlotKnows(x)
    PROVE  SlotKnows(x)'
BY DEF SlotKnows, SessionsKept, GuestOf

\* A handler knows its session when it has one.
LEMMA SlotsKnowKept ==
    ASSUME SInv, [Next]_vars, SessionsKept
    PROVE  SlotsKnow' /\ slots' \in [Slots -> CheckSlot]
<1>0. /\ slots \in [Slots -> CheckSlot]
      /\ \A r \in Slots : SlotKnows(slots[r])
      /\ Ids \subseteq 1 .. MaxSessions
      /\ \A s \in Ids : venue_sessions[s] \in Session
  BY SessionsAreNumbered DEF SInv, SessionsTypeOK, SlotsKnow, SlotKnows
<1>1. ASSUME NEW r \in Slots, slots'[r] = slots[r] PROVE SlotKnows(slots[r])'
  <2>1. PICK x : x = slots[r]
    OBVIOUS
  <2>2. SlotKnows(x)'
    BY <1>0, <2>1, SlotKnowsKept
  <2>3. x = slots'[r]
    BY <1>1, <2>1
  <2>. QED  BY <2>2, <2>3 DEF SlotKnows
<1>2. CASE slots' = slots
  <2>1. \A r \in Slots : SlotKnows(slots[r])'
    BY <1>1, <1>2
  <2>. QED  BY <1>0, <1>2, <2>1 DEF SlotsKnow, SlotKnows
<1>3. ASSUME NEW q \in Slots, NEW x \in CheckSlot, SlotKnows(x)',
             slots' = [slots EXCEPT ![q] = x]
      PROVE  SlotsKnow' /\ slots' \in [Slots -> CheckSlot]
  <2>1. ASSUME NEW r \in Slots PROVE SlotKnows(slots[r])'
    <3>1. CASE r = q
      <4>1. slots'[r] = x
        BY <1>0, <1>3, <3>1
      <4>. QED  BY <1>3, <4>1 DEF SlotKnows
    <3>2. CASE r # q
      BY <1>0, <1>1, <1>3, <3>2
    <3>. QED  BY <3>1, <3>2
  <2>2. SlotsKnow'
    BY <2>1 DEF SlotsKnow, SlotKnows
  <2>. QED  BY <1>0, <1>3, <2>2
<1>4. ASSUME NEW q \in Slots, slots' = [slots EXCEPT ![q] = Idle]
      PROVE  SlotsKnow' /\ slots' \in [Slots -> CheckSlot]
  <2>1. Idle \in CheckSlot /\ SlotKnows(Idle)'
    BY SessionsAssumption DEF Idle, CheckSlot, SlotKnows
  <2>. QED  BY <1>3, <1>4, <2>1
<1>5. ASSUME NEW q \in Slots, NEW u \in Users, NEW v \in Venues, StartCheckin(q, u, v)
      PROVE  SlotsKnow' /\ slots' \in [Slots -> CheckSlot]
  <2>1. ASSUME At(q, "insert", u, v, 0)
        PROVE  SlotsKnow' /\ slots' \in [Slots -> CheckSlot]
    <3>. DEFINE x == [pc |-> "insert", user |-> u, venue |-> v, session |-> 0]
    <3>1. x \in CheckSlot /\ SlotKnows(x)'
      BY SessionsAssumption DEF CheckSlot, SlotKnows
    <3>2. slots' = [slots EXCEPT ![q] = x]
      BY <2>1 DEF At
    <3>. HIDE DEF x
    <3>. QED  BY <1>3, <3>1, <3>2
  <2>2. ASSUME NEW s \in Open(u, v), At(q, "spawn", u, v, s)
        PROVE  SlotsKnow' /\ slots' \in [Slots -> CheckSlot]
    <3>. DEFINE x == [pc |-> "spawn", user |-> u, venue |-> v, session |-> s]
    <3>1. s \in Ids /\ <<u, v>> = GuestOf(s)
      BY DEF Open, GuestOf
    <3>4. s \in 0 .. MaxSessions
      BY <1>0, <3>1, SessionsAssumption
    <3>2. x \in CheckSlot /\ SlotKnows(x)
      BY <3>1, <3>4 DEF CheckSlot, SlotKnows
    <3>3. slots' = [slots EXCEPT ![q] = x]
      BY <2>2 DEF At
    <3>. HIDE DEF x
    <3>. QED  BY <1>3, <3>2, <3>3, SlotKnowsKept
  <2>. QED  BY <1>5, <2>1, <2>2 DEF StartCheckin
<1>6. ASSUME NEW q \in Slots, OpenSession(q)
      PROVE  SlotsKnow' /\ slots' \in [Slots -> CheckSlot]
  <2>1. PICK u \in Users, v \in Venues : slots[q].user = u /\ slots[q].venue = v
    BY <1>0, <1>6 DEF OpenSession, SlotKnows
  <2>2. PICK s : s = Len(venue_sessions) + 1
    OBVIOUS
  <2>. DEFINE x == [pc |-> "spawn", user |-> u, venue |-> v, session |-> s]
  <2>3. /\ venue_sessions' = Append(venue_sessions, NewSession(u, v))
        /\ Len(venue_sessions) < MaxSessions
        /\ slots' = [slots EXCEPT ![q] = x]
    BY <1>6, <2>1, <2>2 DEF OpenSession, At
  <2>4. NewSession(u, v) \in Session
    BY DEF NewSession, Session
  <2>5. /\ venue_sessions' \in Seq(Session)
        /\ Len(venue_sessions') = s /\ venue_sessions'[s] = NewSession(u, v)
    BY <2>2, <2>3, <2>4, AppendProperties DEF SInv, SessionsTypeOK
  <2>6. s \in Ids' /\ s \in 0 .. MaxSessions
    BY <2>2, <2>3, <2>5, LenProperties, SessionsAssumption DEF SInv, SessionsTypeOK, Ids
  <2>7. x \in CheckSlot /\ SlotKnows(x)'
    BY <2>5, <2>6 DEF CheckSlot, SlotKnows, GuestOf, NewSession
  <2>. HIDE DEF x
  <2>. QED  BY <1>3, <2>3, <2>7
<1>7. ASSUME NEW q \in Slots, NEW s \in Ids, StartCheckout(q, s)
      PROVE  SlotsKnow' /\ slots' \in [Slots -> CheckSlot]
  <2>1. PICK x : x = [pc |-> "close", user |-> venue_sessions[s].user_id,
                      venue |-> venue_sessions[s].venue_id, session |-> s]
    OBVIOUS
  <2>2. x \in CheckSlot /\ SlotKnows(x)
    BY <1>0, <2>1, SessionsAssumption DEF CheckSlot, SlotKnows, Session, GuestOf
  <2>3. slots' = [slots EXCEPT ![q] = x]
    BY <1>7, <2>1 DEF StartCheckout, At
  <2>. QED  BY <1>3, <2>2, <2>3, SlotKnowsKept
<1>8. ASSUME NEW q \in Slots, CloseSession(q), slots' # [slots EXCEPT ![q] = Idle]
      PROVE  SlotsKnow' /\ slots' \in [Slots -> CheckSlot]
  <2>1. PICK s \in Ids : s = slots[q].session /\ <<slots[q].user, slots[q].venue>> = GuestOf(s)
    BY <1>0, <1>8 DEF CloseSession, SlotKnows
  <2>2. PICK x : x = [slots[q] EXCEPT !.pc = "announce"]
    OBVIOUS
  <2>3. /\ venue_sessions' = [venue_sessions EXCEPT ![s].status = "closed"]
        /\ slots' = [slots EXCEPT ![q] = x]
    BY <1>8, <2>1, <2>2 DEF CloseSession
  <2>4. /\ x \in CheckSlot /\ x.pc = "announce" /\ x.session = s
        /\ <<x.user, x.venue>> = GuestOf(s)
    BY <1>0, <2>1, <2>2 DEF CheckSlot
  <2>5. venue_sessions'[s].status = "closed"
    BY <1>0, <2>3 DEF Session, Ids
  <2>6. s \in Ids' /\ GuestOf(s)' = GuestOf(s)
    BY DEF SessionsKept, GuestOf
  <2>7. SlotKnows(x)'
    BY <2>4, <2>5, <2>6 DEF SlotKnows
  <2>. QED  BY <1>3, <2>3, <2>4, <2>7
<1>. QED
  BY <1>2, <1>4, <1>5, <1>6, <1>7, <1>8
     DEF Next, vars, profile_vars, SpawnCheckin, SpawnClosed, CloseSession, Abandon,
         PostCheckin, PostClosed, UpsertVenueProfile, AddGlobalXP, AddLocalXP, LoseTask

\* A call that is made was waiting.
LEMMA TaskTaken ==
    ASSUME tasks \in [TaskKinds \X (1 .. MaxSessions) -> Nat],
           NEW kind \in TaskKinds, NEW s \in 1 .. MaxSessions, TaskDone(kind, s)
    PROVE  /\ tasks' \in [TaskKinds \X (1 .. MaxSessions) -> Nat]
           /\ tasks'[<<kind, s>>] = tasks[<<kind, s>>] - 1
           /\ \A k \in TaskKinds, t \in 1 .. MaxSessions :
                 k # kind \/ t # s => tasks'[<<k, t>>] = tasks[<<k, t>>]
<1>. DEFINE c == <<kind, s>>
<1>1. c \in TaskKinds \X (1 .. MaxSessions) /\ tasks[c] \in Nat /\ tasks[c] > 0
      /\ tasks' = [tasks EXCEPT ![c] = tasks[c] - 1]
  BY DEF TaskDone
<1>2. \A k \in TaskKinds, t \in 1 .. MaxSessions :
         /\ <<k, t>> \in TaskKinds \X (1 .. MaxSessions)
         /\ k # kind \/ t # s => <<k, t>> # c
  OBVIOUS
<1>. HIDE DEF c
<1>3. /\ tasks' \in [TaskKinds \X (1 .. MaxSessions) -> Nat]
      /\ tasks'[c] = tasks[c] - 1
      /\ \A k \in TaskKinds, t \in 1 .. MaxSessions :
            k # kind \/ t # s => tasks'[<<k, t>>] = tasks[<<k, t>>]
  BY <1>1, <1>2
<1>. QED  BY <1>3 DEF c

\* A check-in starts one goroutine of each of its kinds.
LEMMA CheckinTasks ==
    ASSUME tasks \in [TaskKinds \X (1 .. MaxSessions) -> Nat],
           NEW r \in Slots, SpawnCheckin(r), slots[r].session \in 1 .. MaxSessions
    PROVE  /\ tasks' \in [TaskKinds \X (1 .. MaxSessions) -> Nat]
           /\ \A kind \in TaskKinds, t \in 1 .. MaxSessions :
                 tasks'[<<kind, t>>] =
                    IF t = slots[r].session /\ kind \in {"checkin", "profile", "xp"}
                      THEN tasks[<<kind, t>>] + 1
                      ELSE tasks[<<kind, t>>]
<1>1. PICK s \in 1 .. MaxSessions : s = slots[r].session
  OBVIOUS
<1>2. \A kind \in TaskKinds, t \in 1 .. MaxSessions :
         <<kind, t>> \in TaskKinds \X (1 .. MaxSessions)
  OBVIOUS
<1>3. tasks' = [tasks EXCEPT ![<<"checkin", s>>] = @ + 1,
                             ![<<"profile", s>>] = @ + 1, ![<<"xp", s>>] = @ + 1]
  BY <1>1 DEF SpawnCheckin
<1>4. tasks' \in [TaskKinds \X (1 .. MaxSessions) -> Nat]
  <2>1. PICK one : one = [tasks EXCEPT ![<<"checkin", s>>] = @ + 1]
    OBVIOUS
  <2>2. PICK two : two = [one EXCEPT ![<<"profile", s>>] = @ + 1]
    OBVIOUS
  <2>3. tasks' = [two EXCEPT ![<<"xp", s>>] = @ + 1]
    BY <1>3, <2>1, <2>2
  <2>4. one \in [TaskKinds \X (1 .. MaxSessions) -> Nat]
    BY <1>2, <2>1 DEF TaskKinds
  <2>5. two \in [TaskKinds \X (1 .. MaxSessions) -> Nat]
    BY <1>2, <2>2, <2>4 DEF TaskKinds
  <2>. QED  BY <1>2, <2>3, <2>5 DEF TaskKinds
<1>5. ASSUME NEW kind \in TaskKinds, NEW t \in 1 .. MaxSessions,
             ~(t = s /\ kind \in {"checkin", "profile", "xp"})
      PROVE  tasks'[<<kind, t>>] = tasks[<<kind, t>>]
  BY <1>2, <1>3, <1>5
<1>6. /\ tasks'[<<"checkin", s>>] = tasks[<<"checkin", s>>] + 1
      /\ tasks'[<<"profile", s>>] = tasks[<<"profile", s>>] + 1
      /\ tasks'[<<"xp", s>>] = tasks[<<"xp", s>>] + 1
  BY <1>2, <1>3 DEF TaskKinds
<1>. QED  BY <1>1, <1>4, <1>5, <1>6

\* The first statement of a call for XP leaves the second to be made.
LEMMA XPTasks ==
    ASSUME tasks \in [TaskKinds \X (1 .. MaxSessions) -> Nat],
           NEW s \in 1 .. MaxSessions, AddGlobalXP(s)
    PROVE  /\ tasks' \in [TaskKinds \X (1 .. MaxSessions) -> Nat]
           /\ tasks[<<"xp", s>>] > 0
           /\ \A kind \in TaskKinds, t \in 1 .. MaxSessions :
                 tasks'[<<kind, t>>] =
                    CASE t = s /\ kind = "xp"       -> tasks[<<kind, t>>] - 1
                      [] t = s /\ kind = "local_xp" -> tasks[<<kind, t>>] + 1
                      [] OTHER                      -> tasks[<<kind, t>>]
<1>1. \A kind \in TaskKinds, t \in 1 .. MaxSessions :
         <<kind, t>> \in TaskKinds \X (1 .. MaxSessions)
  OBVIOUS
<1>2. /\ tasks[<<"xp", s>>] > 0
      /\ tasks' = [tasks EXCEPT ![<<"xp", s>>] = @ - 1, ![<<"local_xp", s>>] = @ + 1]
  BY DEF AddGlobalXP
<1>3. /\ <<"xp", s>> \in TaskKinds \X (1 .. MaxSessions)
      /\ <<"local_xp", s>> \in TaskKinds \X (1 .. MaxSessions)
      /\ <<"xp", s>> # <<"local_xp", s>>
  BY DEF TaskKinds
<1>4. tasks[<<"xp", s>>] - 1 \in Nat /\ tasks[<<"local_xp", s>>] + 1 \in Nat
  BY <1>2, <1>3
<1>5. PICK one : one = [tasks EXCEPT ![<<"xp", s>>] = @ - 1]
  OBVIOUS
<1>6. /\ one \in [TaskKinds \X (1 .. MaxSessions) -> Nat]
      /\ one[<<"local_xp", s>>] = tasks[<<"local_xp", s>>]
  BY <1>3, <1>4, <1>5
<1>7. tasks' = [one EXCEPT ![<<"local_xp", s>>] = @ + 1]
  BY <1>2, <1>5
<1>8. tasks' \in [TaskKinds \X (1 .. MaxSessions) -> Nat]
  BY <1>4, <1>6, <1>7
<1>9. /\ tasks'[<<"xp", s>>] = tasks[<<"xp", s>>] - 1
      /\ tasks'[<<"local_xp", s>>] = tasks[<<"local_xp", s>>] + 1
  BY <1>3, <1>5, <1>6, <1>7
<1>10. ASSUME NEW kind \in TaskKinds, NEW t \in 1 .. MaxSessions,
              ~(t = s /\ kind \in {"xp", "local_xp"})
       PROVE  tasks'[<<kind, t>>] = tasks[<<kind, t>>]
  <2>1. <<kind, t>> # <<"xp", s>> /\ <<kind, t>> # <<"local_xp", s>>
    BY <1>10
  <2>. QED  BY <1>1, <1>5, <1>6, <1>7, <2>1
<1>. QED  BY <1>2, <1>8, <1>9, <1>10

\* A check-out starts one goroutine.
LEMMA ClosedTasks ==
    ASSUME tasks \in [TaskKinds \X (1 .. MaxSessions) -> Nat],
           NEW r \in Slots, SpawnClosed(r), slots[r].session \in 1 .. MaxSessions
    PROVE  /\ tasks' \in [TaskKinds \X (1 .. MaxSessions) -> Nat]
           /\ \A kind \in TaskKinds, t \in 1 .. MaxSessions :
                 tasks'[<<kind, t>>] =
                    IF t = slots[r].session /\ kind = "closed"
                      THEN tasks[<<kind, t>>] + 1
                      ELSE tasks[<<kind, t>>]
<1>1. PICK s \in 1 .. MaxSessions : s = slots[r].session
  OBVIOUS
<1>2. \A kind \in TaskKinds, t \in 1 .. MaxSessions :
         <<kind, t>> \in TaskKinds \X (1 .. MaxSessions)
  OBVIOUS
<1>3. tasks' = [tasks EXCEPT ![<<"closed", s>>] = @ + 1]
  BY <1>1 DEF SpawnClosed
<1>. QED  BY <1>1, <1>2, <1>3 DEF TaskKinds

\* Of any other step but the calls, no goroutine hears.
LEMMA TasksElsewhere ==
    ASSUME [Next]_vars
    PROVE  \/ tasks' = tasks
           \/ \E r \in Slots : SpawnCheckin(r) \/ SpawnClosed(r)
           \/ \E s \in Ids : AddGlobalXP(s) \/ \E kind \in TaskKinds : TaskDone(kind, s)
<1>1. \A kind \in {"checkin", "closed", "profile", "local_xp"} : kind \in TaskKinds
  BY DEF TaskKinds
<1>. QED
  BY <1>1 DEF Next, vars, profile_vars, StartCheckin, OpenSession, StartCheckout,
              CloseSession, Abandon, PostCheckin, PostClosed, UpsertVenueProfile,
              AddLocalXP, LoseTask

\* A goroutine is started for a session that is there, and one that tells of a
\* closing after it.
LEMMA TasksKnowKept ==
    ASSUME SInv, [Next]_vars, SessionsKept
    PROVE  TasksKnow' /\ tasks' \in [TaskKinds \X (1 .. MaxSessions) -> Nat]
<1>. DEFINE Knows(kind, t) == t \in Ids /\ (kind = "closed" => venue_sessions[t].status = "closed")
<1>0. /\ tasks \in [TaskKinds \X (1 .. MaxSessions) -> Nat]
      /\ Ids \subseteq 1 .. MaxSessions
      /\ \A kind \in TaskKinds, t \in 1 .. MaxSessions :
            tasks[<<kind, t>>] > 0 => Knows(kind, t)
  BY SessionsAreNumbered DEF SInv, SessionsTypeOK, TasksKnow
<1>1. ASSUME \A kind \in TaskKinds, t \in 1 .. MaxSessions :
                tasks'[<<kind, t>>] > 0 => tasks[<<kind, t>>] > 0 \/ Knows(kind, t)
      PROVE  TasksKnow'
  <2>1. ASSUME NEW kind \in TaskKinds, NEW t \in 1 .. MaxSessions, Knows(kind, t)
        PROVE  Knows(kind, t)'
    BY <2>1 DEF SessionsKept
  <2>. QED  BY <1>0, <1>1, <2>1 DEF TasksKnow
<1>2. CASE tasks' = tasks
  BY <1>0, <1>1, <1>2
<1>3. ASSUME NEW kind \in TaskKinds, NEW s \in Ids, TaskDone(kind, s)
      PROVE  TasksKnow' /\ tasks' \in [TaskKinds \X (1 .. MaxSessions) -> Nat]
  <2>1. tasks[<<kind, s>>] > 0
    BY <1>3 DEF TaskDone
  <2>2. /\ tasks' \in [TaskKinds \X (1 .. MaxSessions) -> Nat]
        /\ \A k \in TaskKinds, t \in 1 .. MaxSessions :
              k # kind \/ t # s => tasks'[<<k, t>>] = tasks[<<k, t>>]
    BY <1>0, <1>3, TaskTaken
  <2>3. ASSUME NEW k \in TaskKinds, NEW t \in 1 .. MaxSessions, tasks'[<<k, t>>] > 0
        PROVE  tasks[<<k, t>>] > 0
    BY <2>1, <2>2, <2>3
  <2>4. TasksKnow'
    BY <1>1, <2>3
  <2>. QED  BY <2>2, <2>4
<1>4. ASSUME NEW r \in Slots, SpawnCheckin(r)
      PROVE  TasksKnow' /\ tasks' \in [TaskKinds \X (1 .. MaxSessions) -> Nat]
  <2>1. slots[r].session \in Ids
    BY <1>4 DEF SpawnCheckin, SInv, SlotsKnow
  <2>. QED  BY <1>0, <1>1, <1>4, <2>1, CheckinTasks
<1>5. ASSUME NEW r \in Slots, SpawnClosed(r)
      PROVE  TasksKnow' /\ tasks' \in [TaskKinds \X (1 .. MaxSessions) -> Nat]
  <2>1. PICK s \in Ids : s = slots[r].session /\ venue_sessions[s].status = "closed"
    BY <1>5 DEF SpawnClosed, SInv, SlotsKnow
  <2>2. /\ tasks' \in [TaskKinds \X (1 .. MaxSessions) -> Nat]
        /\ \A kind \in TaskKinds, t \in 1 .. MaxSessions :
              ~(t = s /\ kind = "closed") => tasks'[<<kind, t>>] = tasks[<<kind, t>>]
    BY <1>0, <1>5, <2>1, ClosedTasks
  <2>3. TasksKnow'
    BY <1>1, <2>1, <2>2
  <2>. QED  BY <2>2, <2>3
<1>6. ASSUME NEW s \in Ids, AddGlobalXP(s)
      PROVE  TasksKnow' /\ tasks' \in [TaskKinds \X (1 .. MaxSessions) -> Nat]
  <2>1. /\ tasks' \in [TaskKinds \X (1 .. MaxSessions) -> Nat]
        /\ \A kind \in TaskKinds, t \in 1 .. MaxSessions :
              t # s \/ kind \notin {"xp", "local_xp"} => tasks'[<<kind, t>>] = tasks[<<kind, t>>]
    BY <1>0, <1>6, XPTasks
  <2>. QED  BY <1>0, <1>1, <2>1
<1>. QED  BY <1>2, <1>3, <1>4, <1>5, <1>6, <1>0, TasksElsewhere

\* What the ledger may say of session s.
Tells(e, s) ==
    /\ e.idempotency_key \in {CheckinKey(s), ClosedKey(s)}
    /\ <<e.user_id, e.venue_id>> = GuestOf(s)
    /\ e.event_type \in {"venue_checkin", "session_closed"}
    /\ e.event_type = "session_closed" => venue_sessions[s].status = "closed"
    /\ e.idempotency_key = ClosedKey(s) => e.event_type = "session_closed"

\* Only session events are written, each about a session, and a closing after it.
LedgerStep ==
    \/ ledger_events' = ledger_events
    \/ \E s \in Ids, row \in LedgerRow(Keys) :
          Tells(row, s) /\ ledger_events' = ledger_events \cup {row}

\* Every write to the ledger is about a session of the guest and venue it names.
LEMMA LedgerStepped ==
    ASSUME SInv, [Next]_vars
    PROVE  LedgerStep /\ [LedgerAppend]_ledger_events
<1>0. /\ Ids \subseteq 1 .. MaxSessions
      /\ \A s \in Ids : venue_sessions[s] \in Session
  BY SessionsAreNumbered DEF SInv, SessionsTypeOK
<1>1. ASSUME ledger_events' = ledger_events
      PROVE  LedgerStep /\ [LedgerAppend]_ledger_events
  BY <1>1 DEF LedgerStep
<1>2. ASSUME NEW s \in Ids, NEW type \in {"venue_checkin", "session_closed"},
             NEW key \in {CheckinKey(s), ClosedKey(s)},
             type = "session_closed" => venue_sessions[s].status = "closed",
             key = ClosedKey(s) => type = "session_closed",
             WriteEvent("sessions", SessionRequest(type, s, key))
      PROVE  LedgerStep /\ [LedgerAppend]_ledger_events
  <2>. DEFINE req == SessionRequest(type, s, key)
              row == Row("sessions", req)
  <2>1. CASE ledger_events' # ledger_events
    <3>1. ledger_events' = ledger_events \cup {row}
      BY <1>2, <2>1, WriteEventAppends
    <3>2. key \in Keys
      BY <1>0 DEF Keys
    <3>3. row \in LedgerRow(Keys)
      BY <1>0, <3>2 DEF Row, SessionRequest, WriteRequest, LedgerRow, AuthorisedWriters, Session
    <3>4. Tells(row, s)
      BY <1>2 DEF Tells, Row, SessionRequest, WriteRequest, GuestOf
    <3>. HIDE DEF row
    <3>5. LedgerStep
      BY <3>1, <3>3, <3>4 DEF LedgerStep
    <3>. QED  BY <1>2, <3>5, WriteEventContract
  <2>. QED  BY <1>1, <2>1
<1>3. ASSUME NEW s \in Ids, PostCheckin(s)
      PROVE  LedgerStep /\ [LedgerAppend]_ledger_events
  <2>1. CheckinKey(s) # ClosedKey(s)
    BY DEF CheckinKey, ClosedKey
  <2>. QED  BY <1>2, <1>3, <2>1 DEF PostCheckin
<1>4. ASSUME NEW s \in Ids, PostClosed(s)
      PROVE  LedgerStep /\ [LedgerAppend]_ledger_events
  <2>1. venue_sessions[s].status = "closed"
    BY <1>0, <1>4 DEF PostClosed, TaskDone, SInv, TasksKnow, TaskKinds
  <2>. QED  BY <1>2, <1>4, <2>1 DEF PostClosed
<1>. QED
  BY <1>1, <1>3, <1>4
     DEF Next, vars, profile_vars, StartCheckin, OpenSession, SpawnCheckin,
         StartCheckout, CloseSession, SpawnClosed, Abandon, UpsertVenueProfile,
         AddGlobalXP, AddLocalXP, LoseTask

\* What was true of a session when it was written stays true.
LEMMA SessionEventsTrueKept ==
    ASSUME SInv, SessionsKept, LedgerStep
    PROVE  SessionEventsTrue' /\ ledger_events' \subseteq LedgerRow(Keys)
<1>. DEFINE True(e, s) == /\ e.idempotency_key \in {CheckinKey(s), ClosedKey(s)}
                          /\ <<e.user_id, e.venue_id>> = GuestOf(s)
                          /\ e.event_type = "session_closed" =>
                                venue_sessions[s].status = "closed"
<1>1. ASSUME NEW e, NEW s \in Ids, True(e, s) PROVE s \in Ids' /\ True(e, s)'
  BY <1>1 DEF SessionsKept, GuestOf
<1>2. \A e \in ledger_events : \E s \in Ids : True(e, s)
  BY DEF SInv, SessionEventsTrue
<1>3. \A e \in ledger_events' : \E s \in Ids : True(e, s)
  BY <1>2 DEF LedgerStep, Tells
<1>4. \A e \in ledger_events' : \E s \in Ids' : True(e, s)'
  BY <1>1, <1>3
<1>5. SessionEventsTrue'
  BY <1>4 DEF SessionEventsTrue
<1>6. ledger_events' \subseteq LedgerRow(Keys)
  BY DEF SInv, SessionsTypeOK, LedgerStep
<1>. QED  BY <1>5, <1>6

\* The key of a closing is taken after it.
LEMMA ClosedKeysKnowKept ==
    ASSUME SInv, SessionsKept, LedgerStep
    PROVE  ClosedKeysKnow'
<1>1. ASSUME NEW s \in 1 .. MaxSessions, NEW e \in ledger_events',
             e.idempotency_key = ClosedKey(s)
      PROVE  s \in Ids /\ venue_sessions[s].status = "closed"
  <2>1. CASE e \in ledger_events
    BY <1>1, <2>1 DEF SInv, ClosedKeysKnow, KeyTaken
  <2>2. ASSUME NEW t \in Ids, Tells(e, t)
        PROVE  s \in Ids /\ venue_sessions[s].status = "closed"
    <3>1. ClosedKey(s) = ClosedKey(t)
      BY <1>1, <2>2 DEF Tells, CheckinKey, ClosedKey
    <3>2. s = t
      BY <3>1 DEF ClosedKey
    <3>. QED  BY <1>1, <2>2, <3>2 DEF Tells
  <2>. QED  BY <1>1, <2>1, <2>2 DEF LedgerStep
<1>2. ASSUME NEW s \in Ids, venue_sessions[s].status = "closed"
      PROVE  s \in Ids' /\ venue_sessions'[s].status = "closed"
  BY <1>2 DEF SessionsKept
<1>. QED  BY <1>1, <1>2 DEF ClosedKeysKnow, KeyTaken, ClosedKey

-----------------------------------------------------------------------------
\* A closing is announced once

\* How what announces the closing of session s may change in a step: nothing is
\* added; a handler passes it on to a goroutine; a goroutine makes its call; or
\* the session, open until now, is closed by one handler.
AnnounceStep(s) ==
    LET running == tasks[<<"closed", s>>]
        told    == KeyTaken(ClosedKey(s))
    IN  \/ /\ Announcing(s)' \subseteq Announcing(s)
           /\ running' <= running
           /\ told' => told
        \/ /\ \E r \in Announcing(s) : Announcing(s)' \subseteq Announcing(s) \ {r}
           /\ running' = running + 1
           /\ told' => told
        \/ /\ Announcing(s)' \subseteq Announcing(s)
           /\ running' = running - 1
        \/ /\ s \in Ids /\ venue_sessions[s].status = "open"
           /\ \E r \in Slots : Announcing(s)' \subseteq {r}
           /\ running' = running
           /\ told' => told

\* Whatever the step, it is one of these.
LEMMA AnnounceStepped ==
    ASSUME SInv, [Next]_vars, NEW s \in 1 .. MaxSessions
    PROVE  AnnounceStep(s)
<1>0. /\ slots \in [Slots -> CheckSlot]
      /\ tasks \in [TaskKinds \X (1 .. MaxSessions) -> Nat]
      /\ Ids \subseteq 1 .. MaxSessions
      /\ "closed" \in TaskKinds
      /\ tasks[<<"closed", s>>] \in Nat
      /\ Idle.pc # "announce"
  <2>1. "closed" \in TaskKinds /\ Idle.pc # "announce"
    BY DEF TaskKinds, Idle
  <2>. QED  BY <2>1, SessionsAreNumbered DEF SInv, SessionsTypeOK
<1>1. ASSUME NEW r \in Slots, NEW y, slots' = [slots EXCEPT ![r] = y], y.pc # "announce"
      PROVE  Announcing(s)' \subseteq Announcing(s) \ {r}
  BY <1>0, <1>1 DEF Announcing
<1>2. ASSUME slots' = slots PROVE Announcing(s)' = Announcing(s)
  BY <1>2 DEF Announcing
<1>3. ASSUME ledger_events' = ledger_events, KeyTaken(ClosedKey(s))'
      PROVE  KeyTaken(ClosedKey(s))
  BY <1>3 DEF KeyTaken, ClosedKey
<1>4. ASSUME NEW r \in Slots,
             \/ \E u \in Users, v \in Venues : StartCheckin(r, u, v)
             \/ OpenSession(r) \/ Abandon(r) \/ \E t \in Ids : StartCheckout(r, t)
      PROVE  AnnounceStep(s)
  <2>1. Announcing(s)' \subseteq Announcing(s)
    <3>1. ASSUME NEW pc \in {"insert", "spawn", "close"}, NEW u, NEW v, NEW t,
                 At(r, pc, u, v, t)
          PROVE  Announcing(s)' \subseteq Announcing(s)
      <4>1. PICK y : y = [pc |-> pc, user |-> u, venue |-> v, session |-> t]
        OBVIOUS
      <4>2. slots' = [slots EXCEPT ![r] = y] /\ y.pc # "announce"
        BY <3>1, <4>1 DEF At
      <4>. QED  BY <1>1, <4>2
    <3>. QED
      BY <1>0, <1>1, <1>4, <3>1 DEF StartCheckin, OpenSession, Abandon, StartCheckout
  <2>2. tasks' = tasks /\ ledger_events' = ledger_events
    BY <1>4 DEF StartCheckin, OpenSession, Abandon, StartCheckout
  <2>. QED  BY <1>0, <1>3, <2>1, <2>2 DEF AnnounceStep
<1>5. ASSUME NEW r \in Slots, SpawnCheckin(r) PROVE AnnounceStep(s)
  <2>1. Announcing(s)' \subseteq Announcing(s)
    BY <1>0, <1>1, <1>5 DEF SpawnCheckin
  <2>2. slots[r].session \in 1 .. MaxSessions
    BY <1>0, <1>5 DEF SpawnCheckin, SInv, SlotsKnow
  <2>3. tasks'[<<"closed", s>>] = tasks[<<"closed", s>>]
    BY <1>0, <1>5, <2>2, CheckinTasks
  <2>4. ledger_events' = ledger_events
    BY <1>5 DEF SpawnCheckin
  <2>. QED  BY <1>0, <1>3, <2>1, <2>3, <2>4 DEF AnnounceStep
<1>6. ASSUME NEW r \in Slots, CloseSession(r) PROVE AnnounceStep(s)
  <2>1. tasks' = tasks /\ ledger_events' = ledger_events
    BY <1>6 DEF CloseSession
  <2>2. CASE slots' = [slots EXCEPT ![r] = Idle]
    <3>1. Announcing(s)' \subseteq Announcing(s)
      BY <1>0, <1>1, <2>2
    <3>. QED  BY <1>0, <1>3, <2>1, <3>1 DEF AnnounceStep
  <2>3. CASE /\ venue_sessions[slots[r].session].status = "open"
             /\ slots' = [slots EXCEPT ![r].pc = "announce"]
    <3>1. CASE s = slots[r].session
      <4>1. s \in Ids
        BY <1>6, <3>1 DEF CloseSession, SInv, SlotsKnow
      <4>2. Announcing(s) = {}
        BY <2>3, <3>1 DEF Announcing, SInv, SlotsKnow
      <4>3. Announcing(s)' \subseteq {r}
        BY <1>0, <2>3, <4>2 DEF Announcing
      <4>. QED  BY <1>0, <1>3, <2>1, <2>3, <3>1, <4>1, <4>3 DEF AnnounceStep
    <3>2. CASE s # slots[r].session
      <4>1. slots'[r].session = slots[r].session
        BY <1>0, <2>3 DEF CheckSlot
      <4>2. \A q \in Slots : q # r => slots'[q] = slots[q]
        BY <1>0, <2>3
      <4>3. Announcing(s)' \subseteq Announcing(s)
        BY <3>2, <4>1, <4>2 DEF Announcing
      <4>. QED  BY <1>0, <1>3, <2>1, <4>3 DEF AnnounceStep
    <3>. QED  BY <3>1, <3>2
  <2>. QED  BY <1>6, <2>2, <2>3 DEF CloseSession
<1>7. ASSUME NEW r \in Slots, SpawnClosed(r) PROVE AnnounceStep(s)
  <2>1. /\ slots[r].session \in 1 .. MaxSessions
        /\ slots[r].pc = "announce"
        /\ slots' = [slots EXCEPT ![r] = Idle]
        /\ ledger_events' = ledger_events
    BY <1>0, <1>7 DEF SpawnClosed, SInv, SlotsKnow
  <2>2. Announcing(s)' \subseteq Announcing(s) \ {r}
    BY <1>0, <1>1, <2>1
  <2>3. CASE s = slots[r].session
    <3>1. r \in Announcing(s)
      BY <2>1, <2>3 DEF Announcing
    <3>2. tasks'[<<"closed", s>>] = tasks[<<"closed", s>>] + 1
      BY <1>0, <1>7, <2>1, <2>3, ClosedTasks
    <3>. QED  BY <1>3, <2>1, <2>2, <3>1, <3>2 DEF AnnounceStep
  <2>4. CASE s # slots[r].session
    <3>1. tasks'[<<"closed", s>>] = tasks[<<"closed", s>>]
      BY <1>0, <1>7, <2>1, <2>4, ClosedTasks
    <3>. QED  BY <1>0, <1>3, <2>1, <2>2, <3>1 DEF AnnounceStep
  <2>. QED  BY <2>3, <2>4
<1>8. ASSUME NEW t \in Ids, NEW kind \in TaskKinds, TaskDone(kind, t), slots' = slots,
             \/ kind = "closed" /\ t = s
             \/ KeyTaken(ClosedKey(s))' => KeyTaken(ClosedKey(s))
      PROVE  AnnounceStep(s)
  <2>1. /\ tasks'[<<kind, t>>] = tasks[<<kind, t>>] - 1
        /\ kind # "closed" \/ t # s => tasks'[<<"closed", s>>] = tasks[<<"closed", s>>]
    BY <1>0, <1>8, TaskTaken
  <2>2. CASE kind = "closed" /\ t = s
    BY <1>2, <1>8, <2>1, <2>2 DEF AnnounceStep
  <2>3. CASE ~(kind = "closed" /\ t = s)
    BY <1>0, <1>2, <1>8, <2>1, <2>3 DEF AnnounceStep
  <2>. QED  BY <2>2, <2>3
<1>9. ASSUME NEW t \in Ids, PostCheckin(t) \/ PostClosed(t)
      PROVE  AnnounceStep(s)
  <2>1. slots' = slots
    BY <1>9 DEF PostCheckin, PostClosed
  <2>2. CASE PostCheckin(t)
    <3>1. KeyTaken(ClosedKey(s))' => KeyTaken(ClosedKey(s))
      <4>. DEFINE row == Row("sessions", SessionRequest("venue_checkin", t, CheckinKey(t)))
      <4>1. ledger_events' = ledger_events \/ ledger_events' = ledger_events \cup {row}
        BY <2>2, WriteEventAppends DEF PostCheckin
      <4>2. row.idempotency_key # ClosedKey(s)
        BY DEF Row, SessionRequest, WriteRequest, CheckinKey, ClosedKey
      <4>. HIDE DEF row
      <4>. QED  BY <4>1, <4>2 DEF KeyTaken, ClosedKey
    <3>2. TaskDone("checkin", t) /\ "checkin" \in TaskKinds
      BY <2>2 DEF PostCheckin, TaskKinds
    <3>. QED  BY <1>8, <2>1, <3>1, <3>2
  <2>3. CASE PostClosed(t)
    <3>1. TaskDone("closed", t)
      BY <2>3 DEF PostClosed
    <3>2. CASE t = s
      BY <1>0, <1>8, <2>1, <3>1, <3>2
    <3>3. CASE t # s
      <4>. DEFINE row == Row("sessions", SessionRequest("session_closed", t, ClosedKey(t)))
      <4>1. ledger_events' = ledger_events \/ ledger_events' = ledger_events \cup {row}
        BY <2>3, WriteEventAppends DEF PostClosed
      <4>2. row.idempotency_key # ClosedKey(s)
        BY <3>3 DEF Row, SessionRequest, WriteRequest, ClosedKey
      <4>. HIDE DEF row
      <4>3. KeyTaken(ClosedKey(s))' => KeyTaken(ClosedKey(s))
        BY <4>1, <4>2 DEF KeyTaken, ClosedKey
      <4>. QED  BY <1>0, <1>8, <2>1, <3>1, <4>3
    <3>. QED  BY <3>2, <3>3
  <2>. QED  BY <1>9, <2>2, <2>3
<1>10. ASSUME NEW t \in Ids, \/ UpsertVenueProfile(t) \/ AddLocalXP(t)
                             \/ \E kind \in TaskKinds : LoseTask(kind, t)
       PROVE  AnnounceStep(s)
  <2>1. PICK kind \in TaskKinds : TaskDone(kind, t)
    BY <1>10 DEF UpsertVenueProfile, AddLocalXP, LoseTask, TaskKinds
  <2>2. slots' = slots /\ ledger_events' = ledger_events
    BY <1>10 DEF UpsertVenueProfile, AddLocalXP, LoseTask
  <2>. QED  BY <1>3, <1>8, <2>1, <2>2
<1>11. ASSUME NEW t \in Ids, AddGlobalXP(t) PROVE AnnounceStep(s)
  <2>1. tasks'[<<"closed", s>>] = tasks[<<"closed", s>>]
    BY <1>0, <1>11, XPTasks
  <2>2. slots' = slots /\ ledger_events' = ledger_events
    BY <1>11 DEF AddGlobalXP
  <2>. QED  BY <1>0, <1>2, <1>3, <2>1, <2>2 DEF AnnounceStep
<1>12. CASE UNCHANGED vars
  BY <1>0, <1>2, <1>3, <1>12 DEF vars, AnnounceStep
<1>. QED
  BY <1>4, <1>5, <1>6, <1>7, <1>9, <1>10, <1>11, <1>12 DEF Next

\* No such step announces a closing a second time.
LEMMA AnnouncedOnceKept ==
    ASSUME SInv, [Next]_vars, SessionsKept
    PROVE  CloseAnnouncedOnce'
<1>. DEFINE Told(s) == IF KeyTaken(ClosedKey(s)) THEN 1 ELSE 0
<1>0. /\ Ids \subseteq 1 .. MaxSessions /\ IsFiniteSet(Slots)
      /\ tasks \in [TaskKinds \X (1 .. MaxSessions) -> Nat] /\ "closed" \in TaskKinds
  BY SessionsAreNumbered, SessionsAssumption DEF SInv, SessionsTypeOK, TaskKinds
<1>1. Ids' \subseteq 1 .. MaxSessions
  BY LenProperties, SessionsAssumption DEF SessionsKept, Ids
<1>2. ASSUME NEW s \in 1 .. MaxSessions,
             ~(s \in Ids /\ venue_sessions[s].status = "closed")
      PROVE  Announcing(s) = {} /\ tasks[<<"closed", s>>] = 0 /\ ~KeyTaken(ClosedKey(s))
  BY <1>0, <1>2 DEF SInv, SlotsKnow, TasksKnow, ClosedKeysKnow, Announcing
<1>3. ASSUME NEW s \in 1 .. MaxSessions
      PROVE  Cardinality(Announcing(s)) + tasks[<<"closed", s>>] + Told(s) <= 1
  <2>1. CASE s \in Ids
    BY <2>1 DEF SInv, CloseAnnouncedOnce
  <2>2. CASE s \notin Ids
    BY <1>2, <2>2, FS_EmptySet
  <2>. QED  BY <2>1, <2>2
<1>4. ASSUME NEW s \in 1 .. MaxSessions
      PROVE  Cardinality(Announcing(s)') + tasks'[<<"closed", s>>] + Told(s)' <= 1
  <2>1. PICK A \in SUBSET Slots : A = Announcing(s)
    BY DEF Announcing
  <2>2. PICK B \in SUBSET Slots : B = Announcing(s)'
    BY DEF Announcing
  <2>3. PICK m, n \in Nat : m = tasks[<<"closed", s>>] /\ n = tasks'[<<"closed", s>>]
    <3>1. tasks' \in [TaskKinds \X (1 .. MaxSessions) -> Nat]
      BY TasksKnowKept
    <3>. QED  BY <1>0, <3>1
  <2>4. PICK k, l \in {0, 1} : k = Told(s) /\ l = Told(s)'
    OBVIOUS
  <2>5. /\ IsFiniteSet(A) /\ Cardinality(A) \in Nat
        /\ IsFiniteSet(B) /\ Cardinality(B) \in Nat
        /\ B \subseteq A => Cardinality(B) <= Cardinality(A)
        /\ \A r \in A : B \subseteq A \ {r} => Cardinality(B) <= Cardinality(A) - 1
        /\ \A r \in Slots : B \subseteq {r} => Cardinality(B) <= 1
    <3>1. IsFiniteSet(A) /\ IsFiniteSet(B)
      BY <1>0, FS_Subset
    <3>2. ASSUME NEW r \in A, B \subseteq A \ {r}
          PROVE  Cardinality(B) <= Cardinality(A) - 1
      <4>1. IsFiniteSet(A \ {r}) /\ Cardinality(A \ {r}) = Cardinality(A) - 1
        BY <3>1, FS_RemoveElement
      <4>. QED  BY <3>2, <4>1, FS_Subset
    <3>3. ASSUME NEW r \in Slots, B \subseteq {r} PROVE Cardinality(B) <= 1
      <4>1. IsFiniteSet({r}) /\ Cardinality({r}) = 1
        BY FS_Singleton
      <4>. QED  BY <3>3, <4>1, FS_Subset
    <3>. QED  BY <3>1, <3>2, <3>3, FS_Subset, FS_CardinalityType
  <2>6. Cardinality(A) + m + k <= 1
    BY <1>3, <2>1, <2>3, <2>4
  <2>7. \/ B \subseteq A /\ n <= m /\ l <= k
        \/ (\E r \in A : B \subseteq A \ {r}) /\ n = m + 1 /\ l <= k
        \/ B \subseteq A /\ n = m - 1
        \/ (\E r \in Slots : B \subseteq {r}) /\ n = 0 /\ l = 0
    BY <1>2, <2>1, <2>2, <2>3, <2>4, AnnounceStepped DEF AnnounceStep
  <2>8. Cardinality(B) + n + l <= 1
    <3>. HIDE DEF Told
    <3>1. CASE B \subseteq A /\ n <= m /\ l <= k
      BY <2>5, <2>6, <3>1
    <3>2. CASE (\E r \in A : B \subseteq A \ {r}) /\ n = m + 1 /\ l <= k
      BY <2>5, <2>6, <3>2
    <3>3. CASE B \subseteq A /\ n = m - 1
      BY <2>5, <2>6, <3>3
    <3>4. CASE (\E r \in Slots : B \subseteq {r}) /\ n = 0 /\ l = 0
      BY <2>5, <3>4
    <3>. QED  BY <2>7, <3>1, <3>2, <3>3, <3>4
  <2>. QED  BY <2>2, <2>3, <2>4, <2>8
<1>. QED  BY <1>1, <1>4 DEF CloseAnnouncedOnce

-----------------------------------------------------------------------------
\* The goroutines that wait, the visits and the XP

\* A session that is not there yet has no goroutine after the step either.
LEMMA NoTasksYet ==
    ASSUME SInv, [Next]_vars, NEW kind \in TaskKinds, NEW t \in 1 .. MaxSessions, t \notin Ids
    PROVE  tasks'[<<kind, t>>] = 0
<1>0. /\ tasks \in [TaskKinds \X (1 .. MaxSessions) -> Nat]
      /\ Ids \subseteq 1 .. MaxSessions
      /\ \A r \in Slots : slots[r].pc \in {"spawn", "announce"} => slots[r].session \in Ids
  BY SessionsAreNumbered DEF SInv, SessionsTypeOK, SlotsKnow
<1>1. tasks[<<kind, t>>] = 0
  BY <1>0 DEF SInv, TasksKnow
<1>2. ASSUME NEW r \in Slots, SpawnCheckin(r) PROVE tasks'[<<kind, t>>] = tasks[<<kind, t>>]
  <2>1. slots[r].session \in Ids
    BY <1>0, <1>2 DEF SpawnCheckin
  <2>. QED  BY <1>0, <1>2, <2>1, CheckinTasks
<1>3. ASSUME NEW r \in Slots, SpawnClosed(r) PROVE tasks'[<<kind, t>>] = tasks[<<kind, t>>]
  <2>1. slots[r].session \in Ids
    BY <1>0, <1>3 DEF SpawnClosed
  <2>. QED  BY <1>0, <1>3, <2>1, ClosedTasks
<1>4. ASSUME NEW s \in Ids, AddGlobalXP(s) PROVE tasks'[<<kind, t>>] = tasks[<<kind, t>>]
  BY <1>0, <1>4, XPTasks
<1>5. ASSUME NEW s \in Ids, NEW k \in TaskKinds, TaskDone(k, s)
      PROVE  tasks'[<<kind, t>>] = tasks[<<kind, t>>]
  <2>1. \A m \in TaskKinds, n \in 1 .. MaxSessions :
           m # k \/ n # s => tasks'[<<m, n>>] = tasks[<<m, n>>]
    BY <1>0, <1>5, TaskTaken
  <2>2. t # s
    OBVIOUS
  <2>. QED  BY <2>1, <2>2
<1>. QED  BY <1>1, <1>2, <1>3, <1>4, <1>5, TasksElsewhere

\* A user has a number of calls to come for the local XP.
LEMMA WaitingIsNatural ==
    ASSUME SInv, NEW u
    PROVE  Waiting("local_xp", SessionsBy(u)) \in Nat
<1>1. PICK S : S = SessionsBy(u)
  OBVIOUS
<1>2. PICK f : f = [s \in S |-> tasks[<<"local_xp", s>>]]
  OBVIOUS
<1>3. S \subseteq 1 .. MaxSessions
  BY <1>1, SessionsAreNumbered DEF SInv, SessionsTypeOK, SessionsBy
<1>4. IsFiniteSet(S)
  <2>1. IsFiniteSet(1 .. MaxSessions)
    BY SessionsAssumption, FS_Interval
  <2>. QED  BY <1>3, <2>1, FS_Subset
<1>5. \A s \in S : f[s] \in Nat
  BY <1>2, <1>3 DEF SInv, SessionsTypeOK, TaskKinds
<1>6. SumFunctionOnSet(f, S) \in Nat
  BY <1>4, <1>5, SumNat
<1>. QED  BY <1>1, <1>2, <1>6 DEF Waiting

\* The goroutines of a kind stay, but for those of session x.
ChangesAt(kind, x) ==
    \A s \in Ids : s # x => tasks'[<<kind, s>>] = tasks[<<kind, s>>]

\* The goroutines that wait for the sessions in S follow those of session x, when
\* those of no other change; T has the sessions of S and those opened by the step.
LEMMA WaitingStepped ==
    ASSUME SInv, [Next]_vars, SessionsKept, NEW kind \in TaskKinds,
           NEW S \in SUBSET Ids, NEW T \in SUBSET (1 .. MaxSessions),
           S \subseteq T, T \cap Ids \subseteq S,
           NEW x, ChangesAt(kind, x)
    PROVE  /\ Waiting(kind, S) \in Nat
           /\ Waiting(kind, T)' \in Nat
           /\ x \in S => Waiting(kind, T)' =
                            Waiting(kind, S) + (tasks'[<<kind, x>>] - tasks[<<kind, x>>])
           /\ x \notin S => Waiting(kind, T)' = Waiting(kind, S)
<1>1. PICK f : f = [s \in S |-> tasks[<<kind, s>>]]
  OBVIOUS
<1>2. PICK g : g = [s \in T |-> tasks'[<<kind, s>>]]
  OBVIOUS
<1>0. /\ tasks \in [TaskKinds \X (1 .. MaxSessions) -> Nat]
      /\ tasks' \in [TaskKinds \X (1 .. MaxSessions) -> Nat]
  BY TasksKnowKept DEF SInv, SessionsTypeOK
<1>3. IsFiniteSet(T) /\ IsFiniteSet(S)
  <2>1. IsFiniteSet(1 .. MaxSessions)
    BY SessionsAssumption, FS_Interval
  <2>2. IsFiniteSet(T)
    BY <2>1, FS_Subset
  <2>. QED  BY <2>2, FS_Subset
<1>4. /\ \A s \in S : f[s] = tasks[<<kind, s>>] /\ f[s] \in Nat
      /\ \A s \in T : g[s] = tasks'[<<kind, s>>] /\ g[s] \in Nat
  BY <1>0, <1>1, <1>2
<1>5. \A s \in T \ S : g[s] = 0
  BY <1>4, NoTasksYet
<1>6. /\ Waiting(kind, S) = SumFunctionOnSet(f, S)
      /\ Waiting(kind, T)' = SumFunctionOnSet(g, T)
  BY <1>1, <1>2 DEF Waiting
<1>7. \A s \in S : s # x => g[s] = f[s]
  BY <1>4 DEF ChangesAt
<1>8. SumFunctionOnSet(f, S) \in Nat /\ SumFunctionOnSet(g, T) \in Nat
  BY <1>3, <1>4, SumNat
<1>9. /\ x \in S => SumFunctionOnSet(g, T) = SumFunctionOnSet(f, S) + (g[x] - f[x])
      /\ x \notin S => SumFunctionOnSet(g, T) = SumFunctionOnSet(f, S)
  <2>1. \A s \in S : f[s] \in Int
    BY <1>0, <1>1
  <2>2. \A s \in T : g[s] \in Int
    BY <1>0, <1>2
  <2>3. S \in SUBSET T
    OBVIOUS
  <2>4. ASSUME x \in S
        PROVE  SumFunctionOnSet(g, T) = SumFunctionOnSet(f, S) + (g[x] - f[x])
    BY <1>3, <1>5, <1>7, <2>1, <2>2, <2>3, <2>4, SumFollows
  <2>5. ASSUME x \notin S
        PROVE  SumFunctionOnSet(g, T) = SumFunctionOnSet(f, S)
    <3>1. \A s \in S : f[s] \in Int /\ f[s] = g[s]
      BY <1>7, <2>1, <2>5
    <3>2. SumFunctionOnSet(f, S) = SumFunctionOnSet(g, S)
      BY <1>3, <3>1, SumSame
    <3>3. SumFunctionOnSet(g, T) = SumFunctionOnSet(g, S)
      BY <1>3, <1>5, <2>2, <2>3, SumMoreZeros
    <3>. QED  BY <3>2, <3>3
  <2>. QED  BY <2>4, <2>5
<1>. QED  BY <1>4, <1>6, <1>8, <1>9

\* What waits for the sessions of a guest at a venue.
LEMMA GuestWaiting ==
    ASSUME SInv, [Next]_vars, SessionsKept, NEW kind \in TaskKinds, NEW p,
           NEW x, ChangesAt(kind, x)
    PROVE  /\ Waiting(kind, SessionsOf(p)) \in Nat
           /\ Waiting(kind, SessionsOf(p))' \in Nat
           /\ x \in SessionsOf(p) =>
                 Waiting(kind, SessionsOf(p))' = Waiting(kind, SessionsOf(p))
                                   + (tasks'[<<kind, x>>] - tasks[<<kind, x>>])
           /\ x \notin SessionsOf(p) =>
                 Waiting(kind, SessionsOf(p))' = Waiting(kind, SessionsOf(p))
<1>1. PICK S : S = SessionsOf(p)
  OBVIOUS
<1>2. PICK T : T = SessionsOf(p)'
  OBVIOUS
<1>3. S \subseteq Ids /\ T \subseteq Ids' /\ S \subseteq T /\ T \cap Ids \subseteq S
  BY <1>1, <1>2 DEF SessionsOf, GuestOf, SessionsKept
<1>4. Ids' \subseteq 1 .. MaxSessions
  BY LenProperties, SessionsAssumption DEF SessionsKept, Ids
<1>5. /\ Waiting(kind, S) = Waiting(kind, SessionsOf(p))
      /\ Waiting(kind, T)' = Waiting(kind, SessionsOf(p))'
  BY <1>1, <1>2 DEF Waiting
<1>6. T \subseteq 1 .. MaxSessions
  BY <1>3, <1>4
<1>7. S \in SUBSET Ids /\ T \in SUBSET (1 .. MaxSessions) /\ S \subseteq T /\ T \cap Ids \subseteq S
  BY <1>3, <1>6
<1>8. /\ Waiting(kind, S) \in Nat
      /\ Waiting(kind, T)' \in Nat
      /\ x \in S => Waiting(kind, T)' =
                       Waiting(kind, S) + (tasks'[<<kind, x>>] - tasks[<<kind, x>>])
      /\ x \notin S => Waiting(kind, T)' = Waiting(kind, S)
  BY <1>7, WaitingStepped
<1>. QED  BY <1>1, <1>5, <1>8

\* What waits for the sessions of a user anywhere.
LEMMA UserWaiting ==
    ASSUME SInv, [Next]_vars, SessionsKept, NEW kind \in TaskKinds, NEW u,
           NEW x, ChangesAt(kind, x)
    PROVE  /\ Waiting(kind, SessionsBy(u)) \in Nat
           /\ Waiting(kind, SessionsBy(u))' \in Nat
           /\ x \in SessionsBy(u) =>
                 Waiting(kind, SessionsBy(u))' = Waiting(kind, SessionsBy(u))
                                   + (tasks'[<<kind, x>>] - tasks[<<kind, x>>])
           /\ x \notin SessionsBy(u) =>
                 Waiting(kind, SessionsBy(u))' = Waiting(kind, SessionsBy(u))
<1>1. PICK S : S = SessionsBy(u)
  OBVIOUS
<1>2. PICK T : T = SessionsBy(u)'
  OBVIOUS
<1>3. S \subseteq Ids /\ T \subseteq Ids' /\ S \subseteq T /\ T \cap Ids \subseteq S
  BY <1>1, <1>2 DEF SessionsBy, SessionsKept
<1>4. Ids' \subseteq 1 .. MaxSessions
  BY LenProperties, SessionsAssumption DEF SessionsKept, Ids
<1>5. /\ Waiting(kind, S) = Waiting(kind, SessionsBy(u))
      /\ Waiting(kind, T)' = Waiting(kind, SessionsBy(u))'
  BY <1>1, <1>2 DEF Waiting
<1>6. T \subseteq 1 .. MaxSessions
  BY <1>3, <1>4
<1>7. S \in SUBSET Ids /\ T \in SUBSET (1 .. MaxSessions) /\ S \subseteq T /\ T \cap Ids \subseteq S
  BY <1>3, <1>6
<1>8. /\ Waiting(kind, S) \in Nat
      /\ Waiting(kind, T)' \in Nat
      /\ x \in S => Waiting(kind, T)' =
                       Waiting(kind, S) + (tasks'[<<kind, x>>] - tasks[<<kind, x>>])
      /\ x \notin S => Waiting(kind, T)' = Waiting(kind, S)
  BY <1>7, WaitingStepped
<1>. QED  BY <1>1, <1>5, <1>8

\* The counters stay counters.
LEMMA CountersTyped ==
    ASSUME SInv, [Next]_vars
    PROVE  /\ checkins' \in [Guests -> 0 .. MaxCheckins]
           /\ visit_count' \in [Guests -> Nat]
           /\ local_xp' \in [Guests -> Nat]
           /\ global_xp' \in [Users -> Nat]
<1>0. /\ checkins \in [Guests -> 0 .. MaxCheckins]
      /\ visit_count \in [Guests -> Nat]
      /\ local_xp \in [Guests -> Nat]
      /\ global_xp \in [Users -> Nat]
      /\ MaxCheckins \in Nat /\ CheckinXP \in Nat
  BY SessionsAssumption DEF SInv, SessionsTypeOK
<1>1. ASSUME NEW s \in Ids PROVE GuestOf(s) \in Guests /\ venue_sessions[s].user_id \in Users
  BY SessionsAreNumbered DEF SInv, SessionsTypeOK, GuestOf, Guests, Session
<1>2. ASSUME NEW r \in Slots, SpawnCheckin(r)
      PROVE  checkins' \in [Guests -> 0 .. MaxCheckins] /\ UNCHANGED profile_vars
  <2>1. PICK p \in Guests : p = GuestOf(slots[r].session)
    BY <1>1, <1>2 DEF SpawnCheckin, SInv, SlotsKnow
  <2>2. checkins[p] < MaxCheckins /\ checkins' = [checkins EXCEPT ![p] = @ + 1]
    BY <1>2, <2>1 DEF SpawnCheckin
  <2>. QED  BY <1>0, <1>2, <2>2 DEF SpawnCheckin
<1>3. ASSUME NEW s \in Ids, UpsertVenueProfile(s)
      PROVE  visit_count' \in [Guests -> Nat] /\ UNCHANGED <<checkins, local_xp, global_xp>>
  BY <1>0, <1>1, <1>3 DEF UpsertVenueProfile
<1>4. ASSUME NEW s \in Ids, AddGlobalXP(s)
      PROVE  global_xp' \in [Users -> Nat] /\ UNCHANGED <<checkins, local_xp, visit_count>>
  BY <1>0, <1>1, <1>4 DEF AddGlobalXP
<1>5. ASSUME NEW s \in Ids, AddLocalXP(s)
      PROVE  local_xp' \in [Guests -> Nat] /\ UNCHANGED <<checkins, global_xp, visit_count>>
  BY <1>0, <1>1, <1>5 DEF AddLocalXP
<1>6. CASE UNCHANGED <<checkins, profile_vars>>
  BY <1>0, <1>6 DEF profile_vars
<1>7. ASSUME NEW r \in Slots, NEW u \in Users, NEW v \in Venues, StartCheckin(r, u, v)
      PROVE  UNCHANGED <<checkins, profile_vars>>
  BY <1>7 DEF StartCheckin
<1>8. ASSUME NEW r \in Slots, \/ OpenSession(r) \/ CloseSession(r) \/ SpawnClosed(r)
                              \/ Abandon(r) \/ \E s \in Ids : StartCheckout(r, s)
      PROVE  UNCHANGED <<checkins, profile_vars>>
  BY <1>8 DEF OpenSession, CloseSession, SpawnClosed, Abandon, StartCheckout
<1>9. ASSUME NEW s \in Ids, \/ PostCheckin(s) \/ PostClosed(s)
                            \/ \E kind \in TaskKinds : LoseTask(kind, s)
      PROVE  UNCHANGED <<checkins, profile_vars>>
  BY <1>9 DEF PostCheckin, PostClosed, LoseTask
<1>10. CASE Next
  BY <1>0, <1>2, <1>3, <1>4, <1>5, <1>6, <1>7, <1>8, <1>9, <1>10 DEF Next, profile_vars
<1>. QED  BY <1>6, <1>10 DEF vars

\* The XP for a number of check-ins.
LEMMA XPProducts ==
    ASSUME NEW m \in Nat, NEW n \in Nat
    PROVE  /\ CheckinXP * n \in Nat
           /\ CheckinXP * (n + 1) = CheckinXP * n + CheckinXP
           /\ m <= n => CheckinXP * m <= CheckinXP * n
<1>1. PICK c \in Nat : c = CheckinXP
  BY SessionsAssumption
<1>2. c * n \in Nat /\ c * m \in Nat /\ c * (n + 1) = c * n + c
  OBVIOUS
<1>3. ASSUME m <= n PROVE c * m <= c * n
  <2>1. PICK d \in Nat : n = m + d
    <3>1. n - m \in Nat /\ n = m + (n - m)
      BY <1>3
    <3>. QED  BY <3>1
  <2>2. c * (m + d) = c * m + c * d /\ c * d \in Nat
    OBVIOUS
  <2>. QED  BY <1>2, <2>1, <2>2
<1>. QED  BY <1>1, <1>2, <1>3

\* What a step means for the rewards of guest p: a check-in is answered and has
\* its goroutines to come; one of them is done, or lost; or nothing.
RewardStep(p) ==
    LET profile  == Waiting("profile", SessionsOf(p))
        xp       == Waiting("xp", SessionsOf(p))
        localxp  == Waiting("local_xp", SessionsOf(p))
    IN  /\ checkins[p] \in Nat /\ visit_count[p] \in Nat /\ local_xp[p] \in Nat
        /\ checkins'[p] \in Nat /\ visit_count'[p] \in Nat /\ local_xp'[p] \in Nat
        /\ profile \in Nat /\ xp \in Nat /\ localxp \in Nat
        /\ profile' \in Nat /\ xp' \in Nat /\ localxp' \in Nat
        /\ \/ /\ checkins'[p] = checkins[p] + 1
              /\ profile' = profile + 1 /\ xp' = xp + 1 /\ localxp' = localxp
              /\ visit_count'[p] = visit_count[p] /\ local_xp'[p] = local_xp[p]
           \/ /\ checkins'[p] = checkins[p]
              /\ \/ profile' <= profile /\ visit_count'[p] = visit_count[p]
                 \/ profile' = profile - 1 /\ visit_count'[p] = visit_count[p] + 1
              /\ \/ localxp' + xp' <= localxp + xp /\ local_xp'[p] = local_xp[p]
                 \/ /\ localxp' + xp' = localxp + xp - 1
                    /\ local_xp'[p] = local_xp[p] + CheckinXP

\* Whatever the step, it is one of these.
LEMMA RewardStepped ==
    ASSUME SInv, [Next]_vars, SessionsKept, NEW p \in Guests
    PROVE  RewardStep(p)
<1>. DEFINE W(kind) == Waiting(kind, SessionsOf(p))
<1>0. /\ tasks \in [TaskKinds \X (1 .. MaxSessions) -> Nat]
      /\ Ids \subseteq 1 .. MaxSessions
      /\ checkins \in [Guests -> 0 .. MaxCheckins]
      /\ visit_count \in [Guests -> Nat] /\ local_xp \in [Guests -> Nat]
      /\ MaxCheckins \in Nat /\ CheckinXP \in Nat
      /\ \A kind \in {"profile", "xp", "local_xp"} : kind \in TaskKinds
      /\ \A s \in Ids : GuestOf(s) \in Guests
  BY SessionsAreNumbered, SessionsAssumption
     DEF SInv, SessionsTypeOK, TaskKinds, Session, GuestOf, Guests
<1>1. /\ checkins[p] \in Nat /\ visit_count[p] \in Nat /\ local_xp[p] \in Nat
      /\ checkins'[p] \in Nat /\ visit_count'[p] \in Nat /\ local_xp'[p] \in Nat
  BY <1>0, CountersTyped
<1>2. ASSUME NEW kind \in TaskKinds, NEW x, ChangesAt(kind, x)
      PROVE  /\ W(kind) \in Nat /\ W(kind)' \in Nat
             /\ x \in SessionsOf(p) => W(kind)' = W(kind) + (tasks'[<<kind, x>>] - tasks[<<kind, x>>])
             /\ x \notin SessionsOf(p) => W(kind)' = W(kind)
  BY <1>2, GuestWaiting
<1>3. ASSUME NEW kind \in TaskKinds, \A s \in Ids : tasks'[<<kind, s>>] = tasks[<<kind, s>>]
      PROVE  W(kind) \in Nat /\ W(kind)' = W(kind)
  <2>1. ChangesAt(kind, 0)
    BY <1>3 DEF ChangesAt
  <2>2. 0 \notin SessionsOf(p)
    BY <1>0 DEF SessionsOf
  <2>. QED  BY <1>2, <2>1, <2>2
<1>. HIDE DEF W
<1>4. ASSUME NEW k \in TaskKinds, NEW s \in Ids, TaskDone(k, s), NEW kind \in TaskKinds
      PROVE  /\ W(kind) \in Nat /\ W(kind)' \in Nat
             /\ kind # k \/ s \notin SessionsOf(p) => W(kind)' = W(kind)
             /\ kind = k /\ s \in SessionsOf(p) => W(kind)' = W(kind) - 1
  <2>1. /\ tasks'[<<k, s>>] = tasks[<<k, s>>] - 1
        /\ tasks[<<k, s>>] \in Nat
        /\ \A m \in TaskKinds, t \in Ids :
              m # k \/ t # s => tasks'[<<m, t>>] = tasks[<<m, t>>]
    <3>1. s \in 1 .. MaxSessions /\ tasks[<<k, s>>] \in Nat
      BY <1>0
    <3>2. /\ tasks'[<<k, s>>] = tasks[<<k, s>>] - 1
          /\ \A m \in TaskKinds, t \in 1 .. MaxSessions :
                m # k \/ t # s => tasks'[<<m, t>>] = tasks[<<m, t>>]
      BY <1>0, <1>4, <3>1, TaskTaken
    <3>. QED  BY <1>0, <3>1, <3>2
  <2>2. CASE kind # k
    BY <1>3, <2>1, <2>2
  <2>3. CASE kind = k
    <3>1. ChangesAt(kind, s)
      BY <2>1, <2>3 DEF ChangesAt
    <3>. QED  BY <1>2, <2>1, <2>3, <3>1
  <2>. QED  BY <2>2, <2>3
<1>5. ASSUME UNCHANGED <<tasks, checkins, visit_count, local_xp>> PROVE RewardStep(p)
  <2>1. \A kind \in TaskKinds : W(kind) \in Nat /\ W(kind)' = W(kind)
    BY <1>3, <1>5
  <2>. QED  BY <1>0, <1>1, <1>5, <2>1 DEF RewardStep, W
<1>6. ASSUME NEW r \in Slots, SpawnCheckin(r) PROVE RewardStep(p)
  <2>1. PICK s \in Ids : s = slots[r].session
    BY <1>6 DEF SpawnCheckin, SInv, SlotsKnow
  <2>2. /\ checkins' = [checkins EXCEPT ![GuestOf(s)] = @ + 1]
        /\ UNCHANGED <<visit_count, local_xp>>
    BY <1>6, <2>1 DEF SpawnCheckin, profile_vars
  <2>3. \A kind \in TaskKinds, t \in Ids :
           tasks'[<<kind, t>>] = IF t = s /\ kind \in {"checkin", "profile", "xp"}
                                   THEN tasks[<<kind, t>>] + 1 ELSE tasks[<<kind, t>>]
    BY <1>0, <1>6, <2>1, CheckinTasks
  <2>4. /\ ChangesAt("profile", s) /\ ChangesAt("xp", s)
        /\ tasks'[<<"profile", s>>] - tasks[<<"profile", s>>] = 1
        /\ tasks'[<<"xp", s>>] - tasks[<<"xp", s>>] = 1
    BY <1>0, <2>3 DEF ChangesAt
  <2>5. W("local_xp") \in Nat /\ W("local_xp")' = W("local_xp")
    BY <1>0, <1>3, <2>3
  <2>6. /\ W("profile") \in Nat /\ W("profile")' \in Nat
        /\ s \in SessionsOf(p) => W("profile")' = W("profile") + 1
        /\ s \notin SessionsOf(p) => W("profile")' = W("profile")
    BY <1>0, <1>2, <2>4
  <2>7. /\ W("xp") \in Nat /\ W("xp")' \in Nat
        /\ s \in SessionsOf(p) => W("xp")' = W("xp") + 1
        /\ s \notin SessionsOf(p) => W("xp")' = W("xp")
    BY <1>0, <1>2, <2>4
  <2>8. CASE s \in SessionsOf(p)
    <3>1. checkins'[p] = checkins[p] + 1
      BY <1>0, <2>2, <2>8 DEF SessionsOf
    <3>. QED  BY <1>1, <2>2, <2>5, <2>6, <2>7, <2>8, <3>1 DEF RewardStep, W
  <2>9. CASE s \notin SessionsOf(p)
    <3>1. checkins'[p] = checkins[p]
      BY <1>0, <2>2, <2>9 DEF SessionsOf
    <3>. QED  BY <1>1, <2>2, <2>5, <2>6, <2>7, <2>9, <3>1 DEF RewardStep, W
  <2>. QED  BY <2>8, <2>9
<1>7. ASSUME NEW r \in Slots, SpawnClosed(r) PROVE RewardStep(p)
  <2>1. slots[r].session \in Ids
    BY <1>7 DEF SpawnClosed, SInv, SlotsKnow
  <2>2. \A kind \in TaskKinds, t \in Ids : kind # "closed" => tasks'[<<kind, t>>] = tasks[<<kind, t>>]
    BY <1>0, <1>7, <2>1, ClosedTasks
  <2>3. \A kind \in {"profile", "xp", "local_xp"} : W(kind) \in Nat /\ W(kind)' = W(kind)
    BY <1>0, <1>3, <2>2
  <2>4. UNCHANGED <<checkins, visit_count, local_xp>>
    BY <1>7 DEF SpawnClosed, profile_vars
  <2>. QED  BY <1>1, <2>3, <2>4 DEF RewardStep, W
<1>8. ASSUME NEW s \in Ids, UpsertVenueProfile(s) PROVE RewardStep(p)
  <2>1. TaskDone("profile", s) /\ UNCHANGED <<checkins, local_xp>>
    BY <1>8 DEF UpsertVenueProfile
  <2>2. W("xp") \in Nat /\ W("xp")' = W("xp") /\ W("local_xp") \in Nat /\ W("local_xp")' = W("local_xp")
    BY <1>0, <1>4, <2>1
  <2>3. CASE s \in SessionsOf(p)
    <3>1. W("profile") \in Nat /\ W("profile")' \in Nat /\ W("profile")' = W("profile") - 1
      BY <1>0, <1>4, <2>1, <2>3
    <3>2. visit_count'[p] = visit_count[p] + 1
      BY <1>0, <1>8, <2>3 DEF UpsertVenueProfile, SessionsOf
    <3>. QED  BY <1>1, <2>1, <2>2, <3>1, <3>2 DEF RewardStep, W
  <2>4. CASE s \notin SessionsOf(p)
    <3>1. W("profile") \in Nat /\ W("profile")' = W("profile")
      BY <1>0, <1>4, <2>1, <2>4
    <3>2. visit_count'[p] = visit_count[p]
      BY <1>0, <1>8, <2>4 DEF UpsertVenueProfile, SessionsOf
    <3>. QED  BY <1>1, <2>1, <2>2, <3>1, <3>2 DEF RewardStep, W
  <2>. QED  BY <2>3, <2>4
<1>9. ASSUME NEW s \in Ids, AddGlobalXP(s) PROVE RewardStep(p)
  <2>1. \A kind \in TaskKinds, t \in Ids :
           tasks'[<<kind, t>>] =
              CASE t = s /\ kind = "xp"       -> tasks[<<kind, t>>] - 1
                [] t = s /\ kind = "local_xp" -> tasks[<<kind, t>>] + 1
                [] OTHER                      -> tasks[<<kind, t>>]
    BY <1>0, <1>9, XPTasks
  <2>2. /\ ChangesAt("xp", s) /\ ChangesAt("local_xp", s)
        /\ tasks'[<<"xp", s>>] - tasks[<<"xp", s>>] = -1
        /\ tasks'[<<"local_xp", s>>] - tasks[<<"local_xp", s>>] = 1
    BY <1>0, <2>1 DEF ChangesAt
  <2>3. W("profile") \in Nat /\ W("profile")' = W("profile")
    BY <1>0, <1>3, <2>1
  <2>4. /\ W("xp") \in Nat /\ W("xp")' \in Nat
        /\ s \in SessionsOf(p) => W("xp")' = W("xp") + -1
        /\ s \notin SessionsOf(p) => W("xp")' = W("xp")
    BY <1>0, <1>2, <2>2
  <2>5. /\ W("local_xp") \in Nat /\ W("local_xp")' \in Nat
        /\ s \in SessionsOf(p) => W("local_xp")' = W("local_xp") + 1
        /\ s \notin SessionsOf(p) => W("local_xp")' = W("local_xp")
    BY <1>0, <1>2, <2>2
  <2>6. UNCHANGED <<checkins, visit_count, local_xp>>
    BY <1>9 DEF AddGlobalXP
  <2>7. W("local_xp")' + W("xp")' = W("local_xp") + W("xp")
    BY <2>4, <2>5
  <2>. QED  BY <1>1, <2>3, <2>4, <2>5, <2>6, <2>7 DEF RewardStep, W
<1>10. ASSUME NEW s \in Ids, AddLocalXP(s) PROVE RewardStep(p)
  <2>1. TaskDone("local_xp", s) /\ UNCHANGED <<checkins, visit_count>>
    BY <1>10 DEF AddLocalXP
  <2>2. W("xp") \in Nat /\ W("xp")' = W("xp") /\ W("profile") \in Nat /\ W("profile")' = W("profile")
    BY <1>0, <1>4, <2>1
  <2>3. CASE s \in SessionsOf(p)
    <3>1. W("local_xp") \in Nat /\ W("local_xp")' \in Nat /\ W("local_xp")' = W("local_xp") - 1
      BY <1>0, <1>4, <2>1, <2>3
    <3>2. local_xp'[p] = local_xp[p] + CheckinXP \/ local_xp'[p] = local_xp[p]
      BY <1>0, <1>10, <2>3 DEF AddLocalXP, SessionsOf
    <3>3. W("local_xp")' + W("xp")' = W("local_xp") + W("xp") - 1
      BY <2>2, <3>1
    <3>. QED  BY <1>1, <2>1, <2>2, <3>1, <3>2, <3>3 DEF RewardStep, W
  <2>4. CASE s \notin SessionsOf(p)
    <3>1. W("local_xp") \in Nat /\ W("local_xp")' = W("local_xp")
      BY <1>0, <1>4, <2>1, <2>4
    <3>2. local_xp'[p] = local_xp[p]
      BY <1>0, <1>10, <2>4 DEF AddLocalXP, SessionsOf
    <3>. QED  BY <1>1, <2>1, <2>2, <3>1, <3>2 DEF RewardStep, W
  <2>. QED  BY <2>3, <2>4
<1>11. ASSUME NEW s \in Ids, NEW k \in TaskKinds, TaskDone(k, s),
              UNCHANGED <<checkins, visit_count, local_xp>>
       PROVE  RewardStep(p)
  <2>1. \A kind \in TaskKinds : W(kind) \in Nat /\ W(kind)' \in Nat /\ W(kind)' <= W(kind)
    BY <1>4, <1>11
  <2>2. /\ W("profile") \in Nat /\ W("profile")' \in Nat /\ W("profile")' <= W("profile")
        /\ W("xp") \in Nat /\ W("xp")' \in Nat /\ W("local_xp") \in Nat /\ W("local_xp")' \in Nat
        /\ W("local_xp")' + W("xp")' <= W("local_xp") + W("xp")
    BY <1>0, <2>1
  <2>. QED  BY <1>1, <1>11, <2>2 DEF RewardStep, W
<1>12. ASSUME NEW s \in Ids, PostCheckin(s) \/ PostClosed(s) \/ \E kind \in TaskKinds : LoseTask(kind, s)
       PROVE  RewardStep(p)
  <2>1. PICK k \in TaskKinds : TaskDone(k, s)
    BY <1>12 DEF PostCheckin, PostClosed, LoseTask, TaskKinds
  <2>2. UNCHANGED <<checkins, visit_count, local_xp>>
    BY <1>12 DEF PostCheckin, PostClosed, LoseTask, profile_vars
  <2>. QED  BY <1>11, <2>1, <2>2
<1>13. ASSUME NEW r \in Slots,
              \/ \E u \in Users, v \in Venues : StartCheckin(r, u, v)
              \/ OpenSession(r) \/ CloseSession(r) \/ Abandon(r)
              \/ \E s \in Ids : StartCheckout(r, s)
       PROVE  RewardStep(p)
  BY <1>5, <1>13 DEF StartCheckin, OpenSession, CloseSession, Abandon, StartCheckout, profile_vars
<1>14. CASE UNCHANGED vars
  BY <1>5, <1>14 DEF vars, profile_vars
<1>. QED
  BY <1>6, <1>7, <1>8, <1>9, <1>10, <1>12, <1>13, <1>14 DEF Next

\* No such step lets the rewards overtake the check-ins.
LEMMA RewardsKept ==
    ASSUME SInv, [Next]_vars, SessionsKept
    PROVE  RewardsWithinCheckins'
<1>1. ASSUME NEW p \in Guests
      PROVE  /\ visit_count'[p] + Waiting("profile", SessionsOf(p))' <= checkins'[p]
             /\ local_xp'[p] + CheckinXP * (Waiting("local_xp", SessionsOf(p))'
                                              + Waiting("xp", SessionsOf(p))')
                    <= CheckinXP * checkins'[p]
  <2>1. RewardStep(p)
    BY RewardStepped
  <2>2. PICK c, c1 \in Nat : c = checkins[p] /\ c1 = checkins'[p]
    BY <2>1 DEF RewardStep
  <2>3. PICK v, v1 \in Nat : v = visit_count[p] /\ v1 = visit_count'[p]
    BY <2>1 DEF RewardStep
  <2>4. PICK l, l1 \in Nat : l = local_xp[p] /\ l1 = local_xp'[p]
    BY <2>1 DEF RewardStep
  <2>5. PICK w, w1 \in Nat : w = Waiting("profile", SessionsOf(p)) /\ w1 = Waiting("profile", SessionsOf(p))'
    BY <2>1 DEF RewardStep
  <2>6. PICK n, n1 \in Nat :
           /\ n = Waiting("local_xp", SessionsOf(p)) + Waiting("xp", SessionsOf(p))
           /\ n1 = Waiting("local_xp", SessionsOf(p))' + Waiting("xp", SessionsOf(p))'
    BY <2>1 DEF RewardStep
  <2>7. v + w <= c /\ l + CheckinXP * n <= CheckinXP * c
    BY <2>2, <2>3, <2>4, <2>5, <2>6 DEF SInv, RewardsWithinCheckins
  <2>8. \/ c1 = c + 1 /\ w1 = w + 1 /\ n1 = n + 1 /\ v1 = v /\ l1 = l
        \/ /\ c1 = c
           /\ \/ w1 <= w /\ v1 = v
              \/ w1 = w - 1 /\ v1 = v + 1
           /\ \/ n1 <= n /\ l1 = l
              \/ n1 = n - 1 /\ l1 = l + CheckinXP
    BY <2>1, <2>2, <2>3, <2>4, <2>5, <2>6 DEF RewardStep
  <2>9. v1 + w1 <= c1
    BY <2>7, <2>8
  <2>10. l1 + CheckinXP * n1 <= CheckinXP * c1
    <3>1. /\ CheckinXP \in Nat /\ CheckinXP * n \in Nat /\ CheckinXP * n1 \in Nat
          /\ CheckinXP * c \in Nat /\ CheckinXP * c1 \in Nat
      BY XPProducts, SessionsAssumption
    <3>2. CASE c1 = c + 1 /\ n1 = n + 1 /\ l1 = l
      <4>1. CheckinXP * n1 = CheckinXP * n + CheckinXP
        BY <3>2, XPProducts
      <4>2. CheckinXP * c1 = CheckinXP * c + CheckinXP
        BY <3>2, XPProducts
      <4>. QED  BY <2>7, <3>1, <3>2, <4>1, <4>2
    <3>3. CASE c1 = c /\ n1 <= n /\ l1 = l
      <4>1. CheckinXP * n1 <= CheckinXP * n
        BY <3>3, XPProducts
      <4>. QED  BY <2>7, <3>1, <3>3, <4>1
    <3>4. CASE c1 = c /\ n1 = n - 1 /\ l1 = l + CheckinXP
      <4>1. CheckinXP * n = CheckinXP * n1 + CheckinXP
        <5>1. n = n1 + 1
          BY <3>4
        <5>. QED  BY <5>1, XPProducts
      <4>. QED  BY <2>7, <3>1, <3>4, <4>1
    <3>. QED  BY <2>8, <3>2, <3>3, <3>4
  <2>. QED  BY <2>2, <2>3, <2>4, <2>5, <2>6, <2>9, <2>10
<1>2. ASSUME NEW p \in Guests
      PROVE  /\ (visit_count[p] + Waiting("profile", SessionsOf(p)) <= checkins[p])'
             /\ (local_xp[p] + CheckinXP * (Waiting("local_xp", SessionsOf(p))
                                              + Waiting("xp", SessionsOf(p)))
                    <= CheckinXP * checkins[p])'
  BY <1>1
<1>. QED  BY <1>2 DEF RewardsWithinCheckins, Guests

\* What a user has at venues changes by the local XP of one visit.
LEMMA LocalXPFollows ==
    ASSUME SInv, local_xp' \in [Guests -> Nat], NEW s \in Ids, NEW c \in Nat,
           local_xp' = [local_xp EXCEPT ![GuestOf(s)] = @ + c], NEW u \in Users
    PROVE  /\ LocalXP(u) \in Nat /\ LocalXP(u)' \in Nat
           /\ s \in SessionsBy(u) => LocalXP(u)' = LocalXP(u) + c
           /\ s \notin SessionsBy(u) => LocalXP(u)' = LocalXP(u)
<1>1. PICK f : f = [v \in Venues |-> local_xp[<<u, v>>]]
  OBVIOUS
<1>2. PICK g : g = [v \in Venues |-> local_xp'[<<u, v>>]]
  OBVIOUS
<1>3. PICK w, x : w = venue_sessions[s].user_id /\ x = venue_sessions[s].venue_id
  OBVIOUS
<1>4. w \in Users /\ x \in Venues /\ GuestOf(s) = <<w, x>>
  BY <1>3, SessionsAreNumbered DEF SInv, SessionsTypeOK, Session, GuestOf
<1>5. /\ local_xp \in [Guests -> Nat]
      /\ \A y \in Users, v \in Venues : <<y, v>> \in Guests
  BY DEF SInv, SessionsTypeOK, Guests
<1>6. /\ local_xp'[<<w, x>>] = local_xp[<<w, x>>] + c
      /\ \A v \in Venues : u # w \/ v # x => local_xp'[<<u, v>>] = local_xp[<<u, v>>]
  BY <1>4, <1>5
<1>7. \A v \in Venues : f[v] \in Nat
  BY <1>1, <1>5
<1>8. \A v \in Venues : g[v] \in Nat
  BY <1>2, <1>5
<1>9. LocalXP(u) = SumFunctionOnSet(f, Venues) /\ LocalXP(u)' = SumFunctionOnSet(g, Venues)
  BY <1>1, <1>2 DEF LocalXP
<1>10. IsFiniteSet(Venues)
  BY SessionsAssumption
<1>11. SumFunctionOnSet(f, Venues) \in Nat /\ SumFunctionOnSet(g, Venues) \in Nat
  BY <1>7, <1>8, <1>10, SumNat
<1>12. ASSUME s \in SessionsBy(u)
       PROVE  SumFunctionOnSet(g, Venues) = SumFunctionOnSet(f, Venues) + c
  <2>1. u = w
    BY <1>3, <1>12 DEF SessionsBy
  <2>2. /\ g[x] = f[x] + c /\ f[x] \in Nat
        /\ \A v \in Venues : v # x => g[v] = f[v]
    BY <1>1, <1>2, <1>4, <1>6, <1>7, <2>1
  <2>3. \A v \in Venues : f[v] \in Int
    BY <1>7
  <2>4. \A v \in Venues : g[v] \in Int
    BY <1>8
  <2>5. SumFunctionOnSet(g, Venues) = SumFunctionOnSet(f, Venues) + (g[x] - f[x])
    <3>1. \A v \in Venues : v # x => g[v] = f[v]
      BY <2>2
    <3>2. \A v \in Venues \ Venues : g[v] = 0
      OBVIOUS
    <3>3. Venues \in SUBSET Venues
      OBVIOUS
    <3>. QED  BY <1>4, <1>10, <2>3, <2>4, <3>1, <3>2, <3>3, SumFollows
  <2>. QED  BY <1>11, <2>2, <2>5
<1>13. ASSUME s \notin SessionsBy(u)
       PROVE  SumFunctionOnSet(g, Venues) = SumFunctionOnSet(f, Venues)
  <2>1. u # w
    BY <1>3, <1>13 DEF SessionsBy
  <2>2. \A v \in Venues : f[v] \in Int /\ f[v] = g[v]
    BY <1>1, <1>2, <1>6, <1>7, <2>1
  <2>. QED  BY <1>10, <2>2, SumSame
<1>. QED  BY <1>9, <1>11, <1>12, <1>13

\* Global XP is given first, whatever the step.
LEMMA GlobalXPFirstKept ==
    ASSUME SInv, [Next]_vars, SessionsKept
    PROVE  GlobalXPFirst'
<1>0. /\ tasks \in [TaskKinds \X (1 .. MaxSessions) -> Nat]
      /\ Ids \subseteq 1 .. MaxSessions
      /\ local_xp \in [Guests -> Nat] /\ local_xp' \in [Guests -> Nat]
      /\ global_xp \in [Users -> Nat] /\ global_xp' \in [Users -> Nat]
      /\ CheckinXP \in Nat
      /\ \A kind \in {"profile", "xp", "local_xp", "checkin", "closed"} : kind \in TaskKinds
      /\ \A s \in Ids : GuestOf(s) \in Guests /\ venue_sessions[s].user_id \in Users
  BY SessionsAreNumbered, SessionsAssumption, CountersTyped
     DEF SInv, SessionsTypeOK, TaskKinds, Session, GuestOf, Guests
<1>. SUFFICES ASSUME NEW u \in Users
              PROVE  LocalXP(u)' + CheckinXP * Waiting("local_xp", SessionsBy(u))' <= global_xp'[u]
  BY DEF GlobalXPFirst
<1>. DEFINE w  == Waiting("local_xp", SessionsBy(u))
            Goal == LocalXP(u)' + CheckinXP * w' <= global_xp'[u]
<1>1. ASSUME NEW x, ChangesAt("local_xp", x)
      PROVE  /\ w \in Nat /\ w' \in Nat
             /\ x \in SessionsBy(u) =>
                   w' = w + (tasks'[<<"local_xp", x>>] - tasks[<<"local_xp", x>>])
             /\ x \notin SessionsBy(u) => w' = w
  BY <1>0, <1>1, UserWaiting
<1>2. LocalXP(u) + CheckinXP * w <= global_xp[u] /\ global_xp[u] \in Nat /\ global_xp'[u] \in Nat
  BY <1>0 DEF SInv, GlobalXPFirst
<1>3. LocalXP(u) \in Nat
  <2>1. PICK f : f = [v \in Venues |-> local_xp[<<u, v>>]]
    OBVIOUS
  <2>2. \A v \in Venues : f[v] \in Nat
    BY <1>0, <2>1 DEF Guests
  <2>3. SumFunctionOnSet(f, Venues) \in Nat
    BY <2>2, SessionsAssumption, SumNat
  <2>. QED  BY <2>1, <2>3 DEF LocalXP
<1>. HIDE DEF w
<1>4. ASSUME local_xp' = local_xp PROVE LocalXP(u)' = LocalXP(u)
  BY <1>4 DEF LocalXP
<1>5. ASSUME NEW m \in Nat, NEW n \in Nat
      PROVE  /\ CheckinXP * n \in Nat
             /\ CheckinXP * (n + 1) = CheckinXP * n + CheckinXP
             /\ m <= n => CheckinXP * m <= CheckinXP * n
  BY XPProducts
<1>6. ASSUME w \in Nat, w' \in Nat, w' <= w, UNCHANGED <<local_xp, global_xp>>
      PROVE  Goal
  <2>1. CheckinXP * w' <= CheckinXP * w /\ CheckinXP * w \in Nat /\ CheckinXP * w' \in Nat
    BY <1>5, <1>6
  <2>. QED  BY <1>2, <1>3, <1>4, <1>6, <2>1
<1>7. ASSUME \A s \in Ids : tasks'[<<"local_xp", s>>] = tasks[<<"local_xp", s>>]
      PROVE  w \in Nat /\ w' \in Nat /\ w' = w
  <2>1. ChangesAt("local_xp", 0)
    BY <1>7 DEF ChangesAt
  <2>2. 0 \notin SessionsBy(u)
    BY <1>0 DEF SessionsBy
  <2>. QED  BY <1>1, <2>1, <2>2
<1>8. ASSUME NEW k \in TaskKinds, NEW s \in Ids, TaskDone(k, s)
      PROVE  /\ w \in Nat /\ w' \in Nat
             /\ k # "local_xp" \/ s \notin SessionsBy(u) => w' = w
             /\ k = "local_xp" /\ s \in SessionsBy(u) => w' = w - 1
  <2>1. /\ tasks'[<<k, s>>] = tasks[<<k, s>>] - 1
        /\ tasks[<<k, s>>] \in Nat
        /\ \A m \in TaskKinds, t \in Ids :
              m # k \/ t # s => tasks'[<<m, t>>] = tasks[<<m, t>>]
    <3>1. s \in 1 .. MaxSessions /\ tasks[<<k, s>>] \in Nat
      BY <1>0
    <3>2. /\ tasks'[<<k, s>>] = tasks[<<k, s>>] - 1
          /\ \A m \in TaskKinds, t \in 1 .. MaxSessions :
                m # k \/ t # s => tasks'[<<m, t>>] = tasks[<<m, t>>]
      BY <1>0, <1>8, <3>1, TaskTaken
    <3>. QED  BY <1>0, <3>1, <3>2
  <2>2. CASE k # "local_xp"
    BY <1>0, <1>7, <2>1, <2>2
  <2>3. CASE k = "local_xp"
    <3>1. ChangesAt("local_xp", s)
      BY <1>0, <2>1, <2>3 DEF ChangesAt
    <3>. QED  BY <1>1, <2>1, <2>3, <3>1
  <2>. QED  BY <2>2, <2>3
<1>9. ASSUME NEW r \in Slots, SpawnCheckin(r) \/ SpawnClosed(r) PROVE Goal
  <2>1. slots[r].session \in 1 .. MaxSessions
    BY <1>0, <1>9 DEF SpawnCheckin, SpawnClosed, SInv, SlotsKnow
  <2>2. \A s \in Ids : tasks'[<<"local_xp", s>>] = tasks[<<"local_xp", s>>]
    BY <1>0, <1>9, <2>1, CheckinTasks, ClosedTasks
  <2>3. UNCHANGED <<local_xp, global_xp>>
    BY <1>9 DEF SpawnCheckin, SpawnClosed, profile_vars
  <2>. QED  BY <1>6, <1>7, <2>2, <2>3
<1>10. ASSUME NEW s \in Ids, AddGlobalXP(s) PROVE Goal
  <2>1. \A t \in Ids :
           tasks'[<<"local_xp", t>>] = IF t = s THEN tasks[<<"local_xp", t>>] + 1
                                                ELSE tasks[<<"local_xp", t>>]
    BY <1>0, <1>10, XPTasks
  <2>2. ChangesAt("local_xp", s) /\ tasks'[<<"local_xp", s>>] - tasks[<<"local_xp", s>>] = 1
    BY <1>0, <2>1 DEF ChangesAt
  <2>3. local_xp' = local_xp /\ global_xp' = [global_xp EXCEPT ![venue_sessions[s].user_id] = @ + CheckinXP]
    BY <1>10 DEF AddGlobalXP
  <2>4. CASE s \in SessionsBy(u)
    <3>1. w \in Nat /\ w' = w + 1
      BY <1>1, <2>2, <2>4
    <3>2. global_xp'[u] = global_xp[u] + CheckinXP
      BY <1>0, <2>3, <2>4 DEF SessionsBy
    <3>3. CheckinXP * w' = CheckinXP * w + CheckinXP /\ CheckinXP * w \in Nat
      BY <1>5, <3>1
    <3>. QED  BY <1>0, <1>2, <1>3, <1>4, <2>3, <3>2, <3>3
  <2>5. CASE s \notin SessionsBy(u)
    <3>1. w \in Nat /\ w' = w
      BY <1>1, <2>2, <2>5
    <3>2. global_xp'[u] = global_xp[u]
      BY <1>0, <2>3, <2>5 DEF SessionsBy
    <3>. QED  BY <1>2, <1>4, <2>3, <3>1, <3>2
  <2>. QED  BY <2>4, <2>5
<1>11. ASSUME NEW s \in Ids, AddLocalXP(s) PROVE Goal
  <2>1. TaskDone("local_xp", s) /\ UNCHANGED global_xp
    BY <1>11 DEF AddLocalXP
  <2>2. CASE local_xp' = local_xp
    BY <1>0, <1>6, <1>8, <2>1, <2>2
  <2>3. CASE local_xp' = [local_xp EXCEPT ![GuestOf(s)] = @ + CheckinXP]
    <3>1. /\ LocalXP(u)' \in Nat
          /\ s \in SessionsBy(u) => LocalXP(u)' = LocalXP(u) + CheckinXP
          /\ s \notin SessionsBy(u) => LocalXP(u)' = LocalXP(u)
      BY <1>0, <2>3, LocalXPFollows
    <3>2. CASE s \in SessionsBy(u)
      <4>1. w' \in Nat /\ w = w' + 1
        BY <1>0, <1>8, <2>1, <3>2
      <4>2. CheckinXP * w = CheckinXP * w' + CheckinXP /\ CheckinXP * w' \in Nat
        BY <1>5, <4>1
      <4>. QED  BY <1>0, <1>2, <1>3, <2>1, <3>1, <3>2, <4>2
    <3>3. CASE s \notin SessionsBy(u)
      <4>1. w' = w
        BY <1>0, <1>8, <2>1, <3>3
      <4>. QED  BY <1>2, <2>1, <3>1, <3>3, <4>1
    <3>. QED  BY <3>2, <3>3
  <2>. QED  BY <1>11, <2>2, <2>3 DEF AddLocalXP
<1>12. ASSUME NEW s \in Ids, \/ PostCheckin(s) \/ PostClosed(s) \/ UpsertVenueProfile(s)
                             \/ \E kind \in TaskKinds : LoseTask(kind, s)
       PROVE  Goal
  <2>1. PICK k \in TaskKinds : TaskDone(k, s)
    BY <1>12 DEF PostCheckin, PostClosed, UpsertVenueProfile, LoseTask, TaskKinds
  <2>2. UNCHANGED <<local_xp, global_xp>>
    BY <1>12 DEF PostCheckin, PostClosed, UpsertVenueProfile, LoseTask, profile_vars
  <2>3. w \in Nat /\ w' \in Nat /\ w' <= w
    BY <1>8, <2>1
  <2>. QED  BY <1>6, <2>2, <2>3
<1>13. ASSUME UNCHANGED <<tasks, local_xp, global_xp>> PROVE Goal
  BY <1>6, <1>7, <1>13
<1>14. ASSUME NEW r \in Slots,
              \/ \E x \in Users, v \in Venues : StartCheckin(r, x, v)
              \/ OpenSession(r) \/ CloseSession(r) \/ Abandon(r)
              \/ \E s \in Ids : StartCheckout(r, s)
       PROVE  Goal
  BY <1>13, <1>14 DEF StartCheckin, OpenSession, CloseSession, Abandon, StartCheckout,
                      profile_vars
<1>15. ASSUME UNCHANGED vars PROVE Goal
  BY <1>13, <1>15 DEF vars, profile_vars
<1>16. Goal
  BY <1>9, <1>10, <1>11, <1>12, <1>14, <1>15 DEF Next
<1>. QED  BY <1>16 DEF w

\* At first there is nothing.
LEMMA InitHasSInv ==
    ASSUME Init
    PROVE  SInv
<1>1. Idle \in CheckSlot /\ Idle.pc = "idle"
  BY SessionsAssumption DEF Idle, CheckSlot
<1>2. venue_sessions \in Seq(Session) /\ Len(venue_sessions) = 0
  BY EmptySeq DEF Init
<1>3. SessionsTypeOK
  BY <1>1, <1>2, SessionsAssumption DEF Init, SessionsTypeOK
<1>4. SlotsKnow
  BY <1>1 DEF Init, SlotsKnow
<1>5. TasksKnow
  BY DEF Init, TasksKnow
<1>6. ClosedKeysKnow /\ UniqueIdempotencyKey /\ SessionEventsTrue
  BY DEF Init, ClosedKeysKnow, KeyTaken, UniqueIdempotencyKey, SessionEventsTrue
<1>7. Ids = {}
  BY <1>2, LenProperties DEF Ids
<1>8. CloseAnnouncedOnce
  BY <1>7 DEF CloseAnnouncedOnce
<1>9. ASSUME NEW kind, NEW S, S = {} PROVE Waiting(kind, S) = 0
  BY <1>9, SumEmpty DEF Waiting
<1>10. CheckinXP * 0 = 0 /\ CheckinXP * (0 + 0) = 0
  BY SessionsAssumption
<1>11. RewardsWithinCheckins
  <2>1. ASSUME NEW p \in Guests, NEW kind PROVE Waiting(kind, SessionsOf(p)) = 0
    BY <1>7, <1>9 DEF SessionsOf
  <2>2. \A p \in Guests : visit_count[p] = 0 /\ checkins[p] = 0 /\ local_xp[p] = 0
    BY DEF Init
  <2>. QED  BY <1>10, <2>1, <2>2 DEF RewardsWithinCheckins
<1>12. GlobalXPFirst
  <2>1. ASSUME NEW u \in Users PROVE LocalXP(u) = 0
    <3>1. PICK f : f = [v \in Venues |-> local_xp[<<u, v>>]]
      OBVIOUS
    <3>2. \A v \in Venues : f[v] \in Int /\ f[v] = 0
      BY <3>1 DEF Init, Guests
    <3>3. SumFunctionOnSet(f, {}) = 0
      BY SumEmpty
    <3>4. SumFunctionOnSet(f, Venues) = SumFunctionOnSet(f, {})
      <4>1. {} \in SUBSET Venues
        OBVIOUS
      <4>2. \A v \in Venues : f[v] \in Int
        BY <3>2
      <4>3. \A v \in Venues \ {} : f[v] = 0
        BY <3>2
      <4>. QED  BY <4>1, <4>2, <4>3, SessionsAssumption, SumMoreZeros
    <3>. QED  BY <3>1, <3>3, <3>4 DEF LocalXP
  <2>2. ASSUME NEW u \in Users PROVE Waiting("local_xp", SessionsBy(u)) = 0
    BY <1>7, <1>9 DEF SessionsBy
  <2>3. \A u \in Users : global_xp[u] = 0
    BY DEF Init
  <2>. QED  BY <1>10, <2>1, <2>2, <2>3 DEF GlobalXPFirst
<1>. QED  BY <1>3, <1>4, <1>5, <1>6, <1>8, <1>11, <1>12 DEF SInv

\* Every step keeps the invariant.
LEMMA StepKeepsSInv ==
    ASSUME SInv, [Next]_vars
    PROVE  SInv' /\ SessionsKept
<1>1. SessionsStep /\ LedgerStep /\ [LedgerAppend]_ledger_events
  BY SessionsStepped, LedgerStepped
<1>2. SessionsKept
  BY <1>1, SessionsStayed DEF SInv
<1>3. UniqueIdempotencyKey'
  BY <1>1, ContractKeepsKeysUnique DEF SInv
<1>4. SlotsKnow' /\ slots' \in [Slots -> CheckSlot]
  BY <1>2, SlotsKnowKept
<1>5. TasksKnow' /\ tasks' \in [TaskKinds \X (1 .. MaxSessions) -> Nat]
  BY <1>2, TasksKnowKept
<1>6. SessionEventsTrue' /\ ledger_events' \subseteq LedgerRow(Keys)
  BY <1>1, <1>2, SessionEventsTrueKept
<1>7. SessionsTypeOK'
  BY <1>2, <1>4, <1>5, <1>6, CountersTyped DEF SessionsTypeOK, SessionsKept
<1>8. ClosedKeysKnow'
  BY <1>1, <1>2, ClosedKeysKnowKept
<1>9. CloseAnnouncedOnce' /\ RewardsWithinCheckins' /\ GlobalXPFirst'
  BY <1>2, AnnouncedOnceKept, RewardsKept, GlobalXPFirstKept
<1>. QED  BY <1>2, <1>3, <1>4, <1>5, <1>6, <1>7, <1>8, <1>9 DEF SInv

-----------------------------------------------------------------------------
\* The open sessions are counted

\* How the open sessions of a guest at a venue, O, and the inserts under way, I,
\* may change in a step.
CountStep(O, I, O1, I1) ==
    \/ O1 \subseteq O /\ I1 \subseteq I
    \/ O1 = {}
    \/ \E r \in I : I1 \subseteq I \ {r} /\ \E n \in 1 .. MaxSessions : O1 \subseteq O \cup {n}

\* No such change leaves more than there are slots.
LEMMA CountsBounded ==
    ASSUME NEW O \in SUBSET (1 .. MaxSessions), NEW I \in SUBSET Slots,
           NEW O1, NEW I1 \in SUBSET Slots, CountStep(O, I, O1, I1),
           Cardinality(O) + Cardinality(I) <= Cardinality(Slots)
    PROVE  Cardinality(O1) + Cardinality(I1) <= Cardinality(Slots)
<1>1. IsFiniteSet(Slots) /\ MaxSessions \in Nat
  BY SessionsAssumption
<1>2. IsFiniteSet(O) /\ Cardinality(O) \in Nat
  <2>1. IsFiniteSet(1 .. MaxSessions)
    BY <1>1, FS_Interval
  <2>2. IsFiniteSet(O)
    BY <2>1, FS_Subset
  <2>. QED  BY <2>2, FS_CardinalityType
<1>3. /\ IsFiniteSet(I) /\ Cardinality(I) \in Nat
      /\ IsFiniteSet(I1) /\ Cardinality(I1) \in Nat
      /\ Cardinality(I1) <= Cardinality(Slots) /\ Cardinality(Slots) \in Nat
  BY <1>1, FS_Subset, FS_CardinalityType
<1>4. CASE O1 \subseteq O /\ I1 \subseteq I
  <2>1. Cardinality(O1) \in Nat /\ Cardinality(O1) <= Cardinality(O)
    BY <1>2, <1>4, FS_Subset, FS_CardinalityType
  <2>2. Cardinality(I1) <= Cardinality(I)
    BY <1>3, <1>4, FS_Subset
  <2>. QED  BY <1>2, <1>3, <2>1, <2>2
<1>5. CASE O1 = {}
  BY <1>3, <1>5, FS_EmptySet
<1>6. ASSUME NEW r \in I, I1 \subseteq I \ {r}, NEW n \in 1 .. MaxSessions, O1 \subseteq O \cup {n}
      PROVE  Cardinality(O1) + Cardinality(I1) <= Cardinality(Slots)
  <2>1. /\ IsFiniteSet(O \cup {n}) /\ Cardinality(O \cup {n}) \in Nat
        /\ Cardinality(O \cup {n}) <= Cardinality(O) + 1
    <3>1. /\ IsFiniteSet(O \cup {n})
          /\ Cardinality(O \cup {n}) =
                IF n \in O THEN Cardinality(O) ELSE Cardinality(O) + 1
      BY <1>2, FS_AddElement
    <3>2. Cardinality(O \cup {n}) \in Nat
      BY <3>1, FS_CardinalityType
    <3>. QED  BY <1>2, <3>1, <3>2
  <2>2. Cardinality(O1) \in Nat /\ Cardinality(O1) <= Cardinality(O \cup {n})
    BY <1>6, <2>1, FS_Subset, FS_CardinalityType
  <2>3. IsFiniteSet(I \ {r}) /\ Cardinality(I \ {r}) = Cardinality(I) - 1
    BY <1>3, <1>6, FS_RemoveElement
  <2>4. Cardinality(I1) <= Cardinality(I \ {r})
    BY <1>6, <2>3, FS_Subset
  <2>. QED  BY <1>2, <1>3, <2>1, <2>2, <2>3, <2>4
<1>. QED  BY <1>4, <1>5, <1>6 DEF CountStep

\* A slot starts to insert only when the guest has no open session at the venue,
\* and a session is opened only by a slot that inserts.
LEMMA OpenStepped ==
    ASSUME SInv, [Next]_vars, NEW u \in Users, NEW v \in Venues
    PROVE  CountStep(Open(u, v), Inserting(u, v), Open(u, v)', Inserting(u, v)')
<1>. DEFINE Goal == CountStep(Open(u, v), Inserting(u, v), Open(u, v)', Inserting(u, v)')
<1>0. /\ venue_sessions \in Seq(Session) /\ Len(venue_sessions) \in Nat
      /\ Ids = 1 .. Len(venue_sessions) /\ Ids \subseteq 1 .. MaxSessions
      /\ \A s \in Ids : venue_sessions[s] \in Session
      /\ slots \in [Slots -> CheckSlot]
      /\ MaxSessions \in Nat
  BY SessionsAreNumbered, SessionsAssumption DEF SInv, SessionsTypeOK
<1>1. ASSUME NEW x \in Slots, NEW y, slots' = [slots EXCEPT ![x] = y], y.pc # "insert"
      PROVE  Inserting(u, v)' \subseteq Inserting(u, v) \ {x}
  BY <1>0, <1>1 DEF Inserting
<1>2. CASE UNCHANGED venue_sessions /\ Inserting(u, v)' \subseteq Inserting(u, v)
  BY <1>2 DEF CountStep, Open, Ids
<1>3. ASSUME NEW r \in Slots, NEW w \in Users, NEW x \in Venues, StartCheckin(r, w, x)
      PROVE  Goal
  <2>1. CASE Open(w, x) = {} /\ At(r, "insert", w, x, 0)
    <3>1. CASE u = w /\ v = x
      BY <1>3, <2>1, <3>1 DEF StartCheckin, CountStep, Open, Ids
    <3>2. CASE ~(u = w /\ v = x)
      BY <1>0, <1>2, <1>3, <2>1, <3>2 DEF StartCheckin, At, Inserting
    <3>. QED  BY <3>1, <3>2
  <2>2. ASSUME NEW s, At(r, "spawn", w, x, s) PROVE Goal
    BY <1>1, <1>2, <1>3, <2>2 DEF StartCheckin, At
  <2>. QED  BY <1>3, <2>1, <2>2 DEF StartCheckin
<1>4. ASSUME NEW r \in Slots, OpenSession(r) PROVE Goal
  <2>. DEFINE n == Len(venue_sessions) + 1
              x == NewSession(slots[r].user, slots[r].venue)
  <2>1. /\ n \in 1 .. MaxSessions /\ Ids' = Ids \cup {n}
        /\ \A s \in Ids : venue_sessions'[s] = venue_sessions[s]
        /\ venue_sessions'[n] = x
    <3>1. x \in Session
      BY <1>4 DEF OpenSession, SInv, SlotsKnow, NewSession, Session
    <3>2. venue_sessions' = Append(venue_sessions, x) /\ Len(venue_sessions) < MaxSessions
      BY <1>4 DEF OpenSession
    <3>. HIDE DEF x
    <3>3. /\ venue_sessions' \in Seq(Session)
          /\ Len(venue_sessions') = n
          /\ \A s \in 1 .. Len(venue_sessions) : venue_sessions'[s] = venue_sessions[s]
          /\ venue_sessions'[n] = x
      BY <1>0, <3>1, <3>2, AppendProperties
    <3>4. Ids' = 1 .. n
      BY <3>3, LenProperties DEF Ids
    <3>. QED  BY <1>0, <3>2, <3>3, <3>4
  <2>2. Inserting(u, v)' \subseteq Inserting(u, v) \ {r}
    <3>. DEFINE y == [pc |-> "spawn", user |-> slots[r].user, venue |-> slots[r].venue,
                      session |-> n]
    <3>1. slots' = [slots EXCEPT ![r] = y] /\ y.pc # "insert"
      BY <1>4 DEF OpenSession, At
    <3>. HIDE DEF y
    <3>. QED  BY <1>1, <3>1
  <2>3. Open(u, v)' \subseteq Open(u, v) \cup {n}
    BY <2>1 DEF Open
  <2>4. CASE r \in Inserting(u, v)
    BY <2>1, <2>2, <2>3, <2>4 DEF CountStep
  <2>5. CASE r \notin Inserting(u, v)
    <3>1. n \notin Open(u, v)'
      BY <1>4, <2>1, <2>5 DEF Open, Inserting, NewSession, OpenSession
    <3>. QED  BY <2>2, <2>3, <3>1 DEF CountStep
  <2>. QED  BY <2>4, <2>5
<1>5. ASSUME NEW r \in Slots, CloseSession(r) PROVE Goal
  <2>1. Inserting(u, v)' \subseteq Inserting(u, v)
    <3>1. CASE slots' = [slots EXCEPT ![r] = Idle]
      <4>1. Idle.pc # "insert"
        BY DEF Idle
      <4>. QED  BY <1>1, <3>1, <4>1
    <3>2. CASE slots' = [slots EXCEPT ![r].pc = "announce"]
      <4>. DEFINE y == [slots[r] EXCEPT !.pc = "announce"]
      <4>1. slots' = [slots EXCEPT ![r] = y]
        BY <3>2
      <4>2. y.pc # "insert"
        BY <1>0 DEF CheckSlot
      <4>. HIDE DEF y
      <4>. QED  BY <1>1, <4>1, <4>2
    <3>. QED  BY <1>5, <3>1, <3>2 DEF CloseSession
  <2>2. Open(u, v)' \subseteq Open(u, v)
    <3>1. CASE UNCHANGED venue_sessions
      BY <3>1 DEF Open, Ids
    <3>2. ASSUME NEW s \in Ids,
                 venue_sessions' = [venue_sessions EXCEPT ![s].status = "closed"]
          PROVE  Open(u, v)' \subseteq Open(u, v)
      <4>. DEFINE y == [venue_sessions[s] EXCEPT !.status = "closed"]
      <4>1. venue_sessions' = [venue_sessions EXCEPT ![s] = y]
        BY <3>2
      <4>2. y.status # "open" /\ y \in Session
        BY <1>0 DEF Session
      <4>. HIDE DEF y
      <4>3. /\ Len(venue_sessions') = Len(venue_sessions)
            /\ venue_sessions' \in Seq(Session)
            /\ \A t \in 1 .. Len(venue_sessions) :
                  venue_sessions'[t] = IF t = s THEN y ELSE venue_sessions[t]
        BY <1>0, <4>1, <4>2, ExceptSeq
      <4>4. Ids' = Ids
        BY <1>0, <4>3, LenProperties DEF Ids
      <4>. QED  BY <1>0, <4>2, <4>3, <4>4 DEF Open
    <3>3. slots[r].session \in Ids
      BY <1>5 DEF CloseSession, SInv, SlotsKnow
    <3>. QED  BY <1>5, <3>1, <3>2, <3>3 DEF CloseSession
  <2>. QED  BY <2>1, <2>2 DEF CountStep
<1>6. ASSUME NEW r \in Slots, SpawnCheckin(r) \/ SpawnClosed(r) \/ Abandon(r)
      PROVE  Goal
  <2>1. UNCHANGED venue_sessions /\ slots' = [slots EXCEPT ![r] = Idle]
    BY <1>6 DEF SpawnCheckin, SpawnClosed, Abandon
  <2>2. Idle.pc # "insert"
    BY DEF Idle
  <2>. QED  BY <1>1, <1>2, <2>1, <2>2
<1>10. ASSUME NEW r \in Slots, NEW s \in Ids, StartCheckout(r, s)
       PROVE  Goal
  <2>. DEFINE y == [pc |-> "close", user |-> venue_sessions[s].user_id,
                    venue |-> venue_sessions[s].venue_id, session |-> s]
  <2>1. UNCHANGED venue_sessions /\ slots' = [slots EXCEPT ![r] = y] /\ y.pc # "insert"
    BY <1>10 DEF StartCheckout, At
  <2>. HIDE DEF y
  <2>. QED  BY <1>1, <1>2, <2>1
<1>7. CASE UNCHANGED <<venue_sessions, slots>>
  BY <1>2, <1>7 DEF Inserting
<1>8. ASSUME NEW s \in Ids,
             \/ PostCheckin(s) \/ PostClosed(s) \/ UpsertVenueProfile(s) \/ AddGlobalXP(s)
             \/ AddLocalXP(s) \/ \E kind \in TaskKinds : LoseTask(kind, s)
      PROVE  Goal
  BY <1>7, <1>8 DEF PostCheckin, PostClosed, UpsertVenueProfile, AddGlobalXP, AddLocalXP,
                    LoseTask
<1>9. CASE UNCHANGED vars
  BY <1>7, <1>9 DEF vars
<1>. QED  BY <1>3, <1>4, <1>5, <1>6, <1>8, <1>9, <1>10 DEF Next

-----------------------------------------------------------------------------
\* Theorems

\* Every reachable state satisfies the inductive invariant.
THEOREM SessionsInvariance == Spec => []SInv
<1>1. Init => SInv
  BY InitHasSInv
<1>2. SInv /\ [Next]_vars => SInv'
  BY StepKeepsSInv
<1>. QED  BY <1>1, <1>2, PTL DEF Spec

\* Type correctness.
THEOREM SessionsTypeCorrect == Spec => []SessionsTypeOK
<1>1. SInv => SessionsTypeOK
  BY DEF SInv
<1>. QED  BY <1>1, SessionsInvariance, PTL

\* What the ledger says of a session is true, and stays true.
THEOREM EventsAreTrue == Spec => []SessionEventsTrue
<1>1. SInv => SessionEventsTrue
  BY DEF SInv
<1>. QED  BY <1>1, SessionsInvariance, PTL

\* Of the check-outs that race for a session, one tells the ledger, and once.
THEOREM ClosingsAnnouncedOnce == Spec => []CloseAnnouncedOnce
<1>1. SInv => CloseAnnouncedOnce
  BY DEF SInv
<1>. QED  BY <1>1, SessionsInvariance, PTL

\* No guest gets more visits or XP at a venue than check-ins were answered, with
\* those that are still to come.
THEOREM RewardsAreEarned == Spec => []RewardsWithinCheckins
<1>1. SInv => RewardsWithinCheckins
  BY DEF SInv
<1>. QED  BY <1>1, SessionsInvariance, PTL

\* What a guest has at all venues together is part of the global XP, in every
\* state between the two statements that give it.
THEOREM LocalXPCovered == Spec => []LocalXPWithinGlobal
<1>1. ASSUME SInv, NEW u \in Users PROVE LocalXP(u) <= global_xp[u]
  <2>1. LocalXP(u) + CheckinXP * Waiting("local_xp", SessionsBy(u)) <= global_xp[u]
    BY <1>1 DEF SInv, GlobalXPFirst
  <2>2. PICK f : f = [v \in Venues |-> local_xp[<<u, v>>]]
    OBVIOUS
  <2>3. SumFunctionOnSet(f, Venues) \in Nat
    <3>1. \A v \in Venues : f[v] \in Nat
      BY <1>1, <2>2 DEF SInv, SessionsTypeOK, Guests
    <3>. QED  BY <3>1, SessionsAssumption, SumNat
  <2>4. LocalXP(u) \in Nat
    BY <2>2, <2>3 DEF LocalXP
  <2>5. Waiting("local_xp", SessionsBy(u)) \in Nat
    BY <1>1, WaitingIsNatural
  <2>6. CheckinXP * Waiting("local_xp", SessionsBy(u)) \in Nat
    BY <2>5, XPProducts
  <2>. QED  BY <1>1, <2>1, <2>4, <2>6 DEF SInv, SessionsTypeOK
<1>2. SInv => LocalXPWithinGlobal
  BY <1>1 DEF LocalXPWithinGlobal
<1>. QED  BY <1>2, SessionsInvariance, PTL

\* A guest has no more open sessions at a venue than check-ins that run side by
\* side, which is what the check before the INSERT is worth.
THEOREM OpenSessionsAreBounded == Spec => []OpenSessionsBounded
<1>1. Init => OpenSessionsBounded
  <2>1. ASSUME Init, NEW u \in Users, NEW v \in Venues
        PROVE  Open(u, v) = {} /\ Inserting(u, v) = {}
    <3>1. Ids = {}
      BY <2>1, EmptySeq DEF Init, Ids
    <3>. QED  BY <2>1, <3>1 DEF Init, Open, Inserting, Idle
  <2>2. Cardinality({}) = 0 /\ Cardinality(Slots) \in Nat
    BY SessionsAssumption, FS_EmptySet, FS_CardinalityType
  <2>. QED  BY <2>1, <2>2 DEF OpenSessionsBounded
<1>2. ASSUME SInv, OpenSessionsBounded, [Next]_vars PROVE OpenSessionsBounded'
  <2>1. Ids \subseteq 1 .. MaxSessions
    BY <1>2, SessionsAreNumbered DEF SInv, SessionsTypeOK
  <2>2. ASSUME NEW u \in Users, NEW v \in Venues
        PROVE  Cardinality(Open(u, v)') + Cardinality(Inserting(u, v)') <= Cardinality(Slots)
    <3>1. /\ Open(u, v) \in SUBSET (1 .. MaxSessions)
          /\ Inserting(u, v) \in SUBSET Slots
          /\ Inserting(u, v)' \in SUBSET Slots
      BY <2>1 DEF Open, Inserting
    <3>2. Cardinality(Open(u, v)) + Cardinality(Inserting(u, v)) <= Cardinality(Slots)
      BY <1>2 DEF OpenSessionsBounded
    <3>3. CountStep(Open(u, v), Inserting(u, v), Open(u, v)', Inserting(u, v)')
      BY <1>2, OpenStepped
    <3>4. PICK O \in SUBSET (1 .. MaxSessions) : O = Open(u, v)
      BY <3>1
    <3>5. PICK I \in SUBSET Slots : I = Inserting(u, v)
      BY <3>1
    <3>6. PICK I1 \in SUBSET Slots : I1 = Inserting(u, v)'
      BY <3>1
    <3>7. PICK O1 : O1 = Open(u, v)'
      OBVIOUS
    <3>8. Cardinality(O1) + Cardinality(I1) <= Cardinality(Slots)
      <4>1. CountStep(O, I, O1, I1) /\ Cardinality(O) + Cardinality(I) <= Cardinality(Slots)
        BY <3>2, <3>3, <3>4, <3>5, <3>6, <3>7
      <4>. QED  BY <4>1, CountsBounded
    <3>. QED  BY <3>6, <3>7, <3>8
  <2>. QED  BY <2>2 DEF OpenSessionsBounded
<1>. QED  BY <1>1, <1>2, SessionsInvariance, PTL DEF Spec

\* A session keeps its guest and venue and is not opened again.
THEOREM SessionsMoveForward == Spec => SessionLifecycle
<1>. DEFINE Kept == \A s \in Ids :
                       /\ s \in Ids'
                       /\ venue_sessions'[s].user_id = venue_sessions[s].user_id
                       /\ venue_sessions'[s].venue_id = venue_sessions[s].venue_id
                       /\ venue_sessions[s].status = "closed" =>
                             venue_sessions'[s].status = "closed"
<1>1. SInv /\ [Next]_vars => [Kept]_venue_sessions
  BY StepKeepsSInv DEF SessionsKept
<1>. QED  BY <1>1, SessionsInvariance, PTL DEF Spec, SessionLifecycle

\* No check-in or check-out, and no retry of one, moves anybody's balance.
THEOREM SessionsMoveNoMoney == Spec => BalancesUntouched
<1>. DEFINE Same == \A u \in Users : GlobalBalance(u)' = GlobalBalance(u)
<1>1. ASSUME SInv, [Next]_vars PROVE Same
  <2>1. ASSUME NEW u \in Users PROVE Spendable(u)' = Spendable(u)
    <3>1. LedgerStep
      BY <1>1, LedgerStepped
    <3>2. CASE ledger_events' = ledger_events
      BY <3>2 DEF Spendable
    <3>3. ASSUME NEW s \in Ids, NEW row, Tells(row, s),
                 ledger_events' = ledger_events \cup {row}
          PROVE  Spendable(u)' = Spendable(u)
      <4>1. row.event_type \in BalanceExcluded
        BY <3>3 DEF Tells, BalanceExcluded
      <4>. QED  BY <3>3, <4>1 DEF Spendable
    <3>. QED  BY <3>1, <3>2, <3>3 DEF LedgerStep
  <2>. QED  BY <2>1, Zenon DEF GlobalBalance
<1>2. SInv /\ [Next]_vars => [Same]_ledger_events
  BY <1>1
<1>. QED  BY <1>2, SessionsInvariance, PTL DEF Spec, BalancesUntouched

\* The sessions service keeps the contract of the ledger.
THEOREM SessionsLedgerIsAppendOnly == Spec => LedgerContract
<1>1. SInv /\ [Next]_vars => [LedgerAppend]_ledger_events
  BY LedgerStepped
<1>. QED  BY <1>1, SessionsInvariance, PTL DEF Spec, LedgerContract

=============================================================================
