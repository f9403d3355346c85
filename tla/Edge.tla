--------------------------------- MODULE Edge ---------------------------------
(***************************************************************************)
(* An edge node and the sync service: orders are charged to the local      *)
(* ledger, an agent sends what is pending in frames to the sync service,   *)
(* which books it on the cloud ledger, and strikes off what it is told was *)
(* accepted.  The agent may die at any point, and a frame that it does not *)
(* wait for any more may still be at work.                                 *)
(*                                                                         *)
(* Rows are numbered as they are written, which is the order of            *)
(* occurred_at.  The counter of attempts is written and never read, and is *)
(* left out.                                                               *)
(***************************************************************************)
EXTENDS Ledger, Catalog, Sequences

CONSTANTS
    EdgeKeys,    \* idempotency keys of tills
    Bodies,      \* bodies of POST /orders that tills send
    EdgeVenue,   \* EDGE_VENUE_ID
    EdgeDevice,  \* EDGE_DEVICE_ID as the ledger's cast sees it: "uuid" or "text"
    Credit,      \* Credit[u]: credits of u that the local ledger came with
    Slots,       \* goroutines of the edge's handlers
    FrameSlots,  \* goroutines of the sync service
    BatchSize,   \* batchSize
    MaxFaults    \* bound on failures, so that liveness can be asked for

DeviceIds == {"none", "uuid", "text"}

ASSUME EdgeAssumption ==
    /\ \A b \in Bodies :
          /\ b.user_id \in Users /\ b.device_id \in DeviceIds
          /\ b.idempotency_key \in EdgeKeys
          /\ DOMAIN b.items \subseteq Items
    /\ EdgeVenue \in Venues
    /\ Credit \in [Users -> Nat]
    /\ IsFiniteSet(Slots) /\ Slots # {}
    /\ BatchSize \in Nat \ {0} /\ MaxFaults \in Nat

VARIABLES
    edge_events,  \* rows of the local ledger_events, in order
    synced,       \* rows whose sync_status, here and in sync_queue, is "synced"
    slots,        \* orders in progress
    agent,        \* the sync agent
    frames,       \* frames the sync service works on
    faults        \* failures so far

edge_vars == <<edge_events, slots>>
sync_vars == <<synced, agent, frames, faults>>
vars == <<ledger_events, items, local_items, edge_vars, sync_vars>>

Idle == [pc |-> "idle"]

Init ==
    /\ ledger_events = {}
    /\ CatalogInit
    /\ edge_events = <<>>
    /\ synced = {}
    /\ slots = [r \in Slots |-> Idle]
    /\ agent = Idle
    /\ frames = [f \in FrameSlots |-> Idle]
    /\ faults = 0

-----------------------------------------------------------------------------
\* The local ledger, and POST /orders of the edge

Total(b) == MapThenSumSet(LAMBDA i : Price[i] * b.items[i], DOMAIN b.items)

\* Nobody checks a quantity, so a total may be of any sign.  Totals are of a fixed
\* width, so that one of them is the largest.
ASSUME TotalAssumption ==
    /\ \A b \in Bodies : Total(b) \in Int
    /\ \E b \in Bodies : \A c \in Bodies : Total(c) <= Total(b)

\* The orders that the local ledger writes: no row has the amount 0.
Sales == {b \in Bodies : Total(b) # 0}

EdgeRow(b) ==
    [event_type |-> "order_paid", user_id |-> b.user_id, device_id |-> b.device_id,
     amount_nc |-> -Total(b), idempotency_key |-> b.idempotency_key]

EdgeKeyTaken(k) == \E n \in DOMAIN edge_events : edge_events[n].idempotency_key = k

RowsOf(u) == {n \in DOMAIN edge_events : edge_events[n].user_id = u}

\* GetBalance: the float, less what the guest spent here.
EdgeBalance(u) ==
    Credit[u] + SumFunctionOnSet([n \in RowsOf(u) |-> edge_events[n].amount_nc], RowsOf(u))

\* Variant: the balance must be positive.
CanPayPositive(b) == EdgeBalance(b.user_id) > 0

CanPay(b) == EdgeBalance(b.user_id) >= Total(b)

CheckOrder(r, b) ==
    /\ slots[r] = Idle
    /\ \A i \in DOMAIN b.items : KnownLocally(i)
    /\ CanPay(b)
    /\ slots' = [slots EXCEPT ![r] = [pc |-> "write", body |-> b]]
    /\ UNCHANGED <<ledger_events, items, local_items, edge_events, sync_vars>>

\* Variant: the column has no UNIQUE constraint.
WriteOrderAgain(r) ==
    /\ slots[r].pc = "write"
    /\ edge_events' = IF slots[r].body \in Sales
                        THEN Append(edge_events, EdgeRow(slots[r].body)) ELSE edge_events
    /\ slots' = [slots EXCEPT ![r] = Idle]
    /\ UNCHANGED <<ledger_events, items, local_items, sync_vars>>

\* WriteEvent of the local ledger: ErrZeroAmount, the row and its place in
\* sync_queue in one transaction, or the row that is there.
WriteOrder(r) ==
    LET b == slots[r].body IN
    /\ slots[r].pc = "write"
    /\ edge_events' = IF b \in Sales /\ ~EdgeKeyTaken(b.idempotency_key)
                        THEN Append(edge_events, EdgeRow(b)) ELSE edge_events
    /\ slots' = [slots EXCEPT ![r] = Idle]
    /\ UNCHANGED <<ledger_events, items, local_items, sync_vars>>

-----------------------------------------------------------------------------
\* The sync agent

Pending == DOMAIN edge_events \ synced

\* PendingSyncEvents
Batch == {n \in Pending : Cardinality({m \in Pending : m < n}) < BatchSize}

\* Variant: the rows are struck off as they are sent.
StartSyncStriking(f) ==
    /\ agent = Idle /\ frames[f] = Idle /\ Pending # {}
    /\ frames' = [frames EXCEPT ![f] = [pc |-> "ingest", todo |-> Batch, ok |-> {}]]
    /\ agent' = [pc |-> "wait", frame |-> f]
    /\ synced' = synced \cup Batch
    /\ UNCHANGED <<ledger_events, items, local_items, edge_vars, faults>>

StartSync(f) ==
    /\ agent = Idle /\ frames[f] = Idle /\ Pending # {}
    /\ frames' = [frames EXCEPT ![f] = [pc |-> "ingest", todo |-> Batch, ok |-> {}]]
    /\ agent' = [pc |-> "wait", frame |-> f]
    /\ UNCHANGED <<ledger_events, items, local_items, edge_vars, synced, faults>>

\* Both UPDATEs of MarkSynced are one transaction.
MarkSynced ==
    /\ agent.pc = "mark"
    /\ synced' = synced \cup agent.rows
    /\ agent' = Idle
    /\ UNCHANGED <<ledger_events, items, local_items, edge_vars, frames, faults>>

\* The agent does not get its answer, gets an error for one, or cannot mark.
AbandonSync ==
    /\ faults < MaxFaults
    /\ agent # Idle
    /\ agent' = Idle
    /\ faults' = faults + 1
    /\ UNCHANGED <<ledger_events, items, local_items, edge_vars, synced, frames>>

\* The edge restarts; what is in SQLite stays.
CrashEdge ==
    /\ faults < MaxFaults
    /\ agent' = Idle
    /\ slots' = [r \in Slots |-> Idle]
    /\ faults' = faults + 1
    /\ UNCHANGED <<ledger_events, items, local_items, edge_events, synced, frames>>

-----------------------------------------------------------------------------
\* The sync service

\* authorisedWriter: the service that a frame's event is passed off as.
AuthorisedWriter(event_type) ==
    CASE event_type \in {"order_paid"} -> "orders"
      [] event_type \in {"session_closed", "venue_checkin"} -> "sessions"
      [] event_type = "ticket_purchase" -> "ticketing"
      [] event_type \in {"topup_confirmed", "topup_pending", "refund_created",
                         "bonus_credit"} -> "payments"
      [] event_type = "merge_anonymous" -> "profiles"
      [] OTHER -> "sync"

\* Variant: a retried event gets another key.
CloudRequestPerAttempt(e) ==
    WriteRequest(e.event_type, e.user_id, EdgeVenue, e.amount_nc, "none",
                 <<e.idempotency_key, faults>>)

CloudRequest(e) ==
    WriteRequest(e.event_type, e.user_id, EdgeVenue, e.amount_nc, "none", e.idempotency_key)

\* The frame's device stands in for a missing one, and the INSERT casts it.
CloudAccepts(e) ==
    /\ (IF e.device_id = "none" THEN EdgeDevice ELSE e.device_id) # "text"
    /\ Accepts(AuthorisedWriter(e.event_type), CloudRequest(e))

BookEvent(e) ==
    \/ CloudAccepts(e) /\ WriteEvent(AuthorisedWriter(e.event_type), CloudRequest(e))
    \/ ~CloudAccepts(e) /\ UNCHANGED ledger_events

\* Variant: every event that was passed on is reported as accepted.
IngestEventTrusting(f, n) ==
    /\ frames[f].pc = "ingest" /\ n \in frames[f].todo
    /\ \A m \in frames[f].todo : n <= m
    /\ BookEvent(edge_events[n])
    /\ frames' = [frames EXCEPT ![f] =
                     [pc |-> "ingest", todo |-> frames[f].todo \ {n},
                      ok |-> frames[f].ok \cup {n}]]
    /\ UNCHANGED <<items, local_items, edge_vars, synced, agent, faults>>

\* syncEvent for the next event of a frame.
IngestEvent(f, n) ==
    /\ frames[f].pc = "ingest" /\ n \in frames[f].todo
    /\ \A m \in frames[f].todo : n <= m
    /\ BookEvent(edge_events[n])
    /\ frames' = [frames EXCEPT ![f] =
                     [pc |-> "ingest", todo |-> frames[f].todo \ {n},
                      ok |-> frames[f].ok \cup (IF CloudAccepts(edge_events[n]) THEN {n} ELSE {})]]
    /\ UNCHANGED <<items, local_items, edge_vars, synced, agent, faults>>

\* The ledger does not get the call, or its answer is lost: "rejected".
LoseEvent(f, n) ==
    /\ faults < MaxFaults
    /\ frames[f].pc = "ingest" /\ n \in frames[f].todo
    /\ \A m \in frames[f].todo : n <= m
    /\ BookEvent(edge_events[n]) \/ UNCHANGED ledger_events
    /\ frames' = [frames EXCEPT ![f] =
                     [pc |-> "ingest", todo |-> frames[f].todo \ {n}, ok |-> frames[f].ok]]
    /\ faults' = faults + 1
    /\ UNCHANGED <<items, local_items, edge_vars, synced, agent>>

\* The reply, which reaches the agent if it still waits for it.
Reply(f) ==
    /\ frames[f].pc = "ingest" /\ frames[f].todo = {}
    /\ agent' = IF agent = [pc |-> "wait", frame |-> f]
                  THEN IF frames[f].ok = {} THEN Idle ELSE [pc |-> "mark", rows |-> frames[f].ok]
                  ELSE agent
    /\ frames' = [frames EXCEPT ![f] = Idle]
    /\ UNCHANGED <<ledger_events, items, local_items, edge_vars, synced, faults>>

\* The sync service dies with a frame, and the agent's call fails.
DropFrame(f) ==
    /\ faults < MaxFaults
    /\ frames[f] # Idle
    /\ frames' = [frames EXCEPT ![f] = Idle]
    /\ agent' = IF agent = [pc |-> "wait", frame |-> f] THEN Idle ELSE agent
    /\ faults' = faults + 1
    /\ UNCHANGED <<ledger_events, items, local_items, edge_vars, synced>>

-----------------------------------------------------------------------------

Maintain == CatalogNext /\ UNCHANGED <<ledger_events, edge_vars, sync_vars>>

Next ==
    \/ Maintain
    \/ \E r \in Slots : (\E b \in Bodies : CheckOrder(r, b)) \/ WriteOrder(r)
    \/ \E f \in FrameSlots :
          \/ StartSync(f) \/ Reply(f) \/ DropFrame(f)
          \/ \E n \in DOMAIN edge_events : IngestEvent(f, n) \/ LoseEvent(f, n)
    \/ MarkSynced
    \/ AbandonSync
    \/ CrashEdge

Spec == Init /\ [][Next]_vars

\* The ticker of the agent, and handlers that come to their next call.
FairSpec ==
    /\ Spec
    /\ WF_vars(\E f \in FrameSlots : StartSync(f))
    /\ WF_vars(MarkSynced)
    /\ \A f \in FrameSlots :
          /\ WF_vars(\E n \in DOMAIN edge_events : IngestEvent(f, n))
          /\ WF_vars(Reply(f))

-----------------------------------------------------------------------------
\* Properties

EdgeRows == {EdgeRow(b) : b \in Sales}

Order == {Idle} \cup [pc : {"write"}, body : Bodies]

TypeOK ==
    /\ CatalogTypeOK
    /\ edge_events \in Seq(EdgeRows)
    /\ synced \subseteq DOMAIN edge_events
    /\ slots \in [Slots -> Order]
    /\ agent \in {Idle} \cup [pc : {"wait"}, frame : FrameSlots]
                        \cup [pc : {"mark"}, rows : SUBSET DOMAIN edge_events]
    /\ frames \in [FrameSlots -> {Idle} \cup [pc : {"ingest"}, todo : SUBSET DOMAIN edge_events,
                                              ok : SUBSET DOMAIN edge_events]]
    /\ faults \in 0..MaxFaults

\* What an order says, of a row on the edge or in the cloud.
Entry(e) ==
    [key |-> e.idempotency_key, user_id |-> e.user_id, amount_nc |-> e.amount_nc]

Booked(n) ==
    \E e \in ledger_events :
        /\ Entry(e) = Entry(edge_events[n])
        /\ e.event_type = "order_paid" /\ e.venue_id = EdgeVenue

\* "On 200 OK: marks events as synced" (SYSTEM_ARCHITECTURE.md): the edge strikes
\* off an order only when the cloud has booked it as it was written, although a 200
\* may hold refused events, calls are lost, and frames outlive the agent's wait.
SyncedIsBooked == \A n \in synced : Booked(n)

\* What an order takes from the balance, if it does.
Debt(b) == IF Total(b) > 0 THEN Total(b) ELSE 0

MaxTotal == CHOOSE t \in {Debt(b) : b \in Bodies} : \A b \in Bodies : Debt(b) <= t

\* Two orders may pass the balance check before either is written.  The red a
\* guest gets into is one order for each further request at a time, and does not
\* grow from there, whatever quantities are asked for, retried and restarted.
EdgeOverdraftBounded ==
    \A u \in Users : EdgeBalance(u) >= -(Cardinality(Slots) - 1) * MaxTotal

Transfer == INSTANCE EdgeTransfer WITH
    Entries <- {Entry(e) : e \in EdgeRows},
    written <- {Entry(edge_events[n]) : n \in DOMAIN edge_events},
    booked <- {Entry(e) : e \in ledger_events},
    struck <- {Entry(edge_events[n]) : n \in synced}

\* The edge, the agent and the sync service implement the transfer: every row the
\* cloud gets is an order of the edge, booked once, however often it is sent.
TransferSpec == Transfer!Spec

\* Every order that the ledger can take is booked and struck off in the end,
\* through crashes and lost answers, as long as fewer than a batch of orders that
\* it cannot take wait before it.
EventsReachCloud ==
    \A n \in 1..Cardinality(EdgeKeys) :
        (n \in DOMAIN edge_events /\ CloudAccepts(edge_events[n])) ~> (n \in synced /\ Booked(n))

-----------------------------------------------------------------------------
\* The inductive invariant of EdgeProofs

LocalKeysUnique ==
    \A m, n \in DOMAIN edge_events :
        edge_events[m].idempotency_key = edge_events[n].idempotency_key => m = n

\* The cloud has nothing that the edge did not write.
CloudFromEdge ==
    \A e \in ledger_events : \E n \in DOMAIN edge_events :
        e = Row(AuthorisedWriter(edge_events[n].event_type), CloudRequest(edge_events[n]))

\* What the sync service has accepted, and what the agent is about to mark.
AnswersTrue ==
    /\ \A f \in FrameSlots : frames[f] # Idle => \A n \in frames[f].ok : Booked(n)
    /\ agent.pc = "mark" => \A n \in agent.rows : Booked(n)

\* Orders of u that passed the check and are not written yet.
Writing(u) == {r \in Slots : slots[r].pc = "write" /\ slots[r].body.user_id = u}

InProgress(u) ==
    SumFunctionOnSet([r \in Writing(u) |-> Debt(slots[r].body)], Writing(u))

\* The bound on the red holds of the balance less what is in progress: an order
\* that passes the check has no more than the other handlers' orders beside it.
OrdersCovered ==
    \A u \in Users :
        EdgeBalance(u) - InProgress(u) >= -(Cardinality(Slots) - 1) * MaxTotal

\* The invariant every step preserves.
EInv ==
    /\ TypeOK
    /\ CopyIsGenuine
    /\ UniqueIdempotencyKey
    /\ LocalKeysUnique
    /\ CloudFromEdge
    /\ SyncedIsBooked
    /\ AnswersTrue
    /\ OrdersCovered

=============================================================================
