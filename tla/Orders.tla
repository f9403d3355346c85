------------------------------- MODULE Orders -------------------------------
(***************************************************************************)
(* The orders service over the cloud ledger.  Every HTTP handler that makes *)
(* more than one call is split at its calls: a request slot holds the      *)
(* handler's position and what it has read, and other requests run between *)
(* any two of its steps.  An order row is identified by its idempotency    *)
(* key, of which the table has one row.                                    *)
(*                                                                         *)
(* Handlers are driven as the handler tests drive them, with the caller's  *)
(* role in the request context; a request whose role is refused changes    *)
(* nothing and has no action.                                              *)
(***************************************************************************)
EXTENDS Ledger

CONSTANTS
    OrderIds,    \* orders, by idempotency key
    NoOrder,     \* the row that does not exist
    Sessions,    \* venue sessions an order is attached to
    Staff,       \* callers of the service
    RoleOf,      \* their role claim
    OrderBodies, \* bodies of POST /
    Topups,      \* top-ups the payments service confirms meanwhile
    Slots,       \* handler goroutines
    Faults,      \* TRUE: requests may fail between two steps, tasks may be lost
    MaxBatches   \* bound on how often one order's items are inserted

ASSUME OrdersAssumption ==
    /\ RoleOf \in [Staff -> {"bartender", "venue_admin", "nitecore"}]
    /\ OrderBodies \subseteq [venue_id : Venues, guest_session_id : Sessions,
                              staff_user_id : Staff, total_nc : Nat \ {0}]
    /\ Topups \subseteq [id : Nat, user_id : Users, amount_nc : Nat \ {0}]
    /\ Faults \in BOOLEAN
    /\ MaxBatches \in Nat \ {0}
    /\ NoOrder \notin OrderIds

\* Totals are of a fixed width, so that one of them is the largest.
ASSUME BoundsAssumption ==
    /\ IsFiniteSet(Slots) /\ Slots # {}
    /\ \E b \in OrderBodies : \A c \in OrderBodies : c.total_nc <= b.total_nc

OrderPaidKey(o) == <<"order_paid", o>>
RefundKey(o)    == <<"refund_created", o>>
TopupKey(t)     == <<"topup_confirmed", t>>
NoEvent         == <<"none", NoOrder>>

OrderRow ==
    [venue_id : Venues, guest_session_id : Sessions, staff_user_id : Staff,
     total_nc : Nat \ {0}, status : {"pending", "paid", "voided"},
     recent : BOOLEAN,  \* created less than two minutes ago
     guest_user_id : Users \cup {NoUser},
     ledger_event_id : {OrderPaidKey(o) : o \in OrderIds} \cup {NoEvent},
     item_batches : Nat]

ASSUME NoOrderAssumption == NoOrder \notin OrderRow

VARIABLES
    orders,          \* rows of orders.orders, with the count of item inserts
    slots,           \* requests in progress
    tasks,           \* goroutines started after the reply, by kind and order
    total_spend_nc,  \* sessions service: spend counter of each session
    global_xp,       \* profiles service: XP of each user
    local_xp         \* the same at each venue: the share that comes from orders

xp_vars == <<global_xp, local_xp>>
svc_vars == <<orders, slots, tasks, total_spend_nc, xp_vars>>
vars == <<ledger_events, svc_vars>>

Idle == [pc |-> "idle", order |-> NoOrder, guest |-> NoUser, prev |-> "pending"]
TaskKinds == {"spend", "xp", "local_xp", "refund"}

Exists(o) == orders[o] # NoOrder
Status(o) == orders[o].status
EverPaid(o) == Exists(o) /\ orders[o].ledger_event_id # NoEvent

Init ==
    /\ ledger_events = {}
    /\ orders = [o \in OrderIds |-> NoOrder]
    /\ slots = [r \in Slots |-> Idle]
    /\ tasks = [t \in TaskKinds \X OrderIds |-> 0]
    /\ total_spend_nc = [s \in Sessions |-> 0]
    /\ global_xp = [u \in Users |-> 0]
    /\ local_xp = [p \in Users \X Venues |-> 0]

-----------------------------------------------------------------------------
\* Creating an order

\* POST /.  One transaction: the row is inserted unless the idempotency key
\* exists, and the items are inserted either way.
CreateOrder(o, body) ==
    /\ \/ /\ ~Exists(o)
          /\ orders' = [orders EXCEPT ![o] =
                [venue_id |-> body.venue_id,
                 guest_session_id |-> body.guest_session_id,
                 staff_user_id |-> body.staff_user_id,
                 total_nc |-> body.total_nc,
                 status |-> "pending", recent |-> TRUE,
                 guest_user_id |-> NoUser, ledger_event_id |-> NoEvent,
                 item_batches |-> 1]]
       \/ /\ Exists(o)
          /\ orders[o].item_batches < MaxBatches
          /\ orders' = [orders EXCEPT ![o].item_batches = @ + 1]
    /\ UNCHANGED <<ledger_events, slots, tasks, total_spend_nc, xp_vars>>

\* Two minutes have passed since the order was created.
WindowCloses(o) ==
    /\ Exists(o) /\ orders[o].recent
    /\ orders' = [orders EXCEPT ![o].recent = FALSE]
    /\ UNCHANGED <<ledger_events, slots, tasks, total_spend_nc, xp_vars>>

-----------------------------------------------------------------------------
\* Finalizing an order: POST /{order_id}/finalize

Reply(r) == slots' = [slots EXCEPT ![r] = Idle]
Goto(r, pc) == slots' = [slots EXCEPT ![r].pc = pc]

\* GetOrder: a missing order is 404, one that is not pending 409.  Without a
\* guest the balance is not checked.
StartFinalize(r, o, guest) ==
    /\ slots[r].pc = "idle"
    /\ Exists(o) /\ Status(o) = "pending"
    /\ slots' = [slots EXCEPT ![r] =
          [pc |-> IF guest = NoUser THEN "debit" ELSE "balance",
           order |-> o, guest |-> guest, prev |-> "pending"]]
    /\ UNCHANGED <<ledger_events, orders, tasks, total_spend_nc, xp_vars>>

\* Variant: any balance above zero is enough.
PositiveBalance(o, guest) == VenueBalance(guest, orders[o].venue_id) > 0

SufficientBalance(o, guest) ==
    VenueBalance(guest, orders[o].venue_id) >= orders[o].total_nc

\* fetchUserBalance and the 402.
CheckBalance(r) ==
    /\ slots[r].pc = "balance"
    /\ IF SufficientBalance(slots[r].order, slots[r].guest)
         THEN Goto(r, "debit")
         ELSE Reply(r)
    /\ UNCHANGED <<ledger_events, orders, tasks, total_spend_nc, xp_vars>>

\* Variant: the key names the payer too, so each payer is charged once.
DebitRequestPerPayer(o, guest) ==
    WriteRequest("order_paid", guest, orders[o].venue_id, -orders[o].total_nc,
                 "uuid", <<"order_paid", o, guest>>)

\* Variant: the amount is sent without its sign.
DebitRequestUnsigned(o, guest) ==
    WriteRequest("order_paid", guest, orders[o].venue_id, orders[o].total_nc,
                 "uuid", OrderPaidKey(o))

DebitRequest(o, guest) ==
    WriteRequest("order_paid", guest, orders[o].venue_id, -orders[o].total_nc,
                 "uuid", OrderPaidKey(o))

\* Variant: the ledger's status code is not looked at.
WriteDebitUnchecked(r) ==
    /\ slots[r].pc = "debit"
    /\ WriteEvent("orders", DebitRequest(slots[r].order, slots[r].guest))
    /\ Goto(r, "store")
    /\ UNCHANGED <<orders, tasks, total_spend_nc, xp_vars>>

\* The order_paid event; a ledger answer other than 200 is a 500.
WriteDebit(r) ==
    LET req == DebitRequest(slots[r].order, slots[r].guest) IN
    /\ slots[r].pc = "debit"
    /\ WriteEvent("orders", req)
    /\ IF Accepts("orders", req) THEN Goto(r, "store") ELSE Reply(r)
    /\ UNCHANGED <<orders, tasks, total_spend_nc, xp_vars>>

StorePaid(r, o) ==
    orders' = [orders EXCEPT ![o].status = "paid",
                             ![o].ledger_event_id = OrderPaidKey(o),
                             ![o].guest_user_id = slots[r].guest]

\* Variant: the UPDATE has no condition on the status.
FinalizeOrderUnguarded(r) ==
    /\ slots[r].pc = "store"
    /\ StorePaid(r, slots[r].order)
    /\ Goto(r, "spawn")
    /\ UNCHANGED <<ledger_events, tasks, total_spend_nc, xp_vars>>

\* Variant: no return after the error of the UPDATE.
FinalizeOrderFallsThrough(r) ==
    LET o == slots[r].order IN
    /\ slots[r].pc = "store"
    /\ Goto(r, "spawn")
    /\ \/ Status(o) = "pending" /\ StorePaid(r, o)
       \/ Status(o) # "pending" /\ UNCHANGED orders
    /\ UNCHANGED <<ledger_events, tasks, total_spend_nc, xp_vars>>

\* UPDATE ... SET status='paid' WHERE status='pending'; no row is a 500.  The
\* event id is the one the ledger returned for the order's key.
FinalizeOrder(r) ==
    LET o == slots[r].order IN
    /\ slots[r].pc = "store"
    /\ \/ /\ Status(o) = "pending"
          /\ StorePaid(r, o)
          /\ Goto(r, "spawn")
       \/ /\ Status(o) # "pending"
          /\ Reply(r)
          /\ UNCHANGED orders
    /\ UNCHANGED <<ledger_events, tasks, total_spend_nc, xp_vars>>

\* go incrementSessionSpend, go awardXP, and the 200.
SpawnEffects(r) ==
    LET o == slots[r].order IN
    /\ slots[r].pc = "spawn"
    /\ tasks' = [tasks EXCEPT
                   ![<<"spend", o>>] = @ + 1,
                   ![<<"xp", o>>] = IF slots[r].guest = NoUser THEN @ ELSE @ + 1]
    /\ Reply(r)
    /\ UNCHANGED <<ledger_events, orders, total_spend_nc, xp_vars>>

-----------------------------------------------------------------------------
\* Voiding an order: POST /{order_id}/void

CanVoid(caller, row) ==
    \/ RoleOf[caller] \in {"nitecore", "venue_admin"}
    \/ RoleOf[caller] = "bartender" /\ row.staff_user_id = caller /\ row.recent

\* GetOrder and canVoid.  The status read here decides about the refund later.
StartVoid(r, o, caller) ==
    /\ slots[r].pc = "idle"
    /\ Exists(o)
    /\ CanVoid(caller, orders[o])
    /\ slots' = [slots EXCEPT ![r] =
          [pc |-> "void", order |-> o, guest |-> orders[o].guest_user_id,
           prev |-> Status(o)]]
    /\ UNCHANGED <<ledger_events, orders, tasks, total_spend_nc, xp_vars>>

\* Variant: the UPDATE has no condition on the status.
VoidOrderUnguarded(r) ==
    /\ slots[r].pc = "void"
    /\ orders' = [orders EXCEPT ![slots[r].order].status = "voided"]
    /\ IF slots[r].prev = "paid" /\ slots[r].guest # NoUser
         THEN Goto(r, "refund")
         ELSE Reply(r)
    /\ UNCHANGED <<ledger_events, tasks, total_spend_nc, xp_vars>>

\* UPDATE ... SET status='voided' WHERE status IN ('pending','paid'); no row is
\* a 409.
VoidOrder(r) ==
    LET o == slots[r].order IN
    /\ slots[r].pc = "void"
    /\ \/ /\ Status(o) \in {"pending", "paid"}
          /\ orders' = [orders EXCEPT ![o].status = "voided"]
          /\ IF slots[r].prev = "paid" /\ slots[r].guest # NoUser
               THEN Goto(r, "refund")
               ELSE Reply(r)
       \/ /\ Status(o) \notin {"pending", "paid"}
          /\ Reply(r)
          /\ UNCHANGED orders
    /\ UNCHANGED <<ledger_events, tasks, total_spend_nc, xp_vars>>

\* go writeLedgerEvent(refund_created), and the 200.
SpawnRefund(r) ==
    LET o == slots[r].order IN
    /\ slots[r].pc = "refund"
    /\ tasks' = [tasks EXCEPT ![<<"refund", o>>] = @ + 1]
    /\ Reply(r)
    /\ UNCHANGED <<ledger_events, orders, total_spend_nc, xp_vars>>

-----------------------------------------------------------------------------
\* Goroutines, failures and the other services

TaskDone(kind, o) ==
    /\ tasks[<<kind, o>>] > 0
    /\ tasks' = [tasks EXCEPT ![<<kind, o>>] = @ - 1]

\* POST {sessions}/{session_id}/spend: an increment, not idempotent.
IncrementSessionSpend(o) ==
    /\ TaskDone("spend", o)
    /\ total_spend_nc' = [total_spend_nc EXCEPT
                            ![orders[o].guest_session_id] = @ + orders[o].total_nc]
    /\ UNCHANGED <<ledger_events, orders, slots, xp_vars>>

\* POST {profiles}/users/{user_id}/xp as far as AddGlobalXP: an increment, not
\* idempotent.
AwardXP(o) ==
    /\ tasks[<<"xp", o>>] > 0
    /\ tasks' = [tasks EXCEPT ![<<"xp", o>>] = @ - 1, ![<<"local_xp", o>>] = @ + 1]
    /\ global_xp' = [global_xp EXCEPT
                       ![orders[o].guest_user_id] = @ + orders[o].total_nc]
    /\ UNCHANGED <<ledger_events, orders, slots, total_spend_nc, local_xp>>

\* AddLocalXP of the same request, which finds the guest's profile at the venue or
\* does not.
AddLocalXP(o) ==
    /\ TaskDone("local_xp", o)
    /\ \/ local_xp' = [local_xp EXCEPT
              ![<<orders[o].guest_user_id, orders[o].venue_id>>] = @ + orders[o].total_nc]
       \/ UNCHANGED local_xp
    /\ UNCHANGED <<ledger_events, orders, slots, total_spend_nc, global_xp>>

RefundRequest(o) ==
    WriteRequest("refund_created", orders[o].guest_user_id, orders[o].venue_id,
                 orders[o].total_nc, "uuid", RefundKey(o))

\* The compensating event; the answer is not looked at.
PostRefund(o) ==
    /\ TaskDone("refund", o)
    /\ WriteEvent("orders", RefundRequest(o))
    /\ UNCHANGED <<orders, slots, total_spend_nc, xp_vars>>

\* The handler ends early: a database or ledger call failed, its answer was
\* lost, the client went away, or the process died.  What it wrote stays.
Abandon(r) ==
    /\ Faults
    /\ slots[r].pc # "idle"
    /\ Reply(r)
    /\ UNCHANGED <<ledger_events, orders, tasks, total_spend_nc, xp_vars>>

\* A fire-and-forget call that does not arrive; nothing retries it.
LoseTask(kind, o) ==
    /\ Faults
    /\ TaskDone(kind, o)
    /\ UNCHANGED <<ledger_events, orders, slots, total_spend_nc, xp_vars>>

\* The payments service credits a confirmed top-up; it names no venue.
ConfirmTopup(t) ==
    /\ ~KeyTaken(TopupKey(t))
    /\ WriteEvent("payments", WriteRequest("topup_confirmed", t.user_id, NoVenue,
                                           t.amount_nc, "uuid", TopupKey(t)))
    /\ UNCHANGED svc_vars

Next ==
    \/ \E o \in OrderIds :
          \/ \E body \in OrderBodies : CreateOrder(o, body)
          \/ WindowCloses(o)
          \/ IncrementSessionSpend(o)
          \/ AwardXP(o)
          \/ AddLocalXP(o)
          \/ PostRefund(o)
          \/ \E kind \in TaskKinds : LoseTask(kind, o)
    \/ \E r \in Slots :
          \/ \E o \in OrderIds, u \in Users \cup {NoUser} : StartFinalize(r, o, u)
          \/ CheckBalance(r)
          \/ WriteDebit(r)
          \/ FinalizeOrder(r)
          \/ SpawnEffects(r)
          \/ \E o \in OrderIds, c \in Staff : StartVoid(r, o, c)
          \/ VoidOrder(r)
          \/ SpawnRefund(r)
          \/ Abandon(r)
    \/ \E t \in Topups : ConfirmTopup(t)

Spec == Init /\ [][Next]_vars

-----------------------------------------------------------------------------
\* Properties

Slot == [pc : {"idle", "balance", "debit", "store", "spawn", "void", "refund"},
         order : OrderIds \cup {NoOrder}, guest : Users \cup {NoUser},
         prev : {"pending", "paid", "voided"}]

Keys == {OrderPaidKey(o) : o \in OrderIds} \cup {RefundKey(o) : o \in OrderIds}
            \cup {TopupKey(t) : t \in Topups}

OrdersTypeOK ==
    /\ ledger_events \subseteq LedgerRow(Keys)
    /\ orders \in [OrderIds -> OrderRow \cup {NoOrder}]
    /\ slots \in [Slots -> Slot]
    /\ tasks \in [TaskKinds \X OrderIds -> Nat]
    /\ total_spend_nc \in [Sessions -> Nat]
    /\ global_xp \in [Users -> Nat]
    /\ local_xp \in [Users \X Venues -> Nat]

\* A row that references a ledger event references its own order_paid event,
\* which took exactly its total at its venue, and exactly the rows that were paid
\* reference one ("Orders always reference the ledger event ID that consumed
\* the NC").
PaidOrderHasDebit ==
    \A o \in OrderIds :
        /\ EverPaid(o) =>
              \E e \in ledger_events :
                  /\ e.idempotency_key = orders[o].ledger_event_id
                  /\ e.idempotency_key = OrderPaidKey(o)
                  /\ e.event_type = "order_paid"
                  /\ e.amount_nc = -orders[o].total_nc
                  /\ e.venue_id = orders[o].venue_id
        /\ Exists(o) => /\ Status(o) = "paid" => EverPaid(o)
                        /\ Status(o) = "pending" => ~EverPaid(o)

\* However often and for whichever guest an order is finalized, the ledger holds
\* at most one debit for it.
OneDebitPerOrder ==
    \A e, f \in ledger_events :
        /\ e.event_type = "order_paid" /\ f.event_type = "order_paid"
        /\ e.idempotency_key[2] = f.idempotency_key[2]
        => e = f

MaxTotal ==
    CHOOSE t \in {b.total_nc : b \in OrderBodies} : \A b \in OrderBodies : b.total_nc <= t

\* The balance is checked in one call and debited in another.  The red a guest
\* gets into at a venue is one order for each further request at a time, however
\* finalizes cross, fail and are retried; with one request there is none.
OverdraftBounded ==
    \A u \in Users, v \in Venues :
        VenueBalance(u, v) >= -(Cardinality(Slots) - 1) * MaxTotal

\* The goroutines that have an effect of this kind still to make.
Count(kind, o) ==
    IF kind = "local_xp" THEN tasks[<<"xp", o>>] + tasks[<<"local_xp", o>>]
    ELSE tasks[<<kind, o>>]

PaidTotal(O) == SumFunctionOnSet([o \in O |-> orders[o].total_nc], O)

Outstanding(kind, O) ==
    SumFunctionOnSet([o \in O |-> Count(kind, o) * orders[o].total_nc], O)

PaidIn(s) == {o \in OrderIds : EverPaid(o) /\ orders[o].guest_session_id = s}
PaidBy(u) == {o \in OrderIds : EverPaid(o) /\ orders[o].guest_user_id = u}
PaidByAt(u, v) == {o \in PaidBy(u) : orders[o].venue_id = v}

\* The spend counter of a session never runs ahead of the orders paid in it,
\* although the increment is not idempotent and finalize is retried.
SpendWithinSales ==
    \A s \in Sessions :
        total_spend_nc[s] + Outstanding("spend", PaidIn(s)) <= PaidTotal(PaidIn(s))

\* The XP that orders give a guest never run ahead of what that guest was sold,
\* neither all of them nor those at one venue.
XPWithinSales ==
    \A u \in Users :
        /\ global_xp[u] + Outstanding("xp", PaidBy(u)) <= PaidTotal(PaidBy(u))
        /\ \A v \in Venues :
              local_xp[<<u, v>>] + Outstanding("local_xp", PaidByAt(u, v))
                  <= PaidTotal(PaidByAt(u, v))

\* Two voids of one order never both send a refund, and a refund is only ever on
\* its way for a void order that had been paid.
RefundSentOnce ==
    \A o \in OrderIds :
        LET sending == {r \in Slots : slots[r].pc = "refund" /\ slots[r].order = o}
        IN  /\ Cardinality(sending) + Count("refund", o) <= 1
            /\ Cardinality(sending) + Count("refund", o) = 1
                  => EverPaid(o) /\ Status(o) = "voided"

\* What a step may do to a row: what was ordered never changes, the ledger event
\* and the guest are set once, and the status only moves forward.
RowStep(o) ==
    LET old == orders[o]
        new == orders'[o]
    IN  /\ new # NoOrder
        /\ \A f \in {"venue_id", "guest_session_id", "staff_user_id", "total_nc"} :
              new[f] = old[f]
        /\ old.ledger_event_id # NoEvent =>
              /\ new.ledger_event_id = old.ledger_event_id
              /\ new.guest_user_id = old.guest_user_id
        /\ new.status # old.status =>
              <<old.status, new.status>> \in {<<"pending", "paid">>,
                  <<"pending", "voided">>, <<"paid", "voided">>}

RowLifecycle == [][\A o \in OrderIds : Exists(o) => RowStep(o)]_orders

DebitOf(o) == {e \in ledger_events : e.idempotency_key = OrderPaidKey(o)}

PhaseOf(o) ==
    IF ~Exists(o) THEN "none"
    ELSE IF Status(o) = "pending" THEN "open"
    ELSE IF Status(o) = "paid" THEN "settled"
    ELSE "void"

AnyOf(S) == CHOOSE e \in S : TRUE

PayerOf(o) == IF DebitOf(o) = {} THEN NoUser ELSE AnyOf(DebitOf(o)).user_id

\* Each order goes through the life of OrderSettlement: the payer is the user
\* of its order_paid event.
Settlement == INSTANCE OrderSettlement WITH
    Orders <- OrderIds, Payers <- Users, Nobody <- NoUser,
    phase <- [o \in OrderIds |-> PhaseOf(o)],
    payer <- [o \in OrderIds |-> PayerOf(o)]

\* The orders service implements the abstract specification: charged at most
\* once and to one payer, settled only after that, void for good.
SettlementSpec == Settlement!Spec

-----------------------------------------------------------------------------
\* The inductive invariant of OrdersProofs

\* The rows of type order_paid are the rows under an order's key, and say what
\* the order row says.
DebitsMatchOrders ==
    \A e \in ledger_events :
        /\ e.event_type = "order_paid" =>
              \E o \in OrderIds : e.idempotency_key = OrderPaidKey(o)
        /\ \A o \in OrderIds :
              e.idempotency_key = OrderPaidKey(o) =>
                  /\ Exists(o)
                  /\ e.event_type = "order_paid"
                  /\ e.amount_nc = -orders[o].total_nc
                  /\ e.venue_id = orders[o].venue_id

\* What a handler in position s may rely on when it resumes after a call.
Knows(s) ==
    s.pc # "idle" =>
        /\ s.order \in OrderIds
        /\ Exists(s.order)
        /\ s.pc = "store" => KeyTaken(OrderPaidKey(s.order))
        /\ s.pc = "spawn" => EverPaid(s.order)
        /\ s.pc = "void" /\ s.prev = "paid" => EverPaid(s.order)
        /\ s.pc = "refund" => EverPaid(s.order) /\ Status(s.order) = "voided"

HandlersKnow == \A r \in Slots : Knows(slots[r])

\* A goroutine runs for an order that was paid.
TasksOfPaid ==
    \A k \in TaskKinds, o \in OrderIds : tasks[<<k, o>>] > 0 => EverPaid(o)

\* The handler in slot r is about to start the goroutine of this kind.
Starts(r, kind, o) ==
    /\ slots[r].pc = IF kind = "refund" THEN "refund" ELSE "spawn"
    /\ slots[r].order = o

\* The effect of this kind is still to come.
Owing(kind, o) == Count(kind, o) > 0 \/ \E r \in Slots : Starts(r, kind, o)

\* Each effect of an order is owed once: by one handler, or by one goroutine.
EffectsOnce ==
    \A kind \in TaskKinds, o \in OrderIds :
        /\ Count(kind, o) <= 1
        /\ \A r \in Slots : Starts(r, kind, o) =>
              /\ Count(kind, o) = 0
              /\ \A q \in Slots : Starts(q, kind, o) => q = r
        /\ kind = "refund" /\ Count(kind, o) > 0 => Status(o) = "voided"

\* The table has as many rows as there were requests to create one.
RowsFinite == IsFiniteSet({o \in OrderIds : Exists(o)})

\* What the orders of O whose effect is no longer owed can have added to a
\* counter.
Counted(kind, O) ==
    SumFunctionOnSet([o \in O |-> IF Owing(kind, o) THEN 0 ELSE orders[o].total_nc], O)

\* No counter holds more than that.
CountersCovered ==
    /\ \A s \in Sessions : total_spend_nc[s] <= Counted("spend", PaidIn(s))
    /\ \A u \in Users : global_xp[u] <= Counted("xp", PaidBy(u))
    /\ \A u \in Users, v \in Venues :
          local_xp[<<u, v>>] <= Counted("local_xp", PaidByAt(u, v))

\* An order's total is one that was asked for, and the ledger has as many rows as
\* there were calls.
TotalsGenuine ==
    \A o \in OrderIds :
        Exists(o) => \E b \in OrderBodies : orders[o].total_nc = b.total_nc

LedgerFinite == IsFiniteSet(ledger_events)

\* Handlers that are past the check of u's balance at v and have not debited yet.
Debiting(u, v) ==
    {r \in Slots : /\ slots[r].pc = "debit" /\ slots[r].guest = u
                   /\ orders[slots[r].order].venue_id = v}

OnTheWay(u, v) ==
    SumFunctionOnSet([r \in Debiting(u, v) |-> orders[slots[r].order].total_nc],
                     Debiting(u, v))

\* The bound on the red holds of the balance less what is on the way to be
\* debited: an order that passes the check has no more than the other handlers'
\* orders beside it.
DebitsCovered ==
    \A u \in Users, v \in Venues :
        VenueBalance(u, v) - OnTheWay(u, v) >= -(Cardinality(Slots) - 1) * MaxTotal

\* The invariant every step preserves, whatever the order in which handlers,
\* goroutines and failures interleave.
IInv ==
    /\ OrdersTypeOK
    /\ UniqueIdempotencyKey
    /\ DebitsMatchOrders
    /\ HandlersKnow
    /\ TasksOfPaid
    /\ PaidOrderHasDebit
    /\ EffectsOnce
    /\ RowsFinite
    /\ CountersCovered
    /\ TotalsGenuine
    /\ LedgerFinite
    /\ DebitsCovered

-----------------------------------------------------------------------------
\* What the documents say, and the code does not do

\* Voiding a paid order "writes a refund_created ledger event" (Product
\* Explained.MD): when the refund call has been made, the event is there.
VoidedPaidIsRefunded ==
    \A o \in OrderIds :
        /\ EverPaid(o) /\ Status(o) = "voided"
        /\ Count("refund", o) = 0 /\ \A r \in Slots : slots[r].pc = "idle"
        => KeyTaken(RefundKey(o))

=============================================================================
