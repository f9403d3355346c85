---------------------------- MODULE OrdersProofs -----------------------------
(***************************************************************************)
(* Theorems about Orders for any number of orders, requests, users, venues *)
(* and sessions, with failures or without.                                 *)
(***************************************************************************)
EXTENDS Orders, LedgerProofs

-----------------------------------------------------------------------------
\* The ledger

\* Orders, refunds and top-ups are booked under keys of their own.
LEMMA KeysDiffer ==
    /\ \A o, p \in OrderIds : OrderPaidKey(o) = OrderPaidKey(p) => o = p
    /\ \A o, p \in OrderIds : OrderPaidKey(o) # RefundKey(p)
    /\ \A o \in OrderIds, t \in Topups : OrderPaidKey(o) # TopupKey(t)
    /\ \A o \in OrderIds : OrderPaidKey(o) # NoEvent
BY OrdersAssumption DEF OrderPaidKey, RefundKey, TopupKey, NoEvent

\* The ledger refuses the refund of the orders service: refund_created belongs
\* to payments.
LEMMA RefundRefused ==
    ASSUME NEW o \in OrderIds
    PROVE  ~Accepts("orders", RefundRequest(o))
BY DEF Accepts, AuthorisedWriters, RefundRequest, WriteRequest

\* The row of an accepted debit.
LEMMA DebitRow ==
    ASSUME NEW o \in OrderIds, orders[o] \in OrderRow, NEW guest,
           guest \in Users \cup {NoUser},
           Accepts("orders", DebitRequest(o, guest))
    PROVE  LET row == Row("orders", DebitRequest(o, guest)) IN
           /\ row \in LedgerRow(Keys)
           /\ row.event_type = "order_paid"
           /\ row.user_id = guest /\ guest \in Users
           /\ row.venue_id = orders[o].venue_id
           /\ row.amount_nc = -orders[o].total_nc
           /\ row.idempotency_key = OrderPaidKey(o)
           /\ row.written_by = "orders"
BY DEF Accepts, Validate, AuthorisedWriters, DebitRequest, WriteRequest, Row,
       LedgerRow, Keys, OrderRow

\* The row of a top-up.
LEMMA TopupIsRow ==
    ASSUME NEW t \in Topups
    PROVE  LET req == WriteRequest("topup_confirmed", t.user_id, NoVenue,
                                   t.amount_nc, "uuid", TopupKey(t))
               row == Row("payments", req)
           IN  /\ row \in LedgerRow(Keys)
               /\ row.event_type = "topup_confirmed"
               /\ row.idempotency_key = TopupKey(t)
               /\ row.written_by = "payments"
BY OrdersAssumption DEF AuthorisedWriters, WriteRequest, Row, LedgerRow, Keys

-----------------------------------------------------------------------------
\* What a step does to the ledger and to the rows

\* A row that the system appends: the debit of an existing order, or a top-up.
Appended(row) ==
    /\ row \in LedgerRow(Keys)
    /\ ledger_events' = ledger_events \cup {row}
    /\ ~KeyTaken(row.idempotency_key)
    /\ row.written_by = AuthorisedWriters[row.event_type]

DebitFor(o, row) ==
    /\ Exists(o)
    /\ row.event_type = "order_paid"
    /\ row.idempotency_key = OrderPaidKey(o)
    /\ row.amount_nc = -orders[o].total_nc
    /\ row.venue_id = orders[o].venue_id

TopupRow(row) ==
    /\ row.event_type = "topup_confirmed"
    /\ \A o \in OrderIds : row.idempotency_key # OrderPaidKey(o)

LedgerStep ==
    \/ ledger_events' = ledger_events
    \/ \E row : Appended(row) /\ TopupRow(row)
    \/ \E row : \E o \in OrderIds : Appended(row) /\ DebitFor(o, row)

\* What every step leaves of the rows that exist.
RowsKept ==
    \A o \in OrderIds : Exists(o) =>
        /\ Exists(o)'
        /\ orders'[o].venue_id = orders[o].venue_id
        /\ orders'[o].guest_session_id = orders[o].guest_session_id
        /\ orders'[o].staff_user_id = orders[o].staff_user_id
        /\ orders'[o].total_nc = orders[o].total_nc
        /\ EverPaid(o) =>
              /\ orders'[o].ledger_event_id = orders[o].ledger_event_id
              /\ orders'[o].guest_user_id = orders[o].guest_user_id
        /\ \/ Status(o)' = Status(o)
           \/ Status(o) = "pending" /\ Status(o)' \in {"paid", "voided"}
           \/ Status(o) = "paid" /\ Status(o)' = "voided"

\* Whatever the step, a row keeps what was ordered, a paid row keeps its event
\* and its guest, and the status moves forward only.
LEMMA RowsStepKept ==
    ASSUME OrdersTypeOK, HandlersKnow, PaidOrderHasDebit, [Next]_vars
    PROVE  RowsKept
<1>0. orders \in [OrderIds -> OrderRow \cup {NoOrder}] /\ slots \in [Slots -> Slot]
  BY DEF OrdersTypeOK
<1>. USE <1>0
<1>1. ASSUME orders' = orders PROVE RowsKept
  BY <1>1 DEF RowsKept, Exists, EverPaid, Status
<1>2. ASSUME NEW o \in OrderIds, NEW body \in OrderBodies, CreateOrder(o, body)
      PROVE  RowsKept
  <2>1. CASE ~Exists(o)
    <3>1. /\ orders' = [orders EXCEPT ![o] = orders'[o]]
          /\ orders'[o] = [venue_id |-> body.venue_id,
                 guest_session_id |-> body.guest_session_id,
                 staff_user_id |-> body.staff_user_id,
                 total_nc |-> body.total_nc,
                 status |-> "pending", recent |-> TRUE,
                 guest_user_id |-> NoUser, ledger_event_id |-> NoEvent,
                 item_batches |-> 1]
      BY <1>2, <2>1 DEF CreateOrder
    <3>. QED  BY <2>1, <3>1 DEF RowsKept, Exists, EverPaid, Status
  <2>2. CASE Exists(o)
    BY <1>2, <2>2, NoOrderAssumption
       DEF CreateOrder, RowsKept, Exists, EverPaid, Status, OrderRow
  <2>. QED  BY <2>1, <2>2
<1>3. ASSUME NEW o \in OrderIds, WindowCloses(o) PROVE RowsKept
  BY <1>3, NoOrderAssumption DEF WindowCloses, RowsKept, Exists, EverPaid, Status, OrderRow
<1>4. ASSUME NEW r \in Slots, FinalizeOrder(r) PROVE RowsKept
  BY <1>4, NoOrderAssumption
     DEF FinalizeOrder, StorePaid, RowsKept, Exists, EverPaid, Status, OrderRow,
         HandlersKnow, Knows, PaidOrderHasDebit, Slot
<1>5. ASSUME NEW r \in Slots, VoidOrder(r) PROVE RowsKept
  BY <1>5, NoOrderAssumption
     DEF VoidOrder, RowsKept, Exists, EverPaid, Status, OrderRow, HandlersKnow, Knows,
         Slot
<1>. QED
  BY <1>1, <1>2, <1>3, <1>4, <1>5
     DEF Next, vars, svc_vars, xp_vars, StartFinalize, CheckBalance, WriteDebit, SpawnEffects,
         StartVoid, SpawnRefund, IncrementSessionSpend, AwardXP, AddLocalXP, PostRefund, Abandon,
         LoseTask, ConfirmTopup

\* Whatever the step, the ledger is unchanged or has one more row, which is the
\* debit of an existing order or a top-up.
LEMMA LedgerStepped ==
    ASSUME OrdersTypeOK, HandlersKnow, [Next]_vars
    PROVE  LedgerStep
<1>0. orders \in [OrderIds -> OrderRow \cup {NoOrder}] /\ slots \in [Slots -> Slot]
  BY DEF OrdersTypeOK
<1>1. ASSUME ledger_events' = ledger_events PROVE LedgerStep
  BY <1>1 DEF LedgerStep
<1>2. ASSUME NEW r \in Slots, WriteDebit(r) PROVE LedgerStep
  <2>1. PICK o, g : o = slots[r].order /\ g = slots[r].guest
    OBVIOUS
  <2>2. /\ o \in OrderIds /\ Exists(o) /\ orders[o] \in OrderRow
        /\ g \in Users \cup {NoUser}
    BY <1>0, <1>2, <2>1 DEF WriteDebit, HandlersKnow, Knows, Slot, Exists
  <2>3. WriteEvent("orders", DebitRequest(o, g))
    BY <1>2, <2>1 DEF WriteDebit
  <2>4. CASE ledger_events' # ledger_events
    <3>. DEFINE row == Row("orders", DebitRequest(o, g))
    <3>1. /\ Accepts("orders", DebitRequest(o, g))
          /\ ~KeyTaken(DebitRequest(o, g).idempotency_key)
          /\ ledger_events' = ledger_events \cup {row}
      BY <2>3, <2>4, WriteEventAppends
    <3>2. DebitRequest(o, g).idempotency_key = OrderPaidKey(o)
      BY DEF DebitRequest, WriteRequest
    <3>3. /\ row \in LedgerRow(Keys)
          /\ DebitFor(o, row)
          /\ row.written_by = "orders"
      BY <2>2, <3>1, DebitRow DEF DebitFor
    <3>4. row.written_by = AuthorisedWriters[row.event_type]
      BY <3>3 DEF DebitFor, AuthorisedWriters
    <3>5. Appended(row)
      BY <3>1, <3>2, <3>3, <3>4 DEF Appended, DebitFor
    <3>. QED  BY <2>2, <3>3, <3>5 DEF LedgerStep
  <2>. QED  BY <1>1, <2>4
<1>3. ASSUME NEW o \in OrderIds, PostRefund(o) PROVE LedgerStep
  BY <1>1, <1>3, RefundRefused DEF PostRefund, WriteEvent
<1>4. ASSUME NEW t \in Topups, ConfirmTopup(t) PROVE LedgerStep
  <2>. DEFINE req == WriteRequest("topup_confirmed", t.user_id, NoVenue,
                                  t.amount_nc, "uuid", TopupKey(t))
              row == Row("payments", req)
  <2>1. CASE ledger_events' # ledger_events
    <3>1. ledger_events' = ledger_events \cup {row} /\ ~KeyTaken(req.idempotency_key)
      BY <1>4, <2>1, WriteEventAppends DEF ConfirmTopup
    <3>2. req.idempotency_key = TopupKey(t)
      BY DEF WriteRequest
    <3>3. /\ row \in LedgerRow(Keys)
          /\ row.event_type = "topup_confirmed"
          /\ row.idempotency_key = TopupKey(t)
          /\ row.written_by = "payments"
      BY TopupIsRow
    <3>4. TopupRow(row)
      BY <3>3, KeysDiffer DEF TopupRow
    <3>5. Appended(row)
      BY <3>1, <3>2, <3>3 DEF Appended, AuthorisedWriters
    <3>. QED  BY <3>4, <3>5 DEF LedgerStep
  <2>. QED  BY <1>1, <2>1
<1>. QED
  BY <1>1, <1>2, <1>3, <1>4
     DEF Next, vars, svc_vars, xp_vars, CreateOrder, WindowCloses, StartFinalize, CheckBalance,
         FinalizeOrder, SpawnEffects, StartVoid, VoidOrder, SpawnRefund,
         IncrementSessionSpend, AwardXP, AddLocalXP, Abandon, LoseTask

-----------------------------------------------------------------------------
\* The inductive invariant

\* The largest total.
LEMMA LargestTotal ==
    /\ MaxTotal \in Nat
    /\ \A b \in OrderBodies : b.total_nc \in Nat /\ b.total_nc <= MaxTotal
<1>1. \A b \in OrderBodies : b.total_nc \in Nat
  BY OrdersAssumption
<1>2. PICK m \in OrderBodies : \A b \in OrderBodies : b.total_nc <= m.total_nc
  BY BoundsAssumption
<1>3. PICK t : t = MaxTotal
  OBVIOUS
<1>4. t \in {b.total_nc : b \in OrderBodies} /\ \A b \in OrderBodies : b.total_nc <= t
  BY <1>2, <1>3 DEF MaxTotal
<1>. QED  BY <1>1, <1>3, <1>4

\* The bound on the red is a number, and not above zero.
LEMMA OthersBound ==
    /\ Cardinality(Slots) \in Nat \ {0}
    /\ (Cardinality(Slots) - 1) * MaxTotal \in Nat
<1>1. Cardinality(Slots) \in Nat /\ Cardinality(Slots) # 0
  BY BoundsAssumption, FS_CardinalityType, FS_EmptySet
<1>2. PICK n \in Nat : n = Cardinality(Slots) - 1
  BY <1>1
<1>3. PICK m \in Nat : m = MaxTotal
  BY LargestTotal
<1>4. n * m \in Nat
  OBVIOUS
<1>. QED  BY <1>1, <1>2, <1>3, <1>4

\* The empty service satisfies the inductive invariant.
LEMMA InitIInv == Init => IInv
<1>. SUFFICES ASSUME Init PROVE IInv
  OBVIOUS
<1>1. \A o \in OrderIds : ~Exists(o)
  BY DEF Init, Exists
<1>2. OrdersTypeOK
  BY DEF Init, OrdersTypeOK, Slot, Idle
<1>3. UniqueIdempotencyKey /\ DebitsMatchOrders
  BY DEF Init, UniqueIdempotencyKey, DebitsMatchOrders
<1>4. HandlersKnow
  BY DEF Init, HandlersKnow, Knows, Idle
<1>5. TasksOfPaid
  BY DEF Init, TasksOfPaid
<1>6. PaidOrderHasDebit
  BY <1>1 DEF PaidOrderHasDebit, EverPaid
<1>7. EffectsOnce
  BY DEF Init, EffectsOnce, Starts, Count, Idle, TaskKinds
<1>8. RowsFinite
  <2>1. {o \in OrderIds : Exists(o)} = {}
    BY <1>1
  <2>. QED  BY <2>1, FS_EmptySet DEF RowsFinite
<1>9. CountersCovered
  <2>1. \A kind : Counted(kind, {}) = 0
    BY SumEmpty DEF Counted
  <2>2. /\ \A s \in Sessions : PaidIn(s) = {} /\ total_spend_nc[s] = 0
        /\ \A u \in Users : PaidBy(u) = {} /\ global_xp[u] = 0
        /\ \A u \in Users, v \in Venues : PaidByAt(u, v) = {} /\ local_xp[<<u, v>>] = 0
    BY <1>1 DEF Init, PaidIn, PaidBy, PaidByAt, EverPaid
  <2>. QED  BY <2>1, <2>2 DEF CountersCovered
<1>10. TotalsGenuine /\ LedgerFinite
  BY <1>1, FS_EmptySet DEF Init, TotalsGenuine, LedgerFinite
<1>11. DebitsCovered
  <2>1. \A u, v : /\ {e \in Spendable(u) : e.venue_id \in {v, NoVenue}} = {}
                  /\ Debiting(u, v) = {}
    BY DEF Init, Spendable, Debiting, Idle
  <2>2. \A u, v : VenueBalance(u, v) = 0 /\ OnTheWay(u, v) = 0
    BY <2>1, SumEmpty DEF VenueBalance, SumOfAmounts, OnTheWay
  <2>3. PICK bound \in Nat : bound = (Cardinality(Slots) - 1) * MaxTotal
    BY OthersBound
  <2>4. 0 - 0 >= -bound
    OBVIOUS
  <2>. QED  BY <2>2, <2>3, <2>4 DEF DebitsCovered
<1>. QED  BY <1>2, <1>3, <1>4, <1>5, <1>6, <1>7, <1>8, <1>9, <1>10, <1>11 DEF IInv

\* Appending under fresh keys keeps the idempotency keys unique.
LEMMA UniqueKeyKept ==
    ASSUME UniqueIdempotencyKey, LedgerStep
    PROVE  UniqueIdempotencyKey'
<1>1. CASE ledger_events' = ledger_events
  BY <1>1 DEF UniqueIdempotencyKey
<1>2. ASSUME NEW row, Appended(row) PROVE UniqueIdempotencyKey'
  BY <1>2 DEF UniqueIdempotencyKey, Appended, KeyTaken
<1>. QED  BY <1>1, <1>2 DEF LedgerStep

\* A debit is booked with the total and venue of its order, and the order row
\* never changes them afterwards.
LEMMA DebitsMatchOrdersKept ==
    ASSUME DebitsMatchOrders, LedgerStep, RowsKept
    PROVE  DebitsMatchOrders'
<1>1. \A e \in ledger_events :
        /\ e.event_type = "order_paid" =>
              \E o \in OrderIds : e.idempotency_key = OrderPaidKey(o)
        /\ \A o \in OrderIds : e.idempotency_key = OrderPaidKey(o) => DebitFor(o, e)'
  BY DEF DebitsMatchOrders, RowsKept, DebitFor
<1>2. ASSUME NEW row, Appended(row), TopupRow(row) PROVE DebitsMatchOrders'
  BY <1>1, <1>2 DEF DebitsMatchOrders, DebitFor, Appended, TopupRow
<1>3. ASSUME NEW row, NEW o \in OrderIds, Appended(row), DebitFor(o, row)
      PROVE  DebitsMatchOrders'
  <2>1. DebitFor(o, row)'
    BY <1>3 DEF DebitFor, RowsKept
  <2>2. \A p \in OrderIds : row.idempotency_key = OrderPaidKey(p) => p = o
    BY <1>3, KeysDiffer DEF DebitFor
  <2>. QED  BY <1>1, <1>3, <2>1, <2>2 DEF DebitsMatchOrders, DebitFor, Appended
<1>4. CASE ledger_events' = ledger_events
  BY <1>1, <1>4 DEF DebitsMatchOrders, DebitFor
<1>. QED  BY <1>2, <1>3, <1>4 DEF LedgerStep

\* A key once on the ledger stays there.
LEMMA KeysStayTaken ==
    ASSUME LedgerStep, NEW key, KeyTaken(key)
    PROVE  KeyTaken(key)'
<1>1. ledger_events \subseteq ledger_events'
  BY DEF LedgerStep, Appended
<1>. QED  BY <1>1 DEF KeyTaken

\* What a handler knows stays true while it waits.
LEMMA KnowledgeStays ==
    ASSUME LedgerStep, RowsKept, NEW s, Knows(s)
    PROVE  Knows(s)'
<1>. SUFFICES ASSUME s.pc # "idle" PROVE Knows(s)'
  BY DEF Knows
<1>1. s.order \in OrderIds /\ Exists(s.order) /\ Exists(s.order)'
  BY DEF Knows, RowsKept
<1>2. EverPaid(s.order) => EverPaid(s.order)'
  BY <1>1 DEF RowsKept, EverPaid
<1>3. KeyTaken(OrderPaidKey(s.order)) => KeyTaken(OrderPaidKey(s.order))'
  BY KeysStayTaken DEF OrderPaidKey
<1>4. Status(s.order) = "voided" => Status(s.order)' = "voided"
  BY <1>1 DEF RowsKept
<1>. QED  BY <1>1, <1>2, <1>3, <1>4 DEF Knows

\* Every handler that moves gets to know what its new position promises, and
\* no step of another handler takes it away.
LEMMA HandlersKnowKept ==
    ASSUME OrdersTypeOK, HandlersKnow, PaidOrderHasDebit, [Next]_vars, LedgerStep, RowsKept
    PROVE  HandlersKnow'
<1>0. /\ slots \in [Slots -> Slot]
      /\ orders \in [OrderIds -> OrderRow \cup {NoOrder}]
  BY DEF OrdersTypeOK
<1>. SUFFICES ASSUME NEW q \in Slots PROVE Knows(slots[q])'
  BY DEF HandlersKnow
<1>1. PICK old : old = slots[q]
  OBVIOUS
<1>2. PICK new : new = slots'[q]
  OBVIOUS
<1>3. old \in Slot /\ Knows(old) /\ Knows(old)'
  BY <1>0, <1>1, KnowledgeStays DEF HandlersKnow
<1>. SUFFICES Knows(new)'
  BY <1>2 DEF Knows
<1>4. CASE new = old
  BY <1>3, <1>4
<1>5. CASE new.pc = "idle"
  BY <1>5 DEF Knows
<1>6. ASSUME NEW o \in OrderIds, NEW u, StartFinalize(q, o, u) PROVE Knows(new)'
  <2>1. new.order = o /\ new.pc \in {"debit", "balance"} /\ Exists(o)
    BY <1>0, <1>2, <1>6 DEF StartFinalize
  <2>. QED  BY <2>1 DEF Knows, RowsKept
<1>7. ASSUME NEW o \in OrderIds, NEW c, StartVoid(q, o, c) PROVE Knows(new)'
  <2>1. new.order = o /\ new.pc = "void" /\ new.prev = Status(o) /\ Exists(o)
    BY <1>0, <1>2, <1>7 DEF StartVoid
  <2>2. Status(o) = "paid" => EverPaid(o)'
    BY <2>1 DEF PaidOrderHasDebit, RowsKept, EverPaid
  <2>. QED  BY <2>1, <2>2 DEF Knows, RowsKept
<1>8. ASSUME CheckBalance(q) PROVE Knows(new)'
  <2>1. \/ new.pc = "idle"
        \/ new.pc = "debit" /\ new.order = old.order /\ old.pc # "idle"
    BY <1>0, <1>1, <1>2, <1>8 DEF CheckBalance, Goto, Reply, Slot, Idle
  <2>. QED  BY <1>3, <2>1 DEF Knows
<1>9. ASSUME WriteDebit(q) PROVE Knows(new)'
  <2>1. CASE new.pc = "idle"
    BY <2>1, <1>5
  <2>2. CASE new.pc # "idle"
    <3>1. /\ WriteEvent("orders", DebitRequest(old.order, old.guest))
          /\ Accepts("orders", DebitRequest(old.order, old.guest))
          /\ old.pc = "debit" /\ new.pc = "store" /\ new.order = old.order
      BY <1>0, <1>1, <1>2, <1>9, <2>2 DEF WriteDebit, Goto, Reply, Slot, Idle
    <3>2. DebitRequest(old.order, old.guest).idempotency_key = OrderPaidKey(old.order)
      BY DEF DebitRequest, WriteRequest
    <3>3. KeyTaken(OrderPaidKey(old.order))'
      BY <3>1, <3>2, AcceptedIsBooked DEF KeyTaken, OrderPaidKey
    <3>. QED  BY <1>3, <3>1, <3>3 DEF Knows
  <2>. QED  BY <2>1, <2>2
<1>10. ASSUME FinalizeOrder(q) PROVE Knows(new)'
  <2>1. CASE new.pc = "idle"
    BY <2>1, <1>5
  <2>2. CASE new.pc # "idle"
    <3>1. /\ old.pc = "store" /\ new.pc = "spawn" /\ new.order = old.order
          /\ orders' = [orders EXCEPT ![old.order].status = "paid",
                             ![old.order].ledger_event_id = OrderPaidKey(old.order),
                             ![old.order].guest_user_id = old.guest]
      BY <1>0, <1>1, <1>2, <1>10, <2>2
         DEF FinalizeOrder, StorePaid, Goto, Reply, Slot, Idle
    <3>2. old.order \in OrderIds /\ Exists(old.order) /\ Exists(old.order)'
      BY <1>3, <3>1 DEF Knows
    <3>3. orders'[old.order].ledger_event_id = OrderPaidKey(old.order)
      BY <1>0, <3>1, <3>2 DEF OrderRow, Exists
    <3>4. EverPaid(old.order)'
      BY <3>2, <3>3, KeysDiffer DEF EverPaid, NoEvent, OrderPaidKey
    <3>. QED  BY <3>1, <3>2, <3>4 DEF Knows
  <2>. QED  BY <2>1, <2>2
<1>11. ASSUME VoidOrder(q) PROVE Knows(new)'
  <2>1. CASE new.pc = "idle"
    BY <2>1, <1>5
  <2>2. CASE new.pc # "idle"
    <3>1. /\ old.pc = "void" /\ old.prev = "paid"
          /\ new.pc = "refund" /\ new.order = old.order
          /\ orders' = [orders EXCEPT ![old.order].status = "voided"]
      BY <1>0, <1>1, <1>2, <1>11, <2>2 DEF VoidOrder, Goto, Reply, Slot, Idle
    <3>2. /\ old.order \in OrderIds /\ Exists(old.order)
          /\ Exists(old.order)' /\ EverPaid(old.order)'
      BY <1>3, <3>1 DEF Knows
    <3>3. Status(old.order)' = "voided"
      BY <1>0, <3>1, <3>2 DEF OrderRow, Exists, Status
    <3>. QED  BY <3>1, <3>2, <3>3 DEF Knows
  <2>. QED  BY <2>1, <2>2
<1>12. ASSUME SpawnEffects(q) \/ SpawnRefund(q) \/ Abandon(q) PROVE Knows(new)'
  BY <1>0, <1>2, <1>5, <1>12 DEF SpawnEffects, SpawnRefund, Abandon, Reply, Idle
<1>13. ASSUME NEW r \in Slots, r # q,
             \/ \E o \in OrderIds, u \in Users \cup {NoUser} : StartFinalize(r, o, u)
             \/ \E o \in OrderIds, c \in Staff : StartVoid(r, o, c)
             \/ CheckBalance(r) \/ WriteDebit(r) \/ FinalizeOrder(r)
             \/ SpawnEffects(r) \/ VoidOrder(r) \/ SpawnRefund(r) \/ Abandon(r)
      PROVE  Knows(new)'
  <2>1. new = old
    BY <1>0, <1>1, <1>2, <1>13
       DEF StartFinalize, StartVoid, CheckBalance, WriteDebit, FinalizeOrder,
           SpawnEffects, VoidOrder, SpawnRefund, Abandon, Reply, Goto
  <2>. QED  BY <2>1, <1>4
<1>14. ASSUME slots' = slots PROVE Knows(new)'
  BY <1>1, <1>2, <1>4, <1>14
<1>. QED
  BY <1>6, <1>7, <1>8, <1>9, <1>10, <1>11, <1>12, <1>13, <1>14
     DEF Next, vars, svc_vars, xp_vars, CreateOrder, WindowCloses, IncrementSessionSpend,
         AwardXP, AddLocalXP, PostRefund, LoseTask, ConfirmTopup

\* Goroutines are started by handlers that saw or made the order paid, and a
\* paid order stays ever paid.
LEMMA TasksOfPaidKept ==
    ASSUME OrdersTypeOK, HandlersKnow, TasksOfPaid, [Next]_vars, RowsKept
    PROVE  TasksOfPaid'
<1>0. /\ slots \in [Slots -> Slot]
      /\ tasks \in [TaskKinds \X OrderIds -> Nat]
  BY DEF OrdersTypeOK
<1>. SUFFICES ASSUME NEW k \in TaskKinds, NEW p \in OrderIds, tasks'[<<k, p>>] > 0
              PROVE  EverPaid(p)'
  BY DEF TasksOfPaid
<1>1. EverPaid(p) => EverPaid(p)'
  BY DEF EverPaid, RowsKept
<1>2. ASSUME tasks'[<<k, p>>] \in Nat, tasks'[<<k, p>>] <= tasks[<<k, p>>]
      PROVE  EverPaid(p)'
  BY <1>0, <1>1, <1>2 DEF TasksOfPaid
<1>3. ASSUME NEW r \in Slots, SpawnEffects(r) PROVE EverPaid(p)'
  <2>1. slots[r].order = p => EverPaid(p)
    BY <1>3 DEF SpawnEffects, HandlersKnow, Knows
  <2>2. slots[r].order # p => tasks'[<<k, p>>] = tasks[<<k, p>>]
    BY <1>0, <1>3 DEF SpawnEffects
  <2>. QED  BY <1>0, <1>1, <1>2, <2>1, <2>2
<1>4. ASSUME NEW r \in Slots, SpawnRefund(r) PROVE EverPaid(p)'
  <2>1. slots[r].order = p => EverPaid(p)
    BY <1>4 DEF SpawnRefund, HandlersKnow, Knows
  <2>2. slots[r].order # p => tasks'[<<k, p>>] = tasks[<<k, p>>]
    BY <1>0, <1>4 DEF SpawnRefund
  <2>. QED  BY <1>0, <1>1, <1>2, <2>1, <2>2
<1>5. ASSUME NEW kind \in TaskKinds, NEW o \in OrderIds, TaskDone(kind, o)
      PROVE  EverPaid(p)'
  <2>1. CASE <<kind, o>> = <<k, p>>
    BY <1>0, <1>1, <1>5, <2>1 DEF TaskDone, TasksOfPaid
  <2>2. CASE <<kind, o>> # <<k, p>>
    <3>1. tasks'[<<k, p>>] = tasks[<<k, p>>]
      BY <1>0, <1>5, <2>2 DEF TaskDone
    <3>. QED  BY <1>0, <1>2, <3>1
  <2>. QED  BY <2>1, <2>2
<1>6. ASSUME NEW o \in OrderIds, AwardXP(o) PROVE EverPaid(p)'
  <2>1. CASE o = p
    BY <1>1, <1>6, <2>1 DEF AwardXP, TasksOfPaid, TaskKinds
  <2>2. CASE o # p
    <3>1. tasks'[<<k, p>>] = tasks[<<k, p>>]
      BY <1>0, <1>6, <2>2 DEF AwardXP
    <3>. QED  BY <1>0, <1>2, <3>1
  <2>. QED  BY <2>1, <2>2
<1>7. ASSUME tasks' = tasks PROVE EverPaid(p)'
  BY <1>0, <1>2, <1>7
<1>. QED
  BY <1>3, <1>4, <1>5, <1>6, <1>7
     DEF Next, vars, svc_vars, xp_vars, CreateOrder, WindowCloses, StartFinalize, CheckBalance,
         WriteDebit, FinalizeOrder, StartVoid, VoidOrder, IncrementSessionSpend,
         AwardXP, AddLocalXP, PostRefund, Abandon, LoseTask, ConfirmTopup, TaskKinds

\* The UPDATE of finalize runs when the debit is booked; afterwards neither the
\* reference nor the debit changes.
LEMMA PaidOrderHasDebitKept ==
    ASSUME OrdersTypeOK, DebitsMatchOrders, HandlersKnow, PaidOrderHasDebit,
           [Next]_vars, LedgerStep, RowsKept
    PROVE  PaidOrderHasDebit'
<1>0. /\ slots \in [Slots -> Slot]
      /\ orders \in [OrderIds -> OrderRow \cup {NoOrder}]
  BY DEF OrdersTypeOK
<1>. DEFINE HasDebit(o) ==
               \E e \in ledger_events :
                  /\ e.idempotency_key = orders[o].ledger_event_id
                  /\ e.idempotency_key = OrderPaidKey(o)
                  /\ e.event_type = "order_paid"
                  /\ e.amount_nc = -orders[o].total_nc
                  /\ e.venue_id = orders[o].venue_id
            StatusFits(o) ==
               Exists(o) => /\ Status(o) = "paid" => EverPaid(o)
                            /\ Status(o) = "pending" => ~EverPaid(o)
<1>. SUFFICES ASSUME NEW p \in OrderIds
              PROVE  (EverPaid(p) => HasDebit(p))' /\ StatusFits(p)'
  BY DEF PaidOrderHasDebit
<1>1. ledger_events \subseteq ledger_events'
  BY DEF LedgerStep, Appended
<1>2. EverPaid(p) => HasDebit(p)'
  BY <1>1 DEF PaidOrderHasDebit, RowsKept, EverPaid
<1>3. ASSUME NEW r \in Slots, FinalizeOrder(r), slots[r].order = p, Status(p) = "pending"
      PROVE  (EverPaid(p) => HasDebit(p))' /\ StatusFits(p)'
  <2>1. Exists(p) /\ KeyTaken(OrderPaidKey(p)) /\ orders[p] \in OrderRow
    BY <1>0, <1>3 DEF FinalizeOrder, HandlersKnow, Knows, Exists
  <2>2. /\ orders'[p].status = "paid"
        /\ orders'[p].ledger_event_id = OrderPaidKey(p)
    BY <1>0, <1>3, <2>1 DEF FinalizeOrder, StorePaid, OrderRow
  <2>3. HasDebit(p)'
    BY <1>1, <2>1, <2>2 DEF RowsKept, DebitsMatchOrders, KeyTaken
  <2>4. EverPaid(p)'
    BY <2>1, <2>2, KeysDiffer DEF EverPaid, RowsKept, NoEvent, OrderPaidKey
  <2>. QED  BY <2>2, <2>3, <2>4 DEF Status
<1>4. ASSUME Exists(p), orders'[p].ledger_event_id = orders[p].ledger_event_id,
             Status(p)' \in {Status(p), "voided"}
      PROVE  (EverPaid(p) => HasDebit(p))' /\ StatusFits(p)'
  BY <1>2, <1>4 DEF EverPaid, RowsKept, PaidOrderHasDebit
<1>5. ASSUME NEW body, CreateOrder(p, body), ~Exists(p)
      PROVE  (EverPaid(p) => HasDebit(p))' /\ StatusFits(p)'
  <2>1. orders'[p].ledger_event_id = NoEvent /\ orders'[p].status = "pending"
    BY <1>0, <1>5 DEF CreateOrder
  <2>. QED  BY <2>1 DEF EverPaid, Status
<1>6. ASSUME orders'[p] = orders[p]
      PROVE  (EverPaid(p) => HasDebit(p))' /\ StatusFits(p)'
  BY <1>2, <1>6 DEF EverPaid, Exists, Status, PaidOrderHasDebit
<1>7. ASSUME NEW o \in OrderIds, NEW body, CreateOrder(o, body)
      PROVE  (EverPaid(p) => HasDebit(p))' /\ StatusFits(p)'
  <2>1. CASE o # p
    <3>1. orders'[p] = orders[p]
      BY <1>0, <1>7, <2>1 DEF CreateOrder
    <3>. QED  BY <1>6, <3>1
  <2>2. CASE o = p /\ Exists(p)
    <3>1. /\ orders'[p].ledger_event_id = orders[p].ledger_event_id
          /\ Status(p)' = Status(p)
      BY <1>0, <1>7, <2>2 DEF CreateOrder, Exists, Status, OrderRow
    <3>. QED  BY <1>4, <2>2, <3>1
  <2>. QED  BY <1>5, <1>7, <2>1, <2>2
<1>8. ASSUME NEW o \in OrderIds, WindowCloses(o)
      PROVE  (EverPaid(p) => HasDebit(p))' /\ StatusFits(p)'
  <2>1. CASE o # p
    <3>1. orders'[p] = orders[p]
      BY <1>0, <1>8, <2>1 DEF WindowCloses
    <3>. QED  BY <1>6, <3>1
  <2>2. CASE o = p
    <3>1. /\ Exists(p)
          /\ orders'[p].ledger_event_id = orders[p].ledger_event_id
          /\ Status(p)' = Status(p)
      BY <1>0, <1>8, <2>2 DEF WindowCloses, Exists, Status, OrderRow
    <3>. QED  BY <1>4, <3>1
  <2>. QED  BY <2>1, <2>2
<1>9. ASSUME NEW r \in Slots, FinalizeOrder(r)
      PROVE  (EverPaid(p) => HasDebit(p))' /\ StatusFits(p)'
  <2>1. CASE slots[r].order = p /\ Status(p) = "pending"
    BY <1>3, <1>9, <2>1
  <2>2. CASE ~(slots[r].order = p /\ Status(p) = "pending")
    <3>1. orders'[p] = orders[p]
      BY <1>0, <1>9, <2>2 DEF FinalizeOrder, StorePaid
    <3>. QED  BY <1>6, <3>1
  <2>. QED  BY <2>1, <2>2
<1>10. ASSUME NEW r \in Slots, VoidOrder(r)
      PROVE  (EverPaid(p) => HasDebit(p))' /\ StatusFits(p)'
  <2>1. CASE slots[r].order # p
    <3>1. orders'[p] = orders[p]
      BY <1>0, <1>10, <2>1 DEF VoidOrder
    <3>. QED  BY <1>6, <3>1
  <2>2. CASE slots[r].order = p
    <3>1. Exists(p) /\ orders[p] \in OrderRow
      BY <1>0, <1>10, <2>2 DEF VoidOrder, HandlersKnow, Knows, Exists
    <3>2. /\ orders'[p].ledger_event_id = orders[p].ledger_event_id
          /\ Status(p)' \in {Status(p), "voided"}
      BY <1>0, <1>10, <2>2, <3>1 DEF VoidOrder, Status, OrderRow
    <3>. QED  BY <1>4, <3>1, <3>2
  <2>. QED  BY <2>1, <2>2
<1>11. ASSUME orders' = orders
      PROVE  (EverPaid(p) => HasDebit(p))' /\ StatusFits(p)'
  BY <1>6, <1>11
<1>. QED
  BY <1>7, <1>8, <1>9, <1>10, <1>11
     DEF Next, vars, svc_vars, xp_vars, StartFinalize, CheckBalance, WriteDebit, SpawnEffects,
         StartVoid, SpawnRefund, IncrementSessionSpend, AwardXP, AddLocalXP, PostRefund, Abandon,
         LoseTask, ConfirmTopup

\* Where a handler goes next is a position.
LEMMA ReplyType ==
    ASSUME NEW r \in Slots, slots \in [Slots -> Slot], Reply(r)
    PROVE  slots' \in [Slots -> Slot]
<1>1. Idle \in Slot
  BY DEF Idle, Slot
<1>. QED  BY <1>1 DEF Reply

\* The same for a handler that goes on.
LEMMA GotoType ==
    ASSUME NEW r \in Slots, slots \in [Slots -> Slot],
           NEW pc \in {"idle", "balance", "debit", "store", "spawn", "void", "refund"},
           Goto(r, pc)
    PROVE  slots' \in [Slots -> Slot]
BY DEF Goto, Slot

\* Every step keeps the types; the counters stay natural because totals are.
LEMMA TypeKept ==
    ASSUME OrdersTypeOK, HandlersKnow, TasksOfPaid, [Next]_vars, LedgerStep
    PROVE  OrdersTypeOK'
<1>0. /\ ledger_events \subseteq LedgerRow(Keys)
      /\ orders \in [OrderIds -> OrderRow \cup {NoOrder}]
      /\ slots \in [Slots -> Slot]
      /\ tasks \in [TaskKinds \X OrderIds -> Nat]
      /\ total_spend_nc \in [Sessions -> Nat]
      /\ global_xp \in [Users -> Nat]
      /\ local_xp \in [Users \X Venues -> Nat]
  BY DEF OrdersTypeOK
<1>1. ledger_events' \subseteq LedgerRow(Keys)
  BY <1>0 DEF LedgerStep, Appended
<1>. SUFFICES /\ orders' \in [OrderIds -> OrderRow \cup {NoOrder}]
              /\ slots' \in [Slots -> Slot]
              /\ tasks' \in [TaskKinds \X OrderIds -> Nat]
              /\ total_spend_nc' \in [Sessions -> Nat]
              /\ global_xp' \in [Users -> Nat]
              /\ local_xp' \in [Users \X Venues -> Nat]
  BY <1>1 DEF OrdersTypeOK, LedgerRow, Keys
<1>. DEFINE G == /\ orders' \in [OrderIds -> OrderRow \cup {NoOrder}]
                 /\ slots' \in [Slots -> Slot]
                 /\ tasks' \in [TaskKinds \X OrderIds -> Nat]
                 /\ total_spend_nc' \in [Sessions -> Nat]
                 /\ global_xp' \in [Users -> Nat]
                 /\ local_xp' \in [Users \X Venues -> Nat]
<1>. USE DEF xp_vars
<1>2. ASSUME NEW o \in OrderIds, NEW body \in OrderBodies, CreateOrder(o, body) PROVE G
  <2>1. CASE ~Exists(o)
    <3>1. body \in [venue_id : Venues, guest_session_id : Sessions,
                    staff_user_id : Staff, total_nc : Nat \ {0}]
      BY OrdersAssumption
    <3>0. PICK row :
             /\ orders' = [orders EXCEPT ![o] = row]
             /\ row = [venue_id |-> body.venue_id,
                       guest_session_id |-> body.guest_session_id,
                       staff_user_id |-> body.staff_user_id,
                       total_nc |-> body.total_nc,
                       status |-> "pending", recent |-> TRUE,
                       guest_user_id |-> NoUser, ledger_event_id |-> NoEvent,
                       item_batches |-> 1]
      BY <1>2, <2>1 DEF CreateOrder
    <3>2. row \in OrderRow
      BY <3>1, <3>0 DEF OrderRow
    <3>3. orders' \in [OrderIds -> OrderRow \cup {NoOrder}]
      BY <1>0, <3>0, <3>2
    <3>. QED  BY <1>0, <1>2, <3>3 DEF CreateOrder
  <2>2. CASE Exists(o)
    <3>1. orders[o] \in OrderRow
      BY <1>0, <2>2 DEF Exists
    <3>. QED  BY <1>0, <1>2, <2>2, <3>1 DEF CreateOrder, OrderRow
  <2>. QED  BY <2>1, <2>2
<1>3. ASSUME NEW o \in OrderIds, WindowCloses(o) PROVE G
  <2>1. orders[o] \in OrderRow
    BY <1>0, <1>3 DEF WindowCloses, Exists
  <2>. QED  BY <1>0, <1>3, <2>1 DEF WindowCloses, OrderRow
<1>4. ASSUME NEW r \in Slots, NEW o \in OrderIds, NEW u \in Users \cup {NoUser},
             StartFinalize(r, o, u)
      PROVE  G
  BY <1>0, <1>4 DEF StartFinalize, Slot
<1>5. ASSUME NEW r \in Slots, CheckBalance(r) PROVE G
  BY <1>0, <1>5, GotoType, ReplyType DEF CheckBalance
<1>6. ASSUME NEW r \in Slots, WriteDebit(r) PROVE G
  BY <1>0, <1>6, GotoType, ReplyType DEF WriteDebit
<1>7. ASSUME NEW r \in Slots, FinalizeOrder(r) PROVE G
  <2>1. slots[r].order \in OrderIds /\ orders[slots[r].order] \in OrderRow
    BY <1>0, <1>7 DEF FinalizeOrder, HandlersKnow, Knows, Exists
  <2>2. slots' \in [Slots -> Slot]
    BY <1>0, <1>7, GotoType, ReplyType DEF FinalizeOrder
  <2>3. PICK row :
           row = [orders[slots[r].order] EXCEPT !.status = "paid",
                      !.ledger_event_id = OrderPaidKey(slots[r].order),
                      !.guest_user_id = slots[r].guest]
    OBVIOUS
  <2>4. slots[r].guest \in Users \cup {NoUser}
    BY <1>0 DEF Slot
  <2>5. row \in OrderRow
    BY <2>1, <2>3, <2>4 DEF OrderRow
  <2>6. orders' = orders \/ orders' = [orders EXCEPT ![slots[r].order] = row]
    BY <1>0, <1>7, <2>1, <2>3 DEF FinalizeOrder, StorePaid
  <2>7. orders' \in [OrderIds -> OrderRow \cup {NoOrder}]
    BY <1>0, <2>1, <2>5, <2>6
  <2>. QED  BY <1>0, <1>7, <2>2, <2>7 DEF FinalizeOrder
<1>8. ASSUME NEW r \in Slots, SpawnEffects(r) PROVE G
  <2>0. \A k \in TaskKinds : <<k, slots[r].order>> \in TaskKinds \X OrderIds
    BY <1>8 DEF SpawnEffects, HandlersKnow, Knows
  <2>1. tasks' \in [TaskKinds \X OrderIds -> Nat]
    BY <1>0, <1>8, <2>0 DEF SpawnEffects, TaskKinds
  <2>. QED  BY <1>0, <1>8, <2>1, ReplyType DEF SpawnEffects
<1>9. ASSUME NEW r \in Slots, NEW o \in OrderIds, NEW c \in Staff, StartVoid(r, o, c)
      PROVE  G
  <2>1. orders[o] \in OrderRow
    BY <1>0, <1>9 DEF StartVoid, Exists
  <2>. QED  BY <1>0, <1>9, <2>1 DEF StartVoid, Slot, OrderRow, Status
<1>10. ASSUME NEW r \in Slots, VoidOrder(r) PROVE G
  <2>1. slots[r].order \in OrderIds /\ orders[slots[r].order] \in OrderRow
    BY <1>0, <1>10 DEF VoidOrder, HandlersKnow, Knows, Exists
  <2>2. slots' \in [Slots -> Slot]
    BY <1>0, <1>10, GotoType, ReplyType DEF VoidOrder
  <2>3. [orders[slots[r].order] EXCEPT !.status = "voided"] \in OrderRow
    BY <2>1 DEF OrderRow
  <2>4. \/ orders' = orders
        \/ orders' = [orders EXCEPT ![slots[r].order] =
                                  [orders[slots[r].order] EXCEPT !.status = "voided"]]
    BY <1>0, <1>10, <2>1 DEF VoidOrder
  <2>5. orders' \in [OrderIds -> OrderRow \cup {NoOrder}]
    BY <1>0, <2>1, <2>3, <2>4
  <2>. QED  BY <1>0, <1>10, <2>2, <2>5 DEF VoidOrder
<1>11. ASSUME NEW r \in Slots, SpawnRefund(r) PROVE G
  <2>0. \A k \in TaskKinds : <<k, slots[r].order>> \in TaskKinds \X OrderIds
    BY <1>11 DEF SpawnRefund, HandlersKnow, Knows
  <2>1. tasks' \in [TaskKinds \X OrderIds -> Nat]
    BY <1>0, <1>11, <2>0 DEF SpawnRefund, TaskKinds
  <2>. QED  BY <1>0, <1>11, <2>1, ReplyType DEF SpawnRefund
<1>12. ASSUME NEW kind \in TaskKinds, NEW o \in OrderIds, TaskDone(kind, o)
       PROVE  tasks' \in [TaskKinds \X OrderIds -> Nat]
  BY <1>0, <1>12 DEF TaskDone
<1>13. ASSUME NEW kind \in TaskKinds, NEW o \in OrderIds, TaskDone(kind, o)
       PROVE  orders[o] \in OrderRow
  BY <1>0, <1>13 DEF TaskDone, TasksOfPaid, EverPaid, Exists
<1>14. ASSUME NEW o \in OrderIds, IncrementSessionSpend(o) PROVE G
  <2>1. TaskDone("spend", o) /\ "spend" \in TaskKinds
    BY <1>14 DEF IncrementSessionSpend, TaskKinds
  <2>2. total_spend_nc' \in [Sessions -> Nat]
    BY <1>0, <1>13, <1>14, <2>1 DEF IncrementSessionSpend, OrderRow
  <2>3. tasks' \in [TaskKinds \X OrderIds -> Nat]
    BY <1>12, <2>1
  <2>. QED  BY <1>0, <1>14, <2>2, <2>3 DEF IncrementSessionSpend
<1>15. ASSUME NEW o \in OrderIds, AwardXP(o) PROVE G
  <2>1. orders[o] \in OrderRow /\ <<"xp", o>> \in TaskKinds \X OrderIds
    BY <1>0, <1>15 DEF AwardXP, TasksOfPaid, EverPaid, Exists, TaskKinds
  <2>2. global_xp' \in [Users -> Nat]
    <3>1. PICK n \in Nat, u \in Users \cup {NoUser} :
             global_xp' = [global_xp EXCEPT ![u] = @ + n]
      BY <1>15, <2>1 DEF AwardXP, OrderRow
    <3>2. CASE u \in Users
      BY <1>0, <3>1, <3>2
    <3>3. CASE u \notin Users
      <4>1. global_xp' = global_xp
        BY <1>0, <3>1, <3>3, Zenon
      <4>. QED  BY <1>0, <4>1
    <3>. QED  BY <3>2, <3>3
  <2>3. tasks' \in [TaskKinds \X OrderIds -> Nat]
    <3>1. PICK x, y : x = <<"xp", o>> /\ y = <<"local_xp", o>>
      OBVIOUS
    <3>3. x \in TaskKinds \X OrderIds /\ y \in TaskKinds \X OrderIds /\ x # y
      BY <3>1 DEF TaskKinds
    <3>2. tasks[x] > 0 /\ tasks' = [tasks EXCEPT ![x] = @ - 1, ![y] = @ + 1]
      BY <1>15, <3>1 DEF AwardXP
    <3>. QED  BY <1>0, <3>2, <3>3
  <2>. QED  BY <1>0, <1>15, <2>2, <2>3 DEF AwardXP
<1>20. ASSUME NEW o \in OrderIds, AddLocalXP(o) PROVE G
  <2>1. TaskDone("local_xp", o) /\ "local_xp" \in TaskKinds
    BY <1>20 DEF AddLocalXP, TaskKinds
  <2>2. local_xp' \in [Users \X Venues -> Nat]
    <3>1. PICK n \in Nat, u \in Users \cup {NoUser}, v \in Venues :
             local_xp' = [local_xp EXCEPT ![<<u, v>>] = @ + n] \/ local_xp' = local_xp
      BY <1>13, <1>20, <2>1 DEF AddLocalXP, OrderRow
    <3>2. CASE u \in Users
      BY <1>0, <3>1, <3>2
    <3>3. CASE u \notin Users
      <4>1. <<u, v>> \notin Users \X Venues
        BY <3>3
      <4>2. local_xp' = local_xp
        BY <1>0, <3>1, <4>1, Zenon
      <4>. QED  BY <1>0, <4>2
    <3>. QED  BY <3>2, <3>3
  <2>3. tasks' \in [TaskKinds \X OrderIds -> Nat]
    BY <1>12, <2>1
  <2>. QED  BY <1>0, <1>20, <2>2, <2>3 DEF AddLocalXP
<1>16. ASSUME NEW o \in OrderIds, PostRefund(o) PROVE G
  <2>1. TaskDone("refund", o) /\ "refund" \in TaskKinds
    BY <1>16 DEF PostRefund, TaskKinds
  <2>2. tasks' \in [TaskKinds \X OrderIds -> Nat]
    BY <1>12, <2>1
  <2>. QED  BY <1>0, <1>16, <2>2 DEF PostRefund
<1>17. ASSUME NEW r \in Slots, Abandon(r) PROVE G
  BY <1>0, <1>17, ReplyType DEF Abandon
<1>18. ASSUME NEW kind \in TaskKinds, NEW o \in OrderIds, LoseTask(kind, o) PROVE G
  BY <1>0, <1>12, <1>18 DEF LoseTask
<1>19. ASSUME UNCHANGED svc_vars PROVE G
  BY <1>0, <1>19 DEF svc_vars
<1>. QED
  <2>1. CASE Next
    BY <2>1, <1>2, <1>3, <1>4, <1>5, <1>6, <1>7, <1>8, <1>9, <1>10, <1>11, <1>14,
       <1>15, <1>16, <1>17, <1>18, <1>19, <1>20 DEF Next, ConfirmTopup
  <2>2. CASE UNCHANGED vars
    BY <2>2, <1>19 DEF vars
  <2>. QED  BY <2>1, <2>2

-----------------------------------------------------------------------------
\* The effects of an order

\* What a step may do to an effect of an order: nothing but drop it, bring it up
\* when nobody owes it, hand it from a handler to a goroutine, or have the
\* goroutine done.
NoNewHandler(kind, o) ==
    \A q \in Slots : Starts(q, kind, o)' => Starts(q, kind, o)

EffectIdle(kind, o) ==
    Count(kind, o)' = Count(kind, o) /\ NoNewHandler(kind, o)

EffectBegun(kind, o) ==
    /\ ~Owing(kind, o)
    /\ Count(kind, o)' = Count(kind, o)
    /\ \E r \in Slots : \A q \in Slots : Starts(q, kind, o)' => q = r
    /\ kind # "refund" => ~EverPaid(o)

EffectSpawned(kind, o) ==
    \E r \in Slots :
        /\ Starts(r, kind, o)
        /\ \/ Count(kind, o)' = Count(kind, o)
           \/ Count(kind, o)' = Count(kind, o) + 1
        /\ \A q \in Slots : Starts(q, kind, o)' => Starts(q, kind, o) /\ q # r

EffectDone(kind, o) ==
    /\ Count(kind, o) > 0
    /\ Count(kind, o)' = Count(kind, o) - 1
    /\ NoNewHandler(kind, o)

EffectStep(kind, o) ==
    \/ EffectIdle(kind, o)
    \/ EffectBegun(kind, o)
    \/ EffectSpawned(kind, o)
    \/ EffectDone(kind, o)

\* What is counted is a number, and not 0 only when there is a goroutine.
LEMMA CountType ==
    ASSUME OrdersTypeOK, NEW kind \in TaskKinds, NEW o \in OrderIds
    PROVE  /\ Count(kind, o) \in Nat
           /\ Count(kind, o) > 0 => \E k \in TaskKinds : tasks[<<k, o>>] > 0
<1>1. /\ tasks[<<"xp", o>>] \in Nat /\ tasks[<<"local_xp", o>>] \in Nat
      /\ tasks[<<kind, o>>] \in Nat /\ {"xp", "local_xp"} \subseteq TaskKinds
  BY DEF OrdersTypeOK, TaskKinds
<1>. QED  BY <1>1 DEF Count

CountsNatural == \A kind \in TaskKinds, o \in OrderIds : Count(kind, o) \in Nat

\* The same of all effects.
LEMMA CountsAreNatural == OrdersTypeOK => CountsNatural
BY CountType DEF CountsNatural

\* The state of the other handlers when one of them goes on.
LEMMA OtherSlots ==
    ASSUME NEW r \in Slots, slots \in [Slots -> Slot],
           \/ Reply(r) \/ \E pc : Goto(r, pc)
           \/ \E s : slots' = [slots EXCEPT ![r] = s]
    PROVE  \A q \in Slots : q # r => slots'[q] = slots[q]
BY DEF Reply, Goto

\* Whatever the step, an effect of an order moves as EffectStep says.  Finalize
\* brings up the increments, and only of an order that is pending; void brings
\* up the refund, and only of an order that is not void yet.
LEMMA EffectStepped ==
    ASSUME OrdersTypeOK, HandlersKnow, TasksOfPaid, PaidOrderHasDebit, EffectsOnce,
           [Next]_vars, NEW kind \in TaskKinds, NEW p \in OrderIds
    PROVE  EffectStep(kind, p)
<1>0. /\ slots \in [Slots -> Slot]
      /\ tasks \in [TaskKinds \X OrderIds -> Nat]
  BY DEF OrdersTypeOK
<1>1. ASSUME tasks' = tasks, NEW r \in Slots,
             \A q \in Slots : q # r => slots'[q] = slots[q],
             \/ slots'[r].pc \notin {"spawn", "refund"}
             \/ slots'[r] = slots[r]
      PROVE  EffectIdle(kind, p)
  BY <1>1 DEF EffectIdle, NoNewHandler, Count, Starts
<1>2. ASSUME NEW r \in Slots,
             \/ \E o \in OrderIds, u \in Users \cup {NoUser} : StartFinalize(r, o, u)
             \/ \E o \in OrderIds, c \in Staff : StartVoid(r, o, c)
             \/ CheckBalance(r) \/ WriteDebit(r) \/ Abandon(r)
      PROVE  EffectIdle(kind, p)
  <2>1. tasks' = tasks
    BY <1>2 DEF StartFinalize, StartVoid, CheckBalance, WriteDebit, Abandon
  <2>2. \A q \in Slots : q # r => slots'[q] = slots[q]
    BY <1>0, <1>2 DEF StartFinalize, StartVoid, CheckBalance, WriteDebit, Abandon,
                      Reply, Goto
  <2>3. slots'[r].pc \notin {"spawn", "refund"}
    BY <1>0, <1>2 DEF StartFinalize, StartVoid, CheckBalance, WriteDebit, Abandon,
                      Reply, Goto, Idle, Slot
  <2>. QED  BY <1>1, <2>1, <2>2, <2>3
<1>3. ASSUME NEW r \in Slots, FinalizeOrder(r) PROVE EffectStep(kind, p)
  <2>1. tasks' = tasks /\ \A q \in Slots : q # r => slots'[q] = slots[q]
    BY <1>0, <1>3 DEF FinalizeOrder, Reply, Goto
  <2>2. CASE slots'[r].pc \notin {"spawn", "refund"}
    BY <1>1, <2>1, <2>2 DEF EffectStep
  <2>3. CASE slots'[r].pc \in {"spawn", "refund"}
    <3>1. /\ slots[r].pc = "store" /\ slots'[r].pc = "spawn"
          /\ slots'[r].order = slots[r].order
          /\ Status(slots[r].order) = "pending"
      BY <1>0, <1>3, <2>3 DEF FinalizeOrder, Reply, Goto, Idle, Slot
    <3>2. ~EverPaid(slots[r].order)
      BY <1>0, <3>1 DEF HandlersKnow, Knows, PaidOrderHasDebit
    <3>3. CASE kind # "refund" /\ slots[r].order = p
      <4>1. Count(kind, p) = 0
        <5>1. \A k \in TaskKinds : ~(tasks[<<k, p>>] > 0)
          BY <3>2, <3>3 DEF TasksOfPaid
        <5>2. Count(kind, p) \in Nat /\ ~(Count(kind, p) > 0)
          BY <5>1, CountType
        <5>. QED  BY <5>2
      <4>2. \A q \in Slots : ~Starts(q, kind, p)
        BY <3>2, <3>3 DEF HandlersKnow, Knows, Starts
      <4>3. \A q \in Slots : Starts(q, kind, p)' => q = r
        BY <2>1, <4>2 DEF Starts
      <4>4. EffectBegun(kind, p)
        BY <2>1, <3>2, <3>3, <4>1, <4>2, <4>3 DEF EffectBegun, Owing, Count
      <4>. QED  BY <4>4 DEF EffectStep
    <3>4. CASE ~(kind # "refund" /\ slots[r].order = p)
      <4>1. ~Starts(r, kind, p)'
        BY <3>1, <3>4 DEF Starts
      <4>2. EffectIdle(kind, p)
        BY <2>1, <4>1 DEF EffectIdle, NoNewHandler, Count, Starts
      <4>. QED  BY <4>2 DEF EffectStep
    <3>. QED  BY <3>3, <3>4
  <2>. QED  BY <2>2, <2>3
<1>4. ASSUME NEW r \in Slots, VoidOrder(r) PROVE EffectStep(kind, p)
  <2>1. tasks' = tasks /\ \A q \in Slots : q # r => slots'[q] = slots[q]
    BY <1>0, <1>4 DEF VoidOrder, Reply, Goto
  <2>2. CASE slots'[r].pc \notin {"spawn", "refund"}
    BY <1>1, <2>1, <2>2 DEF EffectStep
  <2>3. CASE slots'[r].pc \in {"spawn", "refund"}
    <3>1. /\ slots[r].pc = "void" /\ slots'[r].pc = "refund"
          /\ slots'[r].order = slots[r].order
          /\ Status(slots[r].order) \in {"pending", "paid"}
      BY <1>0, <1>4, <2>3 DEF VoidOrder, Reply, Goto, Idle, Slot
    <3>2. CASE kind = "refund" /\ slots[r].order = p
      <4>1. Count(kind, p) = 0
        <5>1. Status(p) # "voided"
          BY <3>1, <3>2
        <5>2. ~(Count(kind, p) > 0)
          BY <3>2, <5>1 DEF EffectsOnce
        <5>3. Count(kind, p) \in Nat
          BY CountType
        <5>. QED  BY <5>2, <5>3
      <4>2. \A q \in Slots : ~Starts(q, kind, p)
        BY <3>1, <3>2 DEF HandlersKnow, Knows, Starts
      <4>3. \A q \in Slots : Starts(q, kind, p)' => q = r
        BY <2>1, <4>2 DEF Starts
      <4>4. EffectBegun(kind, p)
        BY <2>1, <3>2, <4>1, <4>2, <4>3 DEF EffectBegun, Owing, Count
      <4>. QED  BY <4>4 DEF EffectStep
    <3>3. CASE ~(kind = "refund" /\ slots[r].order = p)
      <4>1. ~Starts(r, kind, p)'
        BY <3>1, <3>3 DEF Starts
      <4>2. EffectIdle(kind, p)
        BY <2>1, <4>1 DEF EffectIdle, NoNewHandler, Count, Starts
      <4>. QED  BY <4>2 DEF EffectStep
    <3>. QED  BY <3>2, <3>3
  <2>. QED  BY <2>2, <2>3
<1>5. ASSUME NEW r \in Slots, SpawnEffects(r) \/ SpawnRefund(r)
      PROVE  EffectStep(kind, p)
  <2>1. /\ \A q \in Slots : q # r => slots'[q] = slots[q]
        /\ slots'[r].pc = "idle"
    BY <1>0, <1>5 DEF SpawnEffects, SpawnRefund, Reply, Idle
  <2>2. \A q \in Slots : Starts(q, kind, p)' => Starts(q, kind, p) /\ q # r
    BY <2>1 DEF Starts
  <2>3. CASE Starts(r, kind, p)
    <3>1. \/ Count(kind, p)' = Count(kind, p)
          \/ Count(kind, p)' = Count(kind, p) + 1
      BY <1>0, <1>5, <2>3 DEF SpawnEffects, SpawnRefund, Starts, Count, TaskKinds
    <3>. QED  BY <2>2, <2>3, <3>1 DEF EffectStep, EffectSpawned
  <2>4. CASE ~Starts(r, kind, p)
    <3>1. Count(kind, p)' = Count(kind, p)
      BY <1>0, <1>5, <2>4 DEF SpawnEffects, SpawnRefund, Starts, Count, TaskKinds
    <3>. QED  BY <2>2, <3>1 DEF EffectStep, EffectIdle, NoNewHandler
  <2>. QED  BY <2>3, <2>4
<1>6. ASSUME NEW k \in TaskKinds, NEW o \in OrderIds, TaskDone(k, o), slots' = slots
      PROVE  EffectStep(kind, p)
  <2>1. NoNewHandler(kind, p)
    BY <1>6 DEF NoNewHandler, Starts
  <2>2. /\ \A x \in TaskKinds \X OrderIds : tasks[x] \in Nat
        /\ tasks[<<k, o>>] > 0 /\ tasks'[<<k, o>>] = tasks[<<k, o>>] - 1
        /\ \A x \in TaskKinds \X OrderIds : x # <<k, o>> => tasks'[x] = tasks[x]
    BY <1>0, <1>6 DEF TaskDone
  <2>3. CASE o = p /\ (k = kind \/ (k = "xp" /\ kind = "local_xp"))
    <3>1. Count(kind, p) > 0 /\ Count(kind, p)' = Count(kind, p) - 1
      BY <2>2, <2>3 DEF Count, TaskKinds
    <3>. QED  BY <2>1, <3>1 DEF EffectStep, EffectDone
  <2>4. CASE ~(o = p /\ (k = kind \/ (k = "xp" /\ kind = "local_xp")))
    <3>1. Count(kind, p)' = Count(kind, p)
      BY <2>2, <2>4 DEF Count, TaskKinds
    <3>. QED  BY <2>1, <3>1 DEF EffectStep, EffectIdle
  <2>. QED  BY <2>3, <2>4
<1>7. ASSUME NEW o \in OrderIds, AwardXP(o) PROVE EffectStep(kind, p)
  <2>1. NoNewHandler(kind, p)
    BY <1>7 DEF AwardXP, NoNewHandler, Starts
  <2>2. /\ \A x \in TaskKinds \X OrderIds : tasks[x] \in Nat
        /\ tasks[<<"xp", o>>] > 0 /\ tasks'[<<"xp", o>>] = tasks[<<"xp", o>>] - 1
        /\ tasks'[<<"local_xp", o>>] = tasks[<<"local_xp", o>>] + 1
        /\ \A x \in TaskKinds \X OrderIds :
              x \notin {<<"xp", o>>, <<"local_xp", o>>} => tasks'[x] = tasks[x]
    BY <1>0, <1>7 DEF AwardXP, TaskKinds
  <2>3. CASE o = p /\ kind = "xp"
    <3>1. Count(kind, p) > 0 /\ Count(kind, p)' = Count(kind, p) - 1
      BY <2>2, <2>3 DEF Count, TaskKinds
    <3>. QED  BY <2>1, <3>1 DEF EffectStep, EffectDone
  <2>4. CASE ~(o = p /\ kind = "xp")
    <3>1. Count(kind, p)' = Count(kind, p)
      BY <2>2, <2>4 DEF Count, TaskKinds
    <3>. QED  BY <2>1, <3>1 DEF EffectStep, EffectIdle
  <2>. QED  BY <2>3, <2>4
<1>8. ASSUME UNCHANGED <<slots, tasks>> PROVE EffectStep(kind, p)
  BY <1>8 DEF EffectStep, EffectIdle, NoNewHandler, Starts, Count
<1>. QED
  BY <1>2, <1>3, <1>4, <1>5, <1>6, <1>7, <1>8
     DEF EffectStep, Next, vars, svc_vars, xp_vars, CreateOrder, WindowCloses,
         IncrementSessionSpend, AwardXP, AddLocalXP, PostRefund, LoseTask, ConfirmTopup, TaskKinds

\* No effect is ever owed twice: the UPDATEs of finalize and void pass once.
LEMMA EffectsOnceKept ==
    ASSUME OrdersTypeOK, OrdersTypeOK', HandlersKnow, HandlersKnow', TasksOfPaid,
           PaidOrderHasDebit, EffectsOnce, [Next]_vars, RowsKept
    PROVE  EffectsOnce'
<1>. SUFFICES ASSUME NEW kind \in TaskKinds, NEW p \in OrderIds
              PROVE  /\ Count(kind, p)' <= 1
                     /\ \A r \in Slots : Starts(r, kind, p)' =>
                           /\ Count(kind, p)' = 0
                           /\ \A q \in Slots : Starts(q, kind, p)' => q = r
                     /\ kind = "refund" /\ Count(kind, p)' > 0 => Status(p)' = "voided"
  BY DEF EffectsOnce
<1>0. /\ Count(kind, p) \in Nat /\ Count(kind, p)' \in Nat
      /\ Count(kind, p) <= 1
      /\ \A r \in Slots : Starts(r, kind, p) =>
            /\ Count(kind, p) = 0
            /\ \A q \in Slots : Starts(q, kind, p) => q = r
      /\ kind = "refund" /\ Count(kind, p) > 0 => Status(p) = "voided"
  <2>1. (OrdersTypeOK => CountsNatural)'
    BY CountsAreNatural, PTL
  <2>. QED  BY <2>1, CountType DEF EffectsOnce, CountsNatural
<1>1. /\ Count(kind, p)' <= 1
      /\ \A r \in Slots : Starts(r, kind, p)' =>
            /\ Count(kind, p)' = 0
            /\ \A q \in Slots : Starts(q, kind, p)' => q = r
  <2>1. EffectStep(kind, p)
    BY EffectStepped
  <2>2. CASE EffectIdle(kind, p)
    BY <1>0, <2>2 DEF EffectIdle, NoNewHandler
  <2>3. CASE EffectBegun(kind, p)
    BY <1>0, <2>3 DEF EffectBegun, Owing
  <2>4. CASE EffectSpawned(kind, p)
    BY <1>0, <2>4 DEF EffectSpawned
  <2>5. CASE EffectDone(kind, p)
    BY <1>0, <2>5 DEF EffectDone, NoNewHandler
  <2>. QED  BY <2>1, <2>2, <2>3, <2>4, <2>5 DEF EffectStep
<1>2. ASSUME kind = "refund", Count(kind, p)' > 0 PROVE Status(p)' = "voided"
  <2>1. CASE Count(kind, p) > 0
    <3>1. Exists(p) /\ Status(p) = "voided"
      BY <1>0, <1>2, <2>1, CountType DEF TasksOfPaid, EverPaid
    <3>. QED  BY <3>1 DEF RowsKept
  <2>2. CASE ~(Count(kind, p) > 0)
    <3>1. PICK r \in Slots : Starts(r, kind, p)
      BY <1>0, <1>2, <2>2, EffectStepped
         DEF EffectStep, EffectIdle, EffectBegun, EffectSpawned, EffectDone
    <3>2. Exists(p) /\ Status(p) = "voided"
      BY <1>2, <3>1 DEF Starts, HandlersKnow, Knows
    <3>. QED  BY <3>2 DEF RowsKept
  <2>. QED  BY <2>1, <2>2
<1>. QED  BY <1>1, <1>2

-----------------------------------------------------------------------------
\* The counters of the other services

\* A step creates one row at most.
LEMMA RowsFiniteKept ==
    ASSUME OrdersTypeOK, HandlersKnow, PaidOrderHasDebit, RowsFinite, [Next]_vars
    PROVE  RowsFinite'
<1>. DEFINE Rows == {o \in OrderIds : Exists(o)}
<1>0. orders \in [OrderIds -> OrderRow \cup {NoOrder}]
  BY DEF OrdersTypeOK
<1>1. ASSUME NEW o \in OrderIds, \A p \in OrderIds \ {o} : orders'[p] = orders[p]
      PROVE  RowsFinite'
  <2>1. IsFiniteSet(Rows \cup {o})
    BY FS_AddElement DEF RowsFinite
  <2>2. Rows' \subseteq Rows \cup {o}
    BY <1>1 DEF Exists
  <2>. HIDE DEF Rows
  <2>3. IsFiniteSet(Rows')
    BY <2>1, <2>2, FS_Subset
  <2>. QED  BY <2>3 DEF Rows, RowsFinite
<1>2. ASSUME orders' = orders PROVE RowsFinite'
  BY <1>2 DEF RowsFinite, Exists
<1>3. ASSUME NEW o \in OrderIds,
             \/ \E body \in OrderBodies : CreateOrder(o, body)
             \/ WindowCloses(o)
      PROVE  RowsFinite'
  <2>1. \A p \in OrderIds \ {o} : orders'[p] = orders[p]
    BY <1>0, <1>3 DEF CreateOrder, WindowCloses
  <2>. QED  BY <1>1, <2>1
<1>4. ASSUME NEW r \in Slots, FinalizeOrder(r) \/ VoidOrder(r) PROVE RowsFinite'
  <2>1. slots[r].order \in OrderIds
    BY <1>4 DEF FinalizeOrder, VoidOrder, HandlersKnow, Knows
  <2>2. \A p \in OrderIds \ {slots[r].order} : orders'[p] = orders[p]
    BY <1>0, <1>4 DEF FinalizeOrder, VoidOrder, StorePaid
  <2>. QED  BY <1>1, <2>1, <2>2
<1>. QED
  BY <1>2, <1>3, <1>4
     DEF Next, vars, svc_vars, xp_vars, StartFinalize, CheckBalance, WriteDebit, SpawnEffects,
         StartVoid, SpawnRefund, IncrementSessionSpend, AwardXP, AddLocalXP, PostRefund, Abandon,
         LoseTask, ConfirmTopup

\* What orders of O are worth to a counter is a natural number.
LEMMA CountedType ==
    ASSUME OrdersTypeOK, RowsFinite, NEW kind, NEW O,
           O \subseteq {o \in OrderIds : Exists(o)}
    PROVE  /\ IsFiniteSet(O)
           /\ \A o \in O : orders[o].total_nc \in Nat
           /\ Counted(kind, O) \in Nat
<1>1. IsFiniteSet(O)
  BY FS_Subset DEF RowsFinite
<1>2. \A o \in O : orders[o].total_nc \in Nat
  BY DEF OrdersTypeOK, Exists, OrderRow
<1>. DEFINE worth == [o \in O |-> IF Owing(kind, o) THEN 0 ELSE orders[o].total_nc]
<1>3. \A o \in O : worth[o] \in Nat
  BY <1>2
<1>4. SumFunctionOnSet(worth, O) \in Nat
  <2>. HIDE DEF worth
  <2>. QED  BY <1>1, <1>3, SumNat
<1>. QED  BY <1>1, <1>2, <1>4 DEF Counted

\* What the counters are bounded by is one.
CountersNatural ==
    /\ \A s \in Sessions : Counted("spend", PaidIn(s)) \in Nat
    /\ \A u \in Users : Counted("xp", PaidBy(u)) \in Nat
    /\ \A u \in Users, v \in Venues : Counted("local_xp", PaidByAt(u, v)) \in Nat

\* Those of a session and those of a guest, in particular.
LEMMA CountersAreNatural == OrdersTypeOK /\ RowsFinite => CountersNatural
<1>1. \A s : PaidIn(s) \subseteq {o \in OrderIds : Exists(o)}
  BY DEF PaidIn, EverPaid
<1>2. \A u : PaidBy(u) \subseteq {o \in OrderIds : Exists(o)}
  BY DEF PaidBy, EverPaid
<1>3. \A u, v : PaidByAt(u, v) \subseteq {o \in OrderIds : Exists(o)}
  BY <1>2 DEF PaidByAt
<1>. QED  BY <1>1, <1>2, <1>3, CountedType DEF CountersNatural

\* When the orders of O stay within P, they are worth no less after a step than
\* before it; and when one of them is no longer owed, more by its total.
LEMMA CountedGrows ==
    ASSUME OrdersTypeOK, OrdersTypeOK', RowsFinite, RowsFinite', RowsKept,
           NEW kind, NEW O, NEW P, O \subseteq P,
           O \subseteq {o \in OrderIds : Exists(o)},
           P \subseteq {o \in OrderIds : Exists(o)'},
           \A o \in O : Owing(kind, o)' => Owing(kind, o)
    PROVE  LET before == [o \in O |-> IF Owing(kind, o) THEN 0 ELSE orders[o].total_nc]
               after  == [o \in P |-> IF Owing(kind, o)' THEN 0 ELSE orders'[o].total_nc]
           IN  /\ SumFunctionOnSet(before, O) <= SumFunctionOnSet(after, P)
               /\ \A p \in O : Owing(kind, p) /\ ~Owing(kind, p)' =>
                      SumFunctionOnSet(before, O) + orders[p].total_nc
                          <= SumFunctionOnSet(after, P)
<1>. DEFINE before == [o \in O |-> IF Owing(kind, o) THEN 0 ELSE orders[o].total_nc]
            after  == [o \in P |-> IF Owing(kind, o)' THEN 0 ELSE orders'[o].total_nc]
<1>1. IsFiniteSet(O) /\ IsFiniteSet(P)
  BY FS_Subset DEF RowsFinite
<1>2. /\ \A o \in O : orders[o].total_nc \in Nat /\ orders'[o].total_nc = orders[o].total_nc
      /\ \A o \in P : orders'[o].total_nc \in Nat
  BY DEF OrdersTypeOK, Exists, OrderRow, RowsKept
<1>3. /\ \A o \in O : before[o] \in Int /\ after[o] \in Int /\ before[o] <= after[o]
      /\ \A o \in P : after[o] \in Int /\ after[o] >= 0
  BY <1>2
<1>4. ASSUME NEW p \in O, Owing(kind, p), ~Owing(kind, p)'
      PROVE  before[p] = 0 /\ after[p] = orders[p].total_nc
  BY <1>2, <1>4
<1>5. \A p \in O : orders[p].total_nc \in Int
  BY <1>2
<1>. HIDE DEF before, after
<1>6. SumFunctionOnSet(before, O) <= SumFunctionOnSet(after, P)
  BY <1>1, <1>3, SumMonotone
<1>7. ASSUME NEW p \in O, Owing(kind, p), ~Owing(kind, p)'
      PROVE  SumFunctionOnSet(before, O) + orders[p].total_nc
                 <= SumFunctionOnSet(after, P)
  <2>1. SumFunctionOnSet(before, O) = before[p] + SumFunctionOnSet(before, O \ {p})
    BY <1>1, <1>3, SumElement
  <2>2. SumFunctionOnSet(after, P) = after[p] + SumFunctionOnSet(after, P \ {p})
    BY <1>1, <1>3, SumElement
  <2>3. /\ IsFiniteSet(O \ {p}) /\ IsFiniteSet(P \ {p})
        /\ O \ {p} \in SUBSET (P \ {p})
    BY <1>1, FS_Subset
  <2>4. SumFunctionOnSet(before, O \ {p}) <= SumFunctionOnSet(after, P \ {p})
    BY <1>3, <2>3, SumMonotone
  <2>5. /\ SumFunctionOnSet(before, O \ {p}) \in Int
        /\ SumFunctionOnSet(after, P \ {p}) \in Int
    BY <1>3, <2>3, SumType
  <2>. QED  BY <1>4, <1>5, <1>7, <2>1, <2>2, <2>4, <2>5
<1>. QED  BY <1>6, <1>7 DEF before, after

\* An effect of a paid order that is no longer owed is never owed again.
LEMMA OwedOnceOnly ==
    ASSUME OrdersTypeOK, HandlersKnow, TasksOfPaid, PaidOrderHasDebit, EffectsOnce,
           [Next]_vars, NEW kind \in {"spend", "xp", "local_xp"}, NEW o \in OrderIds, EverPaid(o)
    PROVE  Owing(kind, o)' => Owing(kind, o)
<1>1. kind \in TaskKinds /\ kind # "refund"
  BY DEF TaskKinds
<1>2. EffectStep(kind, o)
  BY <1>1, EffectStepped
<1>. QED  BY <1>1, <1>2 DEF EffectStep, EffectIdle, EffectBegun, EffectSpawned, EffectDone,
                            NoNewHandler, Owing

\* The goroutine that runs is the one that was owed.
LEMMA NotOwedWhenDone ==
    ASSUME OrdersTypeOK, EffectsOnce, NEW kind \in {"spend", "xp", "local_xp"},
           NEW o \in OrderIds, slots' = slots,
           \/ kind # "xp" /\ TaskDone(kind, o)
           \/ kind = "xp" /\ AwardXP(o)
    PROVE  Owing(kind, o) /\ ~Owing(kind, o)'
<1>1. kind \in TaskKinds
  BY DEF TaskKinds
<1>2. Count(kind, o) = 1 /\ Count(kind, o)' = 0
  <2>1. Count(kind, o) <= 1
    BY <1>1 DEF EffectsOnce
  <2>2. /\ tasks \in [TaskKinds \X OrderIds -> Nat]
        /\ \A k \in TaskKinds : <<k, o>> \in TaskKinds \X OrderIds /\ tasks[<<k, o>>] \in Nat
    BY DEF OrdersTypeOK
  <2>3. CASE kind # "xp" /\ TaskDone(kind, o)
    <3>1. tasks[<<kind, o>>] > 0 /\ tasks' = [tasks EXCEPT ![<<kind, o>>] = @ - 1]
      BY <2>3 DEF TaskDone
    <3>2. CASE kind = "spend"
      BY <1>1, <2>1, <2>2, <3>1, <3>2 DEF Count
    <3>3. CASE kind = "local_xp"
      <4>1. tasks[<<"xp", o>>] \in Nat /\ <<"xp", o>> # <<kind, o>>
        BY <2>2, <3>3 DEF TaskKinds
      <4>2. tasks'[<<"xp", o>>] = tasks[<<"xp", o>>]
        BY <2>2, <3>1, <4>1 DEF TaskKinds
      <4>3. tasks'[<<kind, o>>] = tasks[<<kind, o>>] - 1 /\ tasks[<<kind, o>>] \in Nat
        BY <1>1, <2>2, <3>1
      <4>. QED  BY <2>1, <3>1, <3>3, <4>1, <4>2, <4>3 DEF Count
    <3>. QED  BY <2>3, <3>2, <3>3
  <2>4. CASE kind = "xp" /\ AwardXP(o)
    BY <1>1, <2>1, <2>2, <2>4 DEF AwardXP, Count, TaskKinds
  <2>. QED  BY <2>3, <2>4
<1>3. \A r \in Slots : ~Starts(r, kind, o)'
  BY <1>1, <1>2 DEF EffectsOnce, Starts
<1>. QED  BY <1>2, <1>3 DEF Owing

\* No counter gets ahead of the orders whose increment has been made.
LEMMA CountersCoveredKept ==
    ASSUME IInv, OrdersTypeOK', RowsFinite', RowsKept, [Next]_vars
    PROVE  CountersCovered'
<1>0. /\ OrdersTypeOK /\ RowsFinite /\ HandlersKnow /\ TasksOfPaid
      /\ PaidOrderHasDebit /\ EffectsOnce /\ CountersCovered
      /\ total_spend_nc \in [Sessions -> Nat] /\ global_xp \in [Users -> Nat]
      /\ local_xp \in [Users \X Venues -> Nat]
  BY DEF IInv, OrdersTypeOK
<1>1. ASSUME NEW kind \in {"spend", "xp", "local_xp"}, NEW o \in OrderIds, EverPaid(o)
      PROVE  Owing(kind, o)' => Owing(kind, o)
  BY <1>0, <1>1, OwedOnceOnly
<1>2. ASSUME NEW s \in Sessions
      PROVE  (total_spend_nc[s] <= Counted("spend", PaidIn(s)))'
  <2>1. PICK O : O = PaidIn(s)
    OBVIOUS
  <2>2. PICK P : P = PaidIn(s)'
    OBVIOUS
  <2>3. /\ O \subseteq P
        /\ O \subseteq {o \in OrderIds : Exists(o)}
        /\ P \subseteq {o \in OrderIds : Exists(o)'}
        /\ \A o \in O : EverPaid(o) /\ o \in OrderIds
    BY <2>1, <2>2 DEF PaidIn, EverPaid, RowsKept
  <2>4. /\ Counted("spend", O) <= (Counted("spend", PaidIn(s)))'
        /\ \A p \in O : Owing("spend", p) /\ ~Owing("spend", p)' =>
              Counted("spend", O) + orders[p].total_nc <= (Counted("spend", PaidIn(s)))'
    BY <1>0, <1>1, <2>2, <2>3, CountedGrows DEF Counted
  <2>5. /\ Counted("spend", O) \in Nat /\ (Counted("spend", PaidIn(s)))' \in Nat
        /\ \A p \in O : orders[p].total_nc \in Nat
    <3>1. (OrdersTypeOK /\ RowsFinite => CountersNatural)'
      BY CountersAreNatural, PTL
    <3>. QED  BY <1>0, <2>3, <3>1, CountedType DEF CountersNatural
  <2>6. total_spend_nc[s] <= Counted("spend", O) /\ total_spend_nc[s] \in Nat
    BY <1>0, <2>1 DEF CountersCovered
  <2>7. CASE total_spend_nc'[s] = total_spend_nc[s]
    BY <2>4, <2>5, <2>6, <2>7
  <2>8. ASSUME NEW o \in OrderIds, IncrementSessionSpend(o)
        PROVE  (total_spend_nc[s] <= Counted("spend", PaidIn(s)))'
    <3>1. EverPaid(o)
      BY <1>0, <2>8 DEF IncrementSessionSpend, TaskDone, TasksOfPaid, TaskKinds
    <3>2. CASE orders[o].guest_session_id = s
      <4>1. o \in O
        BY <2>1, <3>1, <3>2 DEF PaidIn
      <4>2. total_spend_nc'[s] = total_spend_nc[s] + orders[o].total_nc
        BY <1>0, <2>8, <3>2 DEF IncrementSessionSpend
      <4>3. Owing("spend", o) /\ ~Owing("spend", o)'
        BY <1>0, <2>8, NotOwedWhenDone DEF IncrementSessionSpend
      <4>. QED  BY <2>4, <2>5, <2>6, <4>1, <4>2, <4>3
    <3>3. CASE orders[o].guest_session_id # s
      BY <1>0, <2>7, <2>8, <3>3 DEF IncrementSessionSpend
    <3>. QED  BY <3>2, <3>3
  <2>. QED
    BY <2>7, <2>8
       DEF Next, vars, svc_vars, xp_vars, CreateOrder, WindowCloses, StartFinalize, CheckBalance,
           WriteDebit, FinalizeOrder, SpawnEffects, StartVoid, VoidOrder, SpawnRefund,
           AwardXP, AddLocalXP, PostRefund, Abandon, LoseTask, ConfirmTopup
<1>3. ASSUME NEW u \in Users
      PROVE  (global_xp[u] <= Counted("xp", PaidBy(u)))'
  <2>1. PICK O : O = PaidBy(u)
    OBVIOUS
  <2>2. PICK P : P = PaidBy(u)'
    OBVIOUS
  <2>3. /\ O \subseteq P
        /\ O \subseteq {o \in OrderIds : Exists(o)}
        /\ P \subseteq {o \in OrderIds : Exists(o)'}
        /\ \A o \in O : EverPaid(o) /\ o \in OrderIds
    BY <2>1, <2>2 DEF PaidBy, EverPaid, RowsKept
  <2>4. /\ Counted("xp", O) <= (Counted("xp", PaidBy(u)))'
        /\ \A p \in O : Owing("xp", p) /\ ~Owing("xp", p)' =>
              Counted("xp", O) + orders[p].total_nc <= (Counted("xp", PaidBy(u)))'
    BY <1>0, <1>1, <2>2, <2>3, CountedGrows DEF Counted
  <2>5. /\ Counted("xp", O) \in Nat /\ (Counted("xp", PaidBy(u)))' \in Nat
        /\ \A p \in O : orders[p].total_nc \in Nat
    <3>1. (OrdersTypeOK /\ RowsFinite => CountersNatural)'
      BY CountersAreNatural, PTL
    <3>. QED  BY <1>0, <2>3, <3>1, CountedType DEF CountersNatural
  <2>6. global_xp[u] <= Counted("xp", O) /\ global_xp[u] \in Nat
    BY <1>0, <2>1 DEF CountersCovered
  <2>7. CASE global_xp'[u] = global_xp[u]
    BY <2>4, <2>5, <2>6, <2>7
  <2>8. ASSUME NEW o \in OrderIds, AwardXP(o)
        PROVE  (global_xp[u] <= Counted("xp", PaidBy(u)))'
    <3>1. EverPaid(o)
      BY <1>0, <2>8 DEF AwardXP, TasksOfPaid, TaskKinds
    <3>2. CASE orders[o].guest_user_id = u
      <4>1. o \in O
        BY <2>1, <3>1, <3>2 DEF PaidBy
      <4>2. global_xp'[u] = global_xp[u] + orders[o].total_nc
        BY <1>0, <2>8, <3>2 DEF AwardXP
      <4>3. Owing("xp", o) /\ ~Owing("xp", o)'
        BY <1>0, <2>8, NotOwedWhenDone DEF AwardXP
      <4>. QED  BY <2>4, <2>5, <2>6, <4>1, <4>2, <4>3
    <3>3. CASE orders[o].guest_user_id # u
      BY <1>0, <2>7, <2>8, <3>3 DEF AwardXP
    <3>. QED  BY <3>2, <3>3
  <2>. QED
    BY <2>7, <2>8
       DEF Next, vars, svc_vars, xp_vars, CreateOrder, WindowCloses, StartFinalize, CheckBalance,
           WriteDebit, FinalizeOrder, SpawnEffects, StartVoid, VoidOrder, SpawnRefund,
           IncrementSessionSpend, AddLocalXP, PostRefund, Abandon, LoseTask, ConfirmTopup
<1>4. ASSUME NEW u \in Users, NEW v \in Venues
      PROVE  (local_xp[<<u, v>>] <= Counted("local_xp", PaidByAt(u, v)))'
  <2>1. PICK O : O = PaidByAt(u, v)
    OBVIOUS
  <2>2. PICK P : P = PaidByAt(u, v)'
    OBVIOUS
  <2>3. /\ O \subseteq P
        /\ O \subseteq {o \in OrderIds : Exists(o)}
        /\ P \subseteq {o \in OrderIds : Exists(o)'}
        /\ \A o \in O : EverPaid(o) /\ o \in OrderIds
    BY <2>1, <2>2 DEF PaidBy, PaidByAt, EverPaid, RowsKept
  <2>4. /\ Counted("local_xp", O) <= (Counted("local_xp", PaidByAt(u, v)))'
        /\ \A p \in O : Owing("local_xp", p) /\ ~Owing("local_xp", p)' =>
              Counted("local_xp", O) + orders[p].total_nc <= (Counted("local_xp", PaidByAt(u, v)))'
    BY <1>0, <1>1, <2>2, <2>3, CountedGrows DEF Counted
  <2>5. /\ Counted("local_xp", O) \in Nat /\ (Counted("local_xp", PaidByAt(u, v)))' \in Nat
        /\ \A p \in O : orders[p].total_nc \in Nat
    <3>1. (OrdersTypeOK /\ RowsFinite => CountersNatural)'
      BY CountersAreNatural, PTL
    <3>. QED  BY <1>0, <2>3, <3>1, CountedType DEF CountersNatural
  <2>6. local_xp[<<u, v>>] <= Counted("local_xp", O) /\ local_xp[<<u, v>>] \in Nat
    BY <1>0, <2>1 DEF CountersCovered
  <2>7. CASE local_xp'[<<u, v>>] = local_xp[<<u, v>>]
    BY <2>4, <2>5, <2>6, <2>7
  <2>8. ASSUME NEW o \in OrderIds, AddLocalXP(o)
        PROVE  (local_xp[<<u, v>>] <= Counted("local_xp", PaidByAt(u, v)))'
    <3>1. EverPaid(o)
      BY <1>0, <2>8 DEF AddLocalXP, TaskDone, TasksOfPaid, TaskKinds
    <3>2. CASE local_xp' # local_xp /\ orders[o].guest_user_id = u /\ orders[o].venue_id = v
      <4>1. o \in O
        BY <2>1, <3>1, <3>2 DEF PaidBy, PaidByAt
      <4>2. local_xp'[<<u, v>>] = local_xp[<<u, v>>] + orders[o].total_nc
        BY <1>0, <2>8, <3>2 DEF AddLocalXP
      <4>3. Owing("local_xp", o) /\ ~Owing("local_xp", o)'
        BY <1>0, <2>8, NotOwedWhenDone DEF AddLocalXP
      <4>. QED  BY <2>4, <2>5, <2>6, <4>1, <4>2, <4>3
    <3>3. CASE ~(local_xp' # local_xp /\ orders[o].guest_user_id = u /\ orders[o].venue_id = v)
      BY <1>0, <2>7, <2>8, <3>3 DEF AddLocalXP
    <3>. QED  BY <3>2, <3>3
  <2>. QED
    BY <2>7, <2>8
       DEF Next, vars, svc_vars, xp_vars, CreateOrder, WindowCloses, StartFinalize, CheckBalance,
           WriteDebit, FinalizeOrder, SpawnEffects, StartVoid, VoidOrder, SpawnRefund,
           IncrementSessionSpend, AwardXP, PostRefund, Abandon, LoseTask, ConfirmTopup
<1>. QED  BY <1>2, <1>3, <1>4 DEF CountersCovered

-----------------------------------------------------------------------------
\* The balances

\* The total of a new row is one of the totals that were asked for.
LEMMA TotalsGenuineKept ==
    ASSUME OrdersTypeOK, HandlersKnow, TotalsGenuine, RowsKept, [Next]_vars
    PROVE  TotalsGenuine'
<1>0. orders \in [OrderIds -> OrderRow \cup {NoOrder}]
  BY DEF OrdersTypeOK
<1>. SUFFICES ASSUME NEW o \in OrderIds, Exists(o)'
              PROVE  \E b \in OrderBodies : orders'[o].total_nc = b.total_nc
  BY DEF TotalsGenuine
<1>1. CASE Exists(o)
  BY <1>1 DEF TotalsGenuine, RowsKept
<1>2. CASE ~Exists(o)
  <2>1. orders'[o] # orders[o]
    BY <1>2 DEF Exists
  <2>2. ASSUME NEW p \in OrderIds, NEW body \in OrderBodies, CreateOrder(p, body)
        PROVE  orders'[o].total_nc = body.total_nc
    BY <1>0, <1>2, <2>1, <2>2 DEF CreateOrder, Exists
  <2>3. ASSUME NEW p \in OrderIds, WindowCloses(p) PROVE FALSE
    BY <1>0, <1>2, <2>1, <2>3 DEF WindowCloses, Exists
  <2>4. ASSUME NEW r \in Slots, FinalizeOrder(r) \/ VoidOrder(r) PROVE FALSE
    <3>1. Exists(slots[r].order)
      BY <2>4 DEF FinalizeOrder, VoidOrder, HandlersKnow, Knows
    <3>. QED  BY <1>0, <1>2, <2>1, <2>4, <3>1 DEF FinalizeOrder, VoidOrder, StorePaid
  <2>. QED
    BY <2>1, <2>2, <2>3, <2>4
       DEF Next, vars, svc_vars, xp_vars, StartFinalize, CheckBalance, WriteDebit, SpawnEffects,
           StartVoid, SpawnRefund, IncrementSessionSpend, AwardXP, AddLocalXP, PostRefund, Abandon,
           LoseTask, ConfirmTopup
<1>. QED  BY <1>1, <1>2

\* What is on the way to be debited.
LEMMA OnTheWayType ==
    ASSUME OrdersTypeOK, HandlersKnow, NEW u \in Users, NEW v
    PROVE  /\ IsFiniteSet(Debiting(u, v))
           /\ \A r \in Debiting(u, v) :
                 /\ slots[r].order \in OrderIds /\ Exists(slots[r].order)
                 /\ orders[slots[r].order].total_nc \in Nat
           /\ OnTheWay(u, v) \in Nat
<1>1. IsFiniteSet(Debiting(u, v))
  BY BoundsAssumption, FS_Subset DEF Debiting
<1>2. \A r \in Debiting(u, v) :
         /\ slots[r].order \in OrderIds /\ Exists(slots[r].order)
         /\ orders[slots[r].order].total_nc \in Nat
  BY DEF Debiting, HandlersKnow, Knows, OrdersTypeOK, OrderRow, Exists
<1>. DEFINE f == [r \in Debiting(u, v) |-> orders[slots[r].order].total_nc]
<1>3. \A r \in Debiting(u, v) : f[r] \in Nat
  BY <1>2
<1>4. OnTheWay(u, v) = SumFunctionOnSet(f, Debiting(u, v))
  BY DEF OnTheWay
<1>. HIDE DEF f
<1>. QED  BY <1>1, <1>2, <1>3, <1>4, SumNat

\* When no handler comes to its debit, no more is on the way, and less by the
\* order of any handler that leaves.
LEMMA DebitsLeave ==
    ASSUME OrdersTypeOK, HandlersKnow, RowsKept, NEW u \in Users, NEW v,
           \A q \in Debiting(u, v)' : slots'[q] = slots[q]
    PROVE  /\ OnTheWay(u, v)' \in Int /\ OnTheWay(u, v)' <= OnTheWay(u, v)
           /\ \A r \in Debiting(u, v) \ Debiting(u, v)' :
                 OnTheWay(u, v)' <= OnTheWay(u, v) - orders[slots[r].order].total_nc
<1>. DEFINE S == Debiting(u, v)'
            T == Debiting(u, v)
            after == [q \in S |-> orders'[slots'[q].order].total_nc]
            before == [q \in T |-> orders[slots[q].order].total_nc]
<1>1. ASSUME NEW q \in S
      PROVE  /\ q \in T
             /\ orders'[slots'[q].order].total_nc = orders[slots[q].order].total_nc
  <2>1. /\ q \in Slots /\ slots'[q] = slots[q]
        /\ slots[q].pc = "debit" /\ slots[q].guest = u
        /\ orders'[slots[q].order].venue_id = v
    BY DEF Debiting
  <2>2. slots[q].order \in OrderIds /\ Exists(slots[q].order)
    BY <2>1 DEF HandlersKnow, Knows
  <2>. QED  BY <2>1, <2>2 DEF RowsKept, Debiting
<1>2. /\ IsFiniteSet(T) /\ \A q \in T : before[q] \in Nat
      /\ OnTheWay(u, v) = SumFunctionOnSet(before, T)
      /\ OnTheWay(u, v)' = SumFunctionOnSet(after, S)
  BY OnTheWayType DEF OnTheWay
<1>3. S \subseteq T /\ \A q \in S : after[q] = before[q]
  BY <1>1
<1>. HIDE DEF after, before, S, T
<1>4. \A q \in S : after[q] \in Int /\ after[q] <= before[q]
  BY <1>2, <1>3
<1>5. \A q \in T : before[q] \in Int /\ before[q] >= 0
  BY <1>2
<1>6. SumFunctionOnSet(after, S) <= SumFunctionOnSet(before, T)
  BY <1>2, <1>3, <1>4, <1>5, SumMonotone
<1>7. SumFunctionOnSet(after, S) \in Int
  <2>1. IsFiniteSet(S)
    BY <1>2, <1>3, FS_Subset
  <2>. QED  BY <1>4, <2>1, SumType
<1>8. ASSUME NEW r \in T \ S
      PROVE  SumFunctionOnSet(after, S) <= SumFunctionOnSet(before, T) - before[r]
  <2>1. SumFunctionOnSet(before, T) = before[r] + SumFunctionOnSet(before, T \ {r})
    BY <1>2, <1>5, <1>8, SumElement
  <2>2. IsFiniteSet(T \ {r}) /\ S \subseteq T \ {r}
    BY <1>2, <1>3, <1>8, FS_Subset
  <2>3. \A q \in T \ {r} : before[q] \in Int /\ before[q] >= 0
    BY <1>5
  <2>4. SumFunctionOnSet(after, S) <= SumFunctionOnSet(before, T \ {r})
    BY <1>4, <2>2, <2>3, SumMonotone
  <2>5. SumFunctionOnSet(before, T \ {r}) \in Int
    BY <2>2, <2>3, SumType
  <2>. QED  BY <1>5, <1>7, <1>8, <2>1, <2>4, <2>5
<1>. QED  BY <1>2, <1>6, <1>7, <1>8 DEF S, T, before

\* An order that has just passed the check shares the way with at most one order
\* of each other handler.
LEMMA DebitArrives ==
    ASSUME OrdersTypeOK, HandlersKnow, TotalsGenuine, orders' = orders,
           NEW u \in Users, NEW v, NEW r \in Debiting(u, v)',
           \A q \in Debiting(u, v)' : slots'[q].order = slots[q].order /\ slots[q].pc # "idle"
    PROVE  /\ OnTheWay(u, v)' \in Int
           /\ OnTheWay(u, v)' - orders[slots[r].order].total_nc
                  <= (Cardinality(Slots) - 1) * MaxTotal
<1>. DEFINE S == Debiting(u, v)'
            after == [q \in S |-> orders'[slots'[q].order].total_nc]
<1>1. S \subseteq Slots /\ IsFiniteSet(S)
  <2>1. S \subseteq Slots
    BY DEF Debiting
  <2>. QED  BY <2>1, BoundsAssumption, FS_Subset
<1>2. ASSUME NEW q \in S
      PROVE  /\ after[q] = orders[slots[q].order].total_nc
             /\ after[q] \in Nat /\ after[q] <= MaxTotal
  <2>1. after[q] = orders[slots[q].order].total_nc
    OBVIOUS
  <2>2. slots[q].order \in OrderIds /\ Exists(slots[q].order)
    BY <1>1 DEF HandlersKnow, Knows
  <2>3. PICK b \in OrderBodies : orders[slots[q].order].total_nc = b.total_nc
    BY <2>2 DEF TotalsGenuine
  <2>. QED  BY <2>1, <2>3, LargestTotal
<1>3. OnTheWay(u, v)' = SumFunctionOnSet(after, S)
  BY DEF OnTheWay
<1>. HIDE DEF after, S
<1>4. r \in S
  BY DEF S
<1>5. \A q \in S : after[q] \in Int
  BY <1>2
<1>6. SumFunctionOnSet(after, S) = after[r] + SumFunctionOnSet(after, S \ {r})
  BY <1>1, <1>4, <1>5, SumElement
<1>7. PICK n \in Nat : n = Cardinality(Slots) - 1
  BY OthersBound
<1>8. IsFiniteSet(S \ {r}) /\ Cardinality(S \ {r}) <= n
  <2>1. IsFiniteSet(Slots \ {r}) /\ Cardinality(Slots \ {r}) = Cardinality(Slots) - 1
    BY <1>1, <1>4, BoundsAssumption, FS_RemoveElement
  <2>2. S \ {r} \subseteq Slots \ {r}
    BY <1>1
  <2>. QED  BY <1>7, <2>1, <2>2, FS_Subset
<1>9. SumFunctionOnSet(after, S \ {r}) \in Int
  BY <1>5, <1>8, SumType
<1>10. SumFunctionOnSet(after, S \ {r}) <= n * MaxTotal
  <2>1. \A q \in S \ {r} : after[q] \in Int /\ after[q] <= MaxTotal
    BY <1>2
  <2>. QED  BY <1>8, <2>1, LargestTotal, SumBounded
<1>11. after[r] = orders[slots[r].order].total_nc /\ after[r] \in Int
  BY <1>2, <1>4
<1>12. PICK bound \in Nat : bound = (Cardinality(Slots) - 1) * MaxTotal
  BY OthersBound
<1>13. SumFunctionOnSet(after, S \ {r}) <= bound
  BY <1>7, <1>10, <1>12
<1>14. SumFunctionOnSet(after, S) - after[r] <= bound
  BY <1>6, <1>9, <1>11, <1>13
<1>. QED  BY <1>3, <1>6, <1>9, <1>11, <1>12, <1>14

\* A balance is a number, and a new row counts for it once.
LEMMA BalanceStepped ==
    ASSUME OrdersTypeOK, LedgerFinite, NEW row, Appended(row), NEW u \in Users, NEW v \in Venues
    PROVE  /\ VenueBalance(u, v) \in Int
           /\ CountsFor(row, u, v) =>
                VenueBalance(u, v)' = VenueBalance(u, v) + row.amount_nc
           /\ ~CountsFor(row, u, v) => VenueBalance(u, v)' = VenueBalance(u, v)
<1>1. /\ row \notin ledger_events
      /\ ledger_events' = ledger_events \cup {row}
      /\ \A e \in ledger_events \cup {row} : e.amount_nc \in Int
  BY DEF Appended, KeyTaken, LedgerRow, OrdersTypeOK
<1>. QED  BY <1>1, BalanceAppended DEF LedgerFinite

\* A balance is a number.
LEMMA BalanceType ==
    ASSUME OrdersTypeOK, LedgerFinite, NEW u, NEW v
    PROVE  VenueBalance(u, v) \in Int
<1>. DEFINE S == {e \in Spendable(u) : e.venue_id \in {v, NoVenue}}
            f == [e \in S |-> e.amount_nc]
<1>1. S \subseteq ledger_events
  BY DEF Spendable
<1>2. IsFiniteSet(S)
  BY <1>1, FS_Subset DEF LedgerFinite
<1>3. \A e \in S : f[e] \in Int
  BY <1>1 DEF OrdersTypeOK, LedgerRow
<1>4. VenueBalance(u, v) = SumFunctionOnSet(f, S)
  BY DEF VenueBalance, SumOfAmounts
<1>. HIDE DEF f, S
<1>. QED  BY <1>2, <1>3, <1>4, SumType

\* The ledger grows by one row at most.
LEMMA LedgerFiniteKept ==
    ASSUME LedgerFinite, LedgerStep
    PROVE  LedgerFinite'
BY FS_AddElement DEF LedgerFinite, LedgerStep, Appended

\* No handler but one that passes the check comes to its debit of a guest.
LEMMA ComesToDebit ==
    ASSUME OrdersTypeOK, [Next]_vars, NEW q \in Slots,
           slots'[q] # slots[q], slots'[q].pc = "debit", slots'[q].guest # NoUser
    PROVE  /\ CheckBalance(q)
           /\ SufficientBalance(slots[q].order, slots[q].guest)
           /\ slots'[q].order = slots[q].order /\ slots'[q].guest = slots[q].guest
<1>0. slots \in [Slots -> Slot]
  BY DEF OrdersTypeOK
<1>1. \/ \E o \in OrderIds, u \in Users \cup {NoUser} : StartFinalize(q, o, u)
      \/ \E o \in OrderIds, c \in Staff : StartVoid(q, o, c)
      \/ CheckBalance(q) \/ WriteDebit(q) \/ FinalizeOrder(q) \/ SpawnEffects(q)
      \/ VoidOrder(q) \/ SpawnRefund(q) \/ Abandon(q)
  <2>1. ASSUME NEW r \in Slots, r # q,
               \/ \E o \in OrderIds, u \in Users \cup {NoUser} : StartFinalize(r, o, u)
               \/ \E o \in OrderIds, c \in Staff : StartVoid(r, o, c)
               \/ CheckBalance(r) \/ WriteDebit(r) \/ FinalizeOrder(r) \/ SpawnEffects(r)
               \/ VoidOrder(r) \/ SpawnRefund(r) \/ Abandon(r)
        PROVE  slots'[q] = slots[q]
    BY <1>0, <2>1
       DEF StartFinalize, StartVoid, CheckBalance, WriteDebit, FinalizeOrder, SpawnEffects,
           VoidOrder, SpawnRefund, Abandon, Goto, Reply
  <2>. QED
    BY <2>1
       DEF Next, vars, svc_vars, xp_vars, CreateOrder, WindowCloses, IncrementSessionSpend,
           AwardXP, AddLocalXP, PostRefund, LoseTask, ConfirmTopup
<1>2. \A o \in OrderIds, u \in Users \cup {NoUser} :
         StartFinalize(q, o, u) => slots'[q].pc # "debit" \/ slots'[q].guest = NoUser
  BY <1>0 DEF StartFinalize
<1>3. \A o \in OrderIds, c \in Staff : StartVoid(q, o, c) => slots'[q].pc # "debit"
  BY <1>0 DEF StartVoid
<1>4. WriteDebit(q) \/ FinalizeOrder(q) \/ SpawnEffects(q) \/ VoidOrder(q)
         \/ SpawnRefund(q) \/ Abandon(q) => slots'[q].pc # "debit"
  BY <1>0 DEF WriteDebit, FinalizeOrder, SpawnEffects, VoidOrder, SpawnRefund,
              Abandon, Goto, Reply, Idle, Slot
<1>5. CheckBalance(q)
  BY <1>1, <1>2, <1>3, <1>4
<1>. QED  BY <1>0, <1>5 DEF CheckBalance, Goto, Reply, Idle, Slot

\* A handler debits the order that it had on the way; a top-up only helps; and an
\* order that passes the check is covered by the balance it saw.
LEMMA DebitsCoveredKept ==
    ASSUME IInv, LedgerStep, RowsKept, [Next]_vars
    PROVE  DebitsCovered'
<1>0. /\ OrdersTypeOK /\ HandlersKnow /\ TotalsGenuine /\ LedgerFinite /\ DebitsCovered
      /\ slots \in [Slots -> Slot]
      /\ orders \in [OrderIds -> OrderRow \cup {NoOrder}]
  BY DEF IInv, OrdersTypeOK
<1>. SUFFICES ASSUME NEW u \in Users, NEW v \in Venues
              PROVE  VenueBalance(u, v)' - OnTheWay(u, v)' >= -(Cardinality(Slots) - 1) * MaxTotal
  BY DEF DebitsCovered
<1>1. PICK bound \in Nat : bound = (Cardinality(Slots) - 1) * MaxTotal
  BY OthersBound
<1>2. VenueBalance(u, v) - OnTheWay(u, v) >= -bound
  BY <1>0, <1>1 DEF DebitsCovered
<1>3. VenueBalance(u, v) \in Int /\ OnTheWay(u, v) \in Nat
  BY <1>0, BalanceType, OnTheWayType
<1>4. u # NoUser /\ v # NoVenue
  BY LedgerAssumption
<1>5. ledger_events' = ledger_events => VenueBalance(u, v)' = VenueBalance(u, v)
  BY DEF VenueBalance, Spendable
<1>6. CASE \E q \in Debiting(u, v)' : slots'[q] # slots[q]
  <2>1. PICK r \in Debiting(u, v)' : slots'[r] # slots[r]
    BY <1>6
  <2>2. r \in Slots /\ slots'[r].pc = "debit" /\ slots'[r].guest = u
    BY <2>1 DEF Debiting
  <2>3. /\ CheckBalance(r)
        /\ SufficientBalance(slots[r].order, slots[r].guest)
        /\ slots'[r].order = slots[r].order /\ slots'[r].guest = slots[r].guest
    BY <1>0, <1>4, <2>1, <2>2, ComesToDebit
  <2>4. orders' = orders /\ ledger_events' = ledger_events
    BY <2>3 DEF CheckBalance
  <2>5. \A q \in Debiting(u, v)' : slots'[q].order = slots[q].order /\ slots[q].pc # "idle"
    <3>1. \A q \in Slots : q # r => slots'[q] = slots[q]
      BY <1>0, <2>3 DEF CheckBalance, Goto, Reply
    <3>2. slots[r].pc # "idle"
      BY <2>3 DEF CheckBalance
    <3>. QED  BY <2>3, <3>1, <3>2 DEF Debiting
  <2>6. /\ OnTheWay(u, v)' \in Int
        /\ OnTheWay(u, v)' - orders[slots[r].order].total_nc <= bound
    BY <1>0, <1>1, <2>1, <2>4, <2>5, DebitArrives
  <2>7. orders[slots[r].order].venue_id = v
    BY <2>1, <2>3, <2>4 DEF Debiting
  <2>8. VenueBalance(u, v) >= orders[slots[r].order].total_nc
    BY <2>2, <2>3, <2>7 DEF SufficientBalance
  <2>9. orders[slots[r].order].total_nc \in Nat
    <3>1. slots[r].order \in OrderIds /\ Exists(slots[r].order)
      BY <1>0, <2>2, <2>3 DEF CheckBalance, HandlersKnow, Knows
    <3>. QED  BY <1>0, <3>1 DEF Exists, OrderRow
  <2>10. VenueBalance(u, v)' - OnTheWay(u, v)' >= -bound
    BY <1>3, <1>5, <2>4, <2>6, <2>8, <2>9
  <2>. QED  BY <1>1, <2>10
<1>7. CASE \A q \in Debiting(u, v)' : slots'[q] = slots[q]
  <2>1. /\ OnTheWay(u, v)' \in Int /\ OnTheWay(u, v)' <= OnTheWay(u, v)
        /\ \A r \in Debiting(u, v) \ Debiting(u, v)' :
              OnTheWay(u, v)' <= OnTheWay(u, v) - orders[slots[r].order].total_nc
    BY <1>0, <1>7, DebitsLeave
  <2>2. CASE ledger_events' = ledger_events
    <3>1. VenueBalance(u, v)' - OnTheWay(u, v)' >= -bound
      BY <1>2, <1>3, <1>5, <2>1, <2>2
    <3>. QED  BY <1>1, <3>1
  <2>3. ASSUME NEW r \in Slots, WriteDebit(r), ledger_events' # ledger_events
        PROVE  VenueBalance(u, v)' - OnTheWay(u, v)' >= -bound
    <3>1. PICK o, g : o = slots[r].order /\ g = slots[r].guest /\ o \in OrderIds
      BY <1>0, <2>3 DEF WriteDebit, HandlersKnow, Knows
    <3>2. PICK row : row = Row("orders", DebitRequest(o, g))
      OBVIOUS
    <3>3. /\ Accepts("orders", DebitRequest(o, g))
          /\ ~KeyTaken(DebitRequest(o, g).idempotency_key)
          /\ ledger_events' = ledger_events \cup {row}
      BY <2>3, <3>1, <3>2, WriteEventAppends DEF WriteDebit
    <3>4. g \in Users \cup {NoUser} /\ orders[o] \in OrderRow
      BY <1>0, <2>3, <3>1 DEF WriteDebit, HandlersKnow, Knows, Exists, Slot
    <3>5. /\ row \in LedgerRow(Keys)
          /\ row.event_type = "order_paid"
          /\ row.user_id = g
          /\ row.venue_id = orders[o].venue_id
          /\ row.amount_nc = -orders[o].total_nc
          /\ row.idempotency_key = OrderPaidKey(o)
          /\ row.written_by = "orders"
      BY <3>1, <3>2, <3>3, <3>4, DebitRow
    <3>6. Appended(row)
      BY <3>3, <3>5 DEF Appended, DebitRequest, WriteRequest, AuthorisedWriters
    <3>7. orders[o].total_nc \in Nat /\ orders[o].venue_id \in Venues
      BY <3>4 DEF OrderRow
    <3>8. /\ CountsFor(row, u, v) =>
               VenueBalance(u, v)' = VenueBalance(u, v) + row.amount_nc
          /\ ~CountsFor(row, u, v) => VenueBalance(u, v)' = VenueBalance(u, v)
      BY <1>0, <3>6, BalanceStepped
    <3>9. CASE CountsFor(row, u, v)
      <4>1. u = g /\ v = orders[o].venue_id
        BY <3>5, <3>7, <3>9, LedgerAssumption DEF CountsFor
      <4>2. r \in Debiting(u, v)
        BY <2>3, <3>1, <4>1 DEF WriteDebit, Debiting
      <4>3. slots'[r].pc # "debit"
        BY <1>0, <2>3 DEF WriteDebit, Goto, Reply, Idle, Slot
      <4>4. r \notin Debiting(u, v)'
        BY <4>3 DEF Debiting
      <4>5. OnTheWay(u, v)' <= OnTheWay(u, v) - orders[o].total_nc
        BY <2>1, <3>1, <4>2, <4>4
      <4>. QED  BY <1>2, <1>3, <2>1, <3>5, <3>7, <3>8, <3>9, <4>5
    <3>10. CASE ~CountsFor(row, u, v)
      BY <1>2, <1>3, <2>1, <3>8, <3>10
    <3>. QED  BY <3>9, <3>10
  <2>4. ASSUME NEW t \in Topups, ConfirmTopup(t), ledger_events' # ledger_events
        PROVE  VenueBalance(u, v)' - OnTheWay(u, v)' >= -bound
    <3>. DEFINE req == WriteRequest("topup_confirmed", t.user_id, NoVenue,
                                    t.amount_nc, "uuid", TopupKey(t))
    <3>1. PICK row : row = Row("payments", req)
      OBVIOUS
    <3>2. ~KeyTaken(req.idempotency_key) /\ ledger_events' = ledger_events \cup {row}
      BY <2>4, <3>1, WriteEventAppends DEF ConfirmTopup
    <3>3. /\ row \in LedgerRow(Keys)
          /\ row.event_type = "topup_confirmed"
          /\ row.idempotency_key = TopupKey(t)
          /\ row.written_by = "payments"
      BY <3>1, TopupIsRow
    <3>4. row.amount_nc \in Nat
      BY <3>1, OrdersAssumption DEF Row, WriteRequest
    <3>5. Appended(row)
      <4>1. req.idempotency_key = TopupKey(t)
        BY DEF WriteRequest
      <4>. QED  BY <3>2, <3>3, <4>1 DEF Appended, AuthorisedWriters
    <3>6. VenueBalance(u, v)' \in Int /\ VenueBalance(u, v)' >= VenueBalance(u, v)
      BY <1>0, <1>3, <3>4, <3>5, BalanceStepped
    <3>. QED  BY <1>2, <1>3, <2>1, <3>6
  <2>5. \/ ledger_events' = ledger_events
        \/ \E r \in Slots : WriteDebit(r)
        \/ \E t \in Topups : ConfirmTopup(t)
    BY RefundRefused
       DEF Next, vars, svc_vars, xp_vars, CreateOrder, WindowCloses, StartFinalize, CheckBalance,
           FinalizeOrder, SpawnEffects, StartVoid, VoidOrder, SpawnRefund, PostRefund,
           WriteEvent, IncrementSessionSpend, AwardXP, AddLocalXP, Abandon, LoseTask
  <2>. QED  BY <1>1, <2>2, <2>3, <2>4, <2>5
<1>. QED  BY <1>6, <1>7

-----------------------------------------------------------------------------
\* All of it

\* No step leaves the invariant, and a step does to the ledger and to the rows
\* only what LedgerStep and RowsKept say.
LEMMA StepKeepsIInv ==
    ASSUME IInv, [Next]_vars
    PROVE  IInv' /\ LedgerStep /\ RowsKept
<1>1. LedgerStep
  BY LedgerStepped DEF IInv
<1>2. RowsKept
  BY RowsStepKept DEF IInv
<1>3. OrdersTypeOK'
  BY <1>1, TypeKept DEF IInv
<1>4. UniqueIdempotencyKey'
  BY <1>1, UniqueKeyKept DEF IInv
<1>5. DebitsMatchOrders'
  BY <1>1, <1>2, DebitsMatchOrdersKept DEF IInv
<1>6. HandlersKnow'
  BY <1>1, <1>2, HandlersKnowKept DEF IInv
<1>7. TasksOfPaid'
  BY <1>2, TasksOfPaidKept DEF IInv
<1>8. PaidOrderHasDebit'
  BY <1>1, <1>2, PaidOrderHasDebitKept DEF IInv
<1>9. EffectsOnce'
  BY <1>2, <1>3, <1>6, EffectsOnceKept DEF IInv
<1>10. RowsFinite'
  BY RowsFiniteKept DEF IInv
<1>11. CountersCovered'
  BY <1>2, <1>3, <1>10, CountersCoveredKept
<1>12. TotalsGenuine'
  BY <1>2, TotalsGenuineKept DEF IInv
<1>13. LedgerFinite'
  BY <1>1, LedgerFiniteKept DEF IInv
<1>14. DebitsCovered'
  BY <1>1, <1>2, DebitsCoveredKept
<1>. QED
  BY <1>1, <1>2, <1>3, <1>4, <1>5, <1>6, <1>7, <1>8, <1>9, <1>10, <1>11, <1>12, <1>13, <1>14
     DEF IInv

\* The inductive invariant holds of every behaviour of the orders service.
THEOREM Invariance == Spec => []IInv
<1>1. IInv /\ [Next]_vars => IInv'
  BY StepKeepsIInv
<1>. QED  BY InitIInv, <1>1, PTL DEF Spec

-----------------------------------------------------------------------------
\* Safety

\* Every variable keeps its type.
THEOREM TypeCorrect == Spec => []OrdersTypeOK
<1>1. IInv => OrdersTypeOK
  BY DEF IInv
<1>. QED  BY Invariance, <1>1, PTL

\* A row that was ever paid references the order_paid event that took exactly
\* its total at its venue, and a pending row references none: the ledger call
\* and the UPDATE of finalize are not one transaction, but the UPDATE comes
\* second and its WHERE clause decides.
THEOREM PaidHasDebit == Spec => []PaidOrderHasDebit
<1>1. IInv => PaidOrderHasDebit
  BY DEF IInv
<1>. QED  BY Invariance, <1>1, PTL

\* An order is debited at most once, however often, by whomever and for
\* whichever guest it is finalized.
THEOREM OneDebit == Spec => []OneDebitPerOrder
<1>1. ASSUME IInv PROVE OneDebitPerOrder
  <2>1. SUFFICES ASSUME NEW e \in ledger_events, NEW f \in ledger_events,
                        e.event_type = "order_paid", f.event_type = "order_paid",
                        e.idempotency_key[2] = f.idempotency_key[2]
                 PROVE  e = f
    BY DEF OneDebitPerOrder
  <2>2. PICK o \in OrderIds : e.idempotency_key = OrderPaidKey(o)
    BY <1>1, <2>1 DEF IInv, DebitsMatchOrders
  <2>3. PICK p \in OrderIds : f.idempotency_key = OrderPaidKey(p)
    BY <1>1, <2>1 DEF IInv, DebitsMatchOrders
  <2>4. o = p
    BY <2>1, <2>2, <2>3 DEF OrderPaidKey
  <2>. QED  BY <1>1, <2>2, <2>3, <2>4 DEF IInv, UniqueIdempotencyKey
<1>. QED  BY Invariance, <1>1, PTL

\* The ledger is only ever appended to, under fresh keys and by the service the
\* event type belongs to.
THEOREM LedgerIsAppendOnly == Spec => LedgerContract
<1>1. ASSUME IInv, [Next]_vars PROVE [LedgerAppend]_ledger_events
  <2>1. LedgerStep
    BY <1>1, StepKeepsIInv
  <2>2. ASSUME NEW row, Appended(row) PROVE LedgerAppend
    BY <2>2 DEF Appended, LedgerAppend, LedgerRow, AuthorisedWriters
  <2>. QED  BY <2>1, <2>2 DEF LedgerStep
<1>. QED  BY Invariance, <1>1, PTL DEF Spec, LedgerContract

\* No credit comes from the orders service: what it writes is negative, and the
\* refund it tries to write is refused.
THEOREM OnlyPaymentsMint == Spec => []OnlyPaymentsMints
<1>1. Init => OnlyPaymentsMints
  BY DEF Init, OnlyPaymentsMints
<1>2. ASSUME IInv, OnlyPaymentsMints, [Next]_vars PROVE OnlyPaymentsMints'
  <2>1. LedgerStep /\ orders \in [OrderIds -> OrderRow \cup {NoOrder}]
    BY <1>2, StepKeepsIInv DEF IInv, OrdersTypeOK
  <2>2. ASSUME NEW row, Appended(row), TopupRow(row) PROVE OnlyPaymentsMints'
    <3>1. row.written_by = "payments"
      BY <2>2 DEF Appended, TopupRow, AuthorisedWriters
    <3>. QED  BY <1>2, <2>2, <3>1 DEF OnlyPaymentsMints, Appended
  <2>3. ASSUME NEW row, NEW o \in OrderIds, Appended(row), DebitFor(o, row)
        PROVE  OnlyPaymentsMints'
    <3>1. orders[o].total_nc \in Nat \ {0}
      BY <2>1, <2>3 DEF DebitFor, Exists, OrderRow
    <3>2. ~(row.amount_nc > 0)
      BY <2>3, <3>1 DEF DebitFor
    <3>. QED  BY <1>2, <2>3, <3>2 DEF OnlyPaymentsMints, Appended
  <2>4. CASE ledger_events' = ledger_events
    BY <1>2, <2>4 DEF OnlyPaymentsMints
  <2>. QED  BY <2>1, <2>2, <2>3, <2>4 DEF LedgerStep
<1>. QED  BY Invariance, <1>1, <1>2, PTL DEF Spec

\* What was ordered never changes, the event and the guest of a paid row are
\* set once, and the status only moves forward, under concurrent finalizes and
\* voids.
THEOREM RowsMoveForward == Spec => RowLifecycle
<1>1. ASSUME IInv, [Next]_vars
      PROVE  \A o \in OrderIds : Exists(o) => RowStep(o)
  BY <1>1, StepKeepsIInv DEF RowsKept, RowStep, Exists, EverPaid, Status
<1>. QED  BY Invariance, <1>1, PTL DEF Spec, RowLifecycle

\* However many staff void an order at once, at most one refund is sent for it,
\* and only for a void order that had been paid.
THEOREM OneRefund == Spec => []RefundSentOnce
<1>1. ASSUME IInv PROVE RefundSentOnce
  <2>. SUFFICES ASSUME NEW o \in OrderIds, NEW sending,
                       sending = {r \in Slots : slots[r].pc = "refund" /\ slots[r].order = o}
                PROVE  /\ Cardinality(sending) + Count("refund", o) <= 1
                       /\ Cardinality(sending) + Count("refund", o) = 1
                             => EverPaid(o) /\ Status(o) = "voided"
    BY DEF RefundSentOnce
  <2>1. /\ Count("refund", o) \in {0, 1}
        /\ Count("refund", o) > 0 => EverPaid(o) /\ Status(o) = "voided"
        /\ sending # {} => Count("refund", o) = 0
        /\ \A r, q \in sending : r = q
        /\ sending # {} => EverPaid(o) /\ Status(o) = "voided"
    BY <1>1 DEF IInv, OrdersTypeOK, EffectsOnce, TasksOfPaid, Count, Starts, TaskKinds,
                HandlersKnow, Knows
  <2>2. CASE sending = {}
    BY <2>1, <2>2, FS_EmptySet
  <2>3. CASE sending # {}
    <3>1. PICK r : sending = {r}
      BY <2>1, <2>3
    <3>2. Cardinality(sending) = 1
      BY <3>1, FS_Singleton
    <3>. QED  BY <2>1, <2>3, <3>2
  <2>. QED  BY <2>2, <2>3
<1>. QED  BY Invariance, <1>1, PTL

\* What is counted and what is still outstanding are within what was sold.
LEMMA CountedWithinSales ==
    ASSUME IInv, NEW kind \in {"spend", "xp", "local_xp"}, NEW O,
           O \subseteq {o \in OrderIds : EverPaid(o)}
    PROVE  /\ Counted(kind, O) + Outstanding(kind, O) <= PaidTotal(O)
           /\ Counted(kind, O) \in Int /\ Outstanding(kind, O) \in Int
           /\ PaidTotal(O) \in Int
<1>. DEFINE counted == [o \in O |-> IF Owing(kind, o) THEN 0 ELSE orders[o].total_nc]
            owed    == [o \in O |-> Count(kind, o) * orders[o].total_nc]
            both    == [o \in O |-> counted[o] + owed[o]]
            sold    == [o \in O |-> orders[o].total_nc]
<1>0. OrdersTypeOK /\ RowsFinite /\ EffectsOnce /\ kind \in TaskKinds
  BY DEF IInv, TaskKinds
<1>1. O \subseteq {o \in OrderIds : Exists(o)}
  BY DEF EverPaid
<1>2. IsFiniteSet(O) /\ \A o \in O : orders[o].total_nc \in Nat
  BY <1>0, <1>1, CountedType
<1>3. ASSUME NEW o \in O
      PROVE  /\ counted[o] \in Int /\ owed[o] \in Int /\ sold[o] \in Int
             /\ both[o] \in Int /\ both[o] = counted[o] + owed[o] /\ both[o] <= sold[o]
  <2>1. PICK n \in Nat : n = orders[o].total_nc
    BY <1>2
  <2>2. Count(kind, o) \in {0, 1}
    BY <1>0, <1>1, CountType DEF EffectsOnce
  <2>3. CASE Count(kind, o) = 0
    <3>1. owed[o] = 0
      BY <2>1, <2>3
    <3>. QED  BY <2>1, <3>1
  <2>4. CASE Count(kind, o) = 1
    <3>1. owed[o] = n /\ counted[o] = 0
      BY <2>1, <2>4 DEF Owing
    <3>. QED  BY <2>1, <3>1
  <2>. QED  BY <2>2, <2>3, <2>4
<1>. HIDE DEF counted, owed, both, sold
<1>4. SumFunctionOnSet(both, O) = SumFunctionOnSet(counted, O) + SumFunctionOnSet(owed, O)
  BY <1>2, <1>3, SumPlus
<1>5. SumFunctionOnSet(both, O) <= SumFunctionOnSet(sold, O)
  BY <1>2, <1>3, SumMonotone
<1>6. /\ SumFunctionOnSet(counted, O) \in Int /\ SumFunctionOnSet(owed, O) \in Int
      /\ SumFunctionOnSet(sold, O) \in Int
  BY <1>2, <1>3, SumType
<1>. QED
  BY <1>4, <1>5, <1>6 DEF counted, owed, sold, Counted, Outstanding, PaidTotal

\* The spend counter of a session, with the increments still on their way, stays
\* within the orders paid in it: the UPDATE of finalize passes once, and only
\* the handler it passed starts the increment.
THEOREM SpendCovered == Spec => []SpendWithinSales
<1>1. ASSUME IInv PROVE SpendWithinSales
  <2>1. SUFFICES ASSUME NEW s \in Sessions
                 PROVE  total_spend_nc[s] + Outstanding("spend", PaidIn(s))
                            <= PaidTotal(PaidIn(s))
    BY DEF SpendWithinSales
  <2>2. total_spend_nc[s] \in Nat /\ total_spend_nc[s] <= Counted("spend", PaidIn(s))
    BY <1>1 DEF IInv, OrdersTypeOK, CountersCovered
  <2>3. PaidIn(s) \subseteq {o \in OrderIds : EverPaid(o)}
    BY DEF PaidIn
  <2>. QED  BY <1>1, <2>2, <2>3, CountedWithinSales
<1>. QED  BY Invariance, <1>1, PTL

\* The same for the XP that orders give a guest, in all and at each venue, and what
\* that guest was sold.
THEOREM XPCovered == Spec => []XPWithinSales
<1>1. ASSUME IInv PROVE XPWithinSales
  <2>1. SUFFICES ASSUME NEW u \in Users
                 PROVE  /\ global_xp[u] + Outstanding("xp", PaidBy(u))
                               <= PaidTotal(PaidBy(u))
                        /\ \A v \in Venues :
                              local_xp[<<u, v>>] + Outstanding("local_xp", PaidByAt(u, v))
                                  <= PaidTotal(PaidByAt(u, v))
    BY DEF XPWithinSales
  <2>2. global_xp[u] \in Nat /\ global_xp[u] <= Counted("xp", PaidBy(u))
    BY <1>1 DEF IInv, OrdersTypeOK, CountersCovered
  <2>3. PaidBy(u) \subseteq {o \in OrderIds : EverPaid(o)}
    BY DEF PaidBy
  <2>4. global_xp[u] + Outstanding("xp", PaidBy(u)) <= PaidTotal(PaidBy(u))
    BY <1>1, <2>2, <2>3, CountedWithinSales
  <2>5. ASSUME NEW v \in Venues
        PROVE  local_xp[<<u, v>>] + Outstanding("local_xp", PaidByAt(u, v))
                   <= PaidTotal(PaidByAt(u, v))
    <3>1. local_xp[<<u, v>>] \in Nat
          /\ local_xp[<<u, v>>] <= Counted("local_xp", PaidByAt(u, v))
      BY <1>1 DEF IInv, OrdersTypeOK, CountersCovered
    <3>2. PaidByAt(u, v) \subseteq {o \in OrderIds : EverPaid(o)}
      BY <2>3 DEF PaidByAt
    <3>. QED  BY <1>1, <3>1, <3>2, CountedWithinSales
  <2>. QED  BY <2>4, <2>5
<1>. QED  BY Invariance, <1>1, PTL

-----------------------------------------------------------------------------
\* Overdrafts

\* However finalizes cross, fail and are retried, a guest gets into the red at a
\* venue by at most one order for each handler beside the first.
THEOREM OverdraftIsBounded == Spec => []OverdraftBounded
<1>1. ASSUME IInv, NEW u \in Users, NEW v \in Venues
      PROVE  VenueBalance(u, v) >= -(Cardinality(Slots) - 1) * MaxTotal
  <2>1. PICK bound \in Nat : bound = (Cardinality(Slots) - 1) * MaxTotal
    BY OthersBound
  <2>2. VenueBalance(u, v) - OnTheWay(u, v) >= -bound
    BY <1>1, <2>1 DEF IInv, DebitsCovered
  <2>3. VenueBalance(u, v) \in Int /\ OnTheWay(u, v) \in Nat
    BY <1>1, BalanceType, OnTheWayType DEF IInv
  <2>4. VenueBalance(u, v) >= -bound
    BY <2>2, <2>3
  <2>. QED  BY <2>1, <2>4
<1>2. IInv => OverdraftBounded
  BY <1>1 DEF OverdraftBounded
<1>. QED  BY Invariance, <1>2, PTL

\* Requests that come one after the other, with failures and top-ups in between,
\* at one venue never take a guest into the red: it takes two requests at once,
\* or two venues.
THEOREM SerialNoOverdraft ==
    ASSUME NEW handler, Slots = {handler}, NEW venue, Venues = {venue}
    PROVE  Spec => []NoOverdraft
<1>1. -(Cardinality(Slots) - 1) * MaxTotal = 0
  <2>1. Cardinality(Slots) = 1
    BY FS_Singleton
  <2>2. PICK m \in Nat : m = MaxTotal
    BY LargestTotal
  <2>3. -(1 - 1) * m = 0
    BY SMT
  <2>. QED  BY <2>1, <2>2, <2>3
<1>2. ASSUME IInv, OverdraftBounded PROVE NoOverdraft
  <2>1. \A u : GlobalBalance(u) = VenueBalance(u, venue)
    <3>1. \A e \in ledger_events : e.venue_id \in {venue, NoVenue}
      BY <1>2 DEF IInv, OrdersTypeOK, LedgerRow
    <3>2. \A u : {e \in Spendable(u) : e.venue_id \in {venue, NoVenue}} = Spendable(u)
      BY <3>1 DEF Spendable
    <3>. QED  BY <3>2 DEF GlobalBalance, VenueBalance
  <2>2. \A u \in Users : VenueBalance(u, venue) >= 0
    BY <1>1, <1>2 DEF OverdraftBounded
  <2>. QED  BY <2>1, <2>2 DEF NoOverdraft
<1>. QED  BY Invariance, OverdraftIsBounded, <1>2, PTL

-----------------------------------------------------------------------------
\* The orders service implements OrderSettlement

\* A step changes at most one row, never together with the ledger, and moves its
\* phase as the abstract specification does.
PhaseMoves(o) ==
    \/ PhaseOf(o)' = PhaseOf(o)
    \/ PhaseOf(o) = "none" /\ PhaseOf(o)' = "open"
    \/ PhaseOf(o) = "open" /\ PhaseOf(o)' = "settled" /\ KeyTaken(OrderPaidKey(o))
    \/ PhaseOf(o) \in {"open", "settled"} /\ PhaseOf(o)' = "void"

OneRowMoves ==
    \/ orders' = orders
    \/ \E o \in OrderIds :
          /\ ledger_events' = ledger_events
          /\ \A p \in OrderIds \ {o} : orders'[p] = orders[p]
          /\ PhaseMoves(o)

\* A step changes the phase of at most one order, along an edge of
\* OrderSettlement.
LEMMA OneRowMoved ==
    ASSUME IInv, [Next]_vars
    PROVE  OneRowMoves
<1>0. /\ slots \in [Slots -> Slot]
      /\ orders \in [OrderIds -> OrderRow \cup {NoOrder}]
      /\ RowsKept
  BY StepKeepsIInv DEF IInv, OrdersTypeOK
<1>1. ASSUME NEW o \in OrderIds, NEW body, CreateOrder(o, body) PROVE OneRowMoves
  <2>1. \A p \in OrderIds \ {o} : orders'[p] = orders[p]
    BY <1>0, <1>1 DEF CreateOrder
  <2>2. CASE ~Exists(o)
    <3>1. orders'[o].status = "pending"
      BY <1>0, <1>1, <2>2 DEF CreateOrder
    <3>2. PhaseOf(o) = "none" /\ PhaseOf(o)' \in {"none", "open"}
      BY <2>2, <3>1 DEF PhaseOf, Status
    <3>. QED  BY <1>1, <2>1, <3>2 DEF CreateOrder, OneRowMoves, PhaseMoves
  <2>3. CASE Exists(o)
    <3>1. Exists(o)' /\ Status(o)' = Status(o)
      BY <1>0, <1>1, <2>3 DEF CreateOrder, OrderRow, Exists, Status, RowsKept
    <3>. QED  BY <1>1, <2>1, <2>3, <3>1 DEF CreateOrder, OneRowMoves, PhaseMoves, PhaseOf
  <2>. QED  BY <2>2, <2>3
<1>2. ASSUME NEW o \in OrderIds, WindowCloses(o) PROVE OneRowMoves
  <2>1. \A p \in OrderIds \ {o} : orders'[p] = orders[p]
    BY <1>0, <1>2 DEF WindowCloses
  <2>2. Exists(o) /\ Exists(o)' /\ Status(o)' = Status(o)
    BY <1>0, <1>2 DEF WindowCloses, OrderRow, Exists, Status, RowsKept
  <2>. QED  BY <1>2, <2>1, <2>2 DEF WindowCloses, OneRowMoves, PhaseMoves, PhaseOf
<1>3. ASSUME NEW r \in Slots, FinalizeOrder(r) PROVE OneRowMoves
  <2>1. PICK o \in OrderIds : o = slots[r].order
    BY <1>3 DEF FinalizeOrder, IInv, HandlersKnow, Knows
  <2>2. /\ Exists(o) /\ orders[o] \in OrderRow
        /\ KeyTaken(OrderPaidKey(o))
    BY <1>0, <1>3, <2>1 DEF FinalizeOrder, IInv, HandlersKnow, Knows, Exists
  <2>3. CASE Status(o) = "pending"
    <3>1. \A p \in OrderIds \ {o} : orders'[p] = orders[p]
      BY <1>0, <1>3, <2>1, <2>3 DEF FinalizeOrder, StorePaid
    <3>2. orders'[o].status = "paid"
      BY <1>0, <1>3, <2>1, <2>2, <2>3 DEF FinalizeOrder, StorePaid, OrderRow
    <3>3. Exists(o)'
      BY <1>0, <2>2 DEF RowsKept
    <3>4. PhaseOf(o) = "open" /\ PhaseOf(o)' = "settled"
      BY <2>2, <2>3, <3>2, <3>3 DEF PhaseOf, Status
    <3>. QED  BY <1>3, <2>2, <3>1, <3>4 DEF FinalizeOrder, OneRowMoves, PhaseMoves
  <2>4. CASE Status(o) # "pending"
    BY <1>3, <2>1, <2>4 DEF FinalizeOrder, OneRowMoves
  <2>. QED  BY <2>3, <2>4
<1>4. ASSUME NEW r \in Slots, VoidOrder(r) PROVE OneRowMoves
  <2>1. PICK o \in OrderIds : o = slots[r].order
    BY <1>4 DEF VoidOrder, IInv, HandlersKnow, Knows
  <2>2. Exists(o) /\ orders[o] \in OrderRow
    BY <1>0, <1>4, <2>1 DEF VoidOrder, IInv, HandlersKnow, Knows, Exists
  <2>3. CASE Status(o) \in {"pending", "paid"}
    <3>1. \A p \in OrderIds \ {o} : orders'[p] = orders[p]
      BY <1>0, <1>4, <2>1, <2>3 DEF VoidOrder
    <3>2. orders'[o].status = "voided"
      BY <1>0, <1>4, <2>1, <2>2, <2>3 DEF VoidOrder, OrderRow
    <3>3. Exists(o)'
      BY <1>0, <2>2 DEF RowsKept
    <3>4. PhaseOf(o) \in {"open", "settled"} /\ PhaseOf(o)' = "void"
      BY <2>2, <2>3, <3>2, <3>3 DEF PhaseOf, Status
    <3>. QED  BY <1>4, <3>1, <3>4 DEF VoidOrder, OneRowMoves, PhaseMoves
  <2>4. CASE Status(o) \notin {"pending", "paid"}
    BY <1>4, <2>1, <2>4 DEF VoidOrder, OneRowMoves
  <2>. QED  BY <2>3, <2>4
<1>5. ASSUME orders' = orders PROVE OneRowMoves
  BY <1>5 DEF OneRowMoves
<1>. QED
  BY <1>1, <1>2, <1>3, <1>4, <1>5
     DEF Next, vars, svc_vars, xp_vars, StartFinalize, CheckBalance, WriteDebit, SpawnEffects,
         StartVoid, SpawnRefund, IncrementSessionSpend, AwardXP, AddLocalXP, PostRefund, Abandon,
         LoseTask, ConfirmTopup

\* Nobody is the payer of an order until its debit is on the ledger.
LEMMA PayerFacts ==
    OrdersTypeOK =>
        \A o \in OrderIds :
            /\ KeyTaken(OrderPaidKey(o)) => PayerOf(o) \in Users
            /\ ~KeyTaken(OrderPaidKey(o)) => PayerOf(o) = NoUser
<1>. SUFFICES ASSUME OrdersTypeOK, NEW o \in OrderIds
              PROVE  /\ KeyTaken(OrderPaidKey(o)) => PayerOf(o) \in Users
                     /\ ~KeyTaken(OrderPaidKey(o)) => PayerOf(o) = NoUser
  OBVIOUS
<1>1. CASE DebitOf(o) = {}
  BY <1>1 DEF DebitOf, KeyTaken, PayerOf
<1>2. CASE DebitOf(o) # {}
  <2>1. AnyOf(DebitOf(o)) \in DebitOf(o)
    BY <1>2 DEF AnyOf
  <2>2. \A e \in DebitOf(o) : e.user_id \in Users /\ KeyTaken(OrderPaidKey(o))
    BY DEF DebitOf, KeyTaken, OrdersTypeOK, LedgerRow
  <2>. QED  BY <1>2, <2>1, <2>2 DEF PayerOf
<1>. QED  BY <1>1, <1>2

\* The empty service maps to the abstract initial state.
LEMMA SettlementInit == Init => Settlement!Init
<1>. SUFFICES ASSUME Init PROVE Settlement!Init
  OBVIOUS
<1>1. \A o \in OrderIds : PhaseOf(o) = "none"
  BY DEF Init, PhaseOf, Exists
<1>2. \A o \in OrderIds : PayerOf(o) = NoUser
  BY DEF Init, PayerOf, DebitOf
<1>. QED  BY <1>1, <1>2 DEF Settlement!Init

\* Every step maps to one abstract step or to none.
LEMMA SettlementStep ==
    ASSUME IInv, [Next]_vars
    PROVE  [Settlement!Next]_(Settlement!vars)
<1>. DEFINE Phase == [o \in OrderIds |-> PhaseOf(o)]
            Payer == [o \in OrderIds |-> PayerOf(o)]
<1>0. /\ IInv' /\ LedgerStep /\ OneRowMoves
      /\ OrdersTypeOK /\ OrdersTypeOK'
  BY StepKeepsIInv, OneRowMoved DEF IInv
<1>1. ASSUME NEW x \in OrderIds, ledger_events' = ledger_events,
             \A p \in OrderIds \ {x} : orders'[p] = orders[p], PhaseMoves(x)
      PROVE  [Settlement!Next]_(Settlement!vars)
  <2>1. Payer' = Payer
    BY <1>1 DEF PayerOf, DebitOf
  <2>2. \A p \in OrderIds \ {x} : PhaseOf(p)' = PhaseOf(p)
    BY <1>1 DEF PhaseOf, Exists, Status
  <2>3. Phase' = [Phase EXCEPT ![x] = PhaseOf(x)']
    BY <2>2
  <2>4. CASE PhaseOf(x)' = PhaseOf(x)
    <3>1. Phase' = Phase
      BY <2>2, <2>4
    <3>. QED  BY <2>1, <3>1 DEF Settlement!vars
  <2>5. CASE PhaseOf(x) = "none" /\ PhaseOf(x)' = "open"
    <3>1. Settlement!Open(x)
      BY <2>1, <2>3, <2>5 DEF Settlement!Open
    <3>. QED  BY <3>1 DEF Settlement!Next
  <2>6. CASE /\ PhaseOf(x) = "open" /\ PhaseOf(x)' = "settled"
             /\ KeyTaken(OrderPaidKey(x))
    <3>1. PayerOf(x) # NoUser
      BY <1>0, <2>6, PayerFacts, LedgerAssumption
    <3>2. Settlement!Settle(x)
      BY <2>1, <2>3, <2>6, <3>1 DEF Settlement!Settle
    <3>. QED  BY <3>2 DEF Settlement!Next
  <2>7. CASE PhaseOf(x) \in {"open", "settled"} /\ PhaseOf(x)' = "void"
    <3>1. Settlement!Void(x)
      BY <2>1, <2>3, <2>7 DEF Settlement!Void
    <3>. QED  BY <3>1 DEF Settlement!Next
  <2>. QED  BY <1>1, <2>4, <2>5, <2>6, <2>7 DEF PhaseMoves
<1>2. ASSUME orders' = orders PROVE [Settlement!Next]_(Settlement!vars)
  <2>1. Phase' = Phase
    BY <1>2 DEF PhaseOf, Exists, Status
  <2>2. CASE ledger_events' = ledger_events
    <3>1. Payer' = Payer
      BY <2>2 DEF PayerOf, DebitOf
    <3>. QED  BY <2>1, <3>1 DEF Settlement!vars
  <2>3. ASSUME NEW row, Appended(row), TopupRow(row)
        PROVE  [Settlement!Next]_(Settlement!vars)
    <3>1. \A o \in OrderIds : DebitOf(o)' = DebitOf(o)
      BY <2>3 DEF DebitOf, Appended, TopupRow
    <3>2. Payer' = Payer
      BY <3>1 DEF PayerOf
    <3>. QED  BY <2>1, <3>2 DEF Settlement!vars
  <2>4. ASSUME NEW row, NEW x \in OrderIds, Appended(row), DebitFor(x, row)
        PROVE  [Settlement!Next]_(Settlement!vars)
    <3>1. \A o \in OrderIds \ {x} : DebitOf(o)' = DebitOf(o)
      <4>1. ledger_events' = ledger_events \cup {row}
        BY <2>4 DEF Appended
      <4>2. \A o \in OrderIds \ {x} : row.idempotency_key # OrderPaidKey(o)
        BY <2>4, KeysDiffer DEF DebitFor
      <4>. QED  BY <4>1, <4>2 DEF DebitOf, OrderPaidKey
    <3>2. \A o \in OrderIds \ {x} : PayerOf(o)' = PayerOf(o)
      BY <3>1 DEF PayerOf
    <3>3. ~KeyTaken(OrderPaidKey(x)) /\ KeyTaken(OrderPaidKey(x))'
      <4>1. /\ ledger_events' = ledger_events \cup {row}
            /\ row.idempotency_key = OrderPaidKey(x)
            /\ ~KeyTaken(row.idempotency_key)
        BY <2>4 DEF Appended, DebitFor
      <4>. QED  BY <4>1 DEF KeyTaken, OrderPaidKey
    <3>4. PayerOf(x) = NoUser
      BY <1>0, <3>3, PayerFacts
    <3>5. PICK u \in Users : PayerOf(x)' = u
      <4>1. PayerOf(x)' \in Users
        <5>1. (OrdersTypeOK =>
                \A o \in OrderIds :
                   /\ KeyTaken(OrderPaidKey(o)) => PayerOf(o) \in Users
                   /\ ~KeyTaken(OrderPaidKey(o)) => PayerOf(o) = NoUser)'
          BY PayerFacts, PTL
        <5>. QED  BY <1>0, <3>3, <5>1
      <4>. QED  BY <4>1
    <3>6. PhaseOf(x) \in {"open", "void"}
      <4>1. Exists(x) /\ Status(x) # "paid"
        BY <2>4, <3>3 DEF DebitFor, IInv, PaidOrderHasDebit, KeyTaken
      <4>. QED  BY <4>1 DEF PhaseOf
    <3>7. Payer' = [Payer EXCEPT ![x] = u]
      BY <3>2, <3>5
    <3>8. Settlement!Charge(x, u)
      BY <2>1, <3>4, <3>6, <3>7 DEF Settlement!Charge
    <3>. QED  BY <3>8 DEF Settlement!Next
  <2>. QED  BY <1>0, <2>2, <2>3, <2>4 DEF LedgerStep
<1>. QED  BY <1>0, <1>1, <1>2 DEF OneRowMoves

\* The orders service, with its requests in steps, its retries and failures,
\* charges each order at most once and to one payer, settles it only after that,
\* and never brings a void order back.
THEOREM ImplementsSettlement == Spec => SettlementSpec
<1>1. ASSUME IInv, [Next]_vars PROVE [Settlement!Next]_(Settlement!vars)
  BY <1>1, SettlementStep
<1>. QED  BY Invariance, SettlementInit, <1>1, PTL DEF Spec, SettlementSpec, Settlement!Spec

=============================================================================
