--------------------------- MODULE TicketingProofs ---------------------------
(***************************************************************************)
(* Theorems about Ticketing for any number of guests, tickets and requests *)
(* at once, whatever clients send and wherever a handler ends.             *)
(***************************************************************************)
EXTENDS Ticketing, LedgerProofs

USE TicketingAssumption

\* A debit under a purchase's key pays for that purchase.
LEMMA DebitPays ==
    ASSUME DebitsArePurchases', NEW b \in Bodies,
           KeyTaken(PurchaseKey(b.idempotency_key))'
    PROVE  PaidFor(b.idempotency_key, b)'
<1>1. PICK e \in ledger_events' : e.idempotency_key = PurchaseKey(b.idempotency_key)
  BY DEF KeyTaken
<1>2. PICK c \in Bodies : e = Row("ticketing", PurchaseRequest(c))
  BY DEF DebitsArePurchases
<1>3. /\ e.idempotency_key = PurchaseKey(c.idempotency_key)
      /\ e.event_type = "ticket_purchase" /\ e.amount_nc = -c.price_nc
      /\ e.user_id = c.user_id /\ e.venue_id = c.venue_id
  BY <1>2 DEF Row, PurchaseRequest, WriteRequest
<1>4. c.idempotency_key = b.idempotency_key
  BY <1>1, <1>3 DEF PurchaseKey
<1>5. e.amount_nc < 0
  BY <1>3
<1>6. UsedForOnePurchase(b.idempotency_key)' => c = b
  BY <1>4 DEF UsedForOnePurchase
<1>. QED  BY <1>1, <1>3, <1>5, <1>6 DEF PaidFor

\* What is paid for stays so.
LEMMA PaidStays ==
    ASSUME [LedgerAppend]_ledger_events, NEW k, NEW t, PaidFor(k, t)
    PROVE  PaidFor(k, t)'
BY DEF PaidFor, LedgerAppend, UsedForOnePurchase

\* Every step keeps the contract of the ledger.
LEMMA LedgerKept ==
    ASSUME [Next]_vars
    PROVE  [LedgerAppend]_ledger_events
BY WriteEventContract
   DEF Next, vars, PayTicket, IssueTicket, StartValidate, UseTicket, Abandon

\* The ledger gets purchases only.
LEMMA DebitsKept ==
    ASSUME TInv, [Next]_vars
    PROVE  DebitsArePurchases' /\ ledger_events' \subseteq LedgerRow({PurchaseKey(k) : k \in TicketKeys})
<1>1. ASSUME NEW r \in Slots, NEW b \in Bodies, PayTicket(r, b)
      PROVE  DebitsArePurchases' /\ ledger_events' \subseteq LedgerRow({PurchaseKey(k) : k \in TicketKeys})
  <2>1. \/ ledger_events' = ledger_events
        \/ ledger_events' = ledger_events \cup {Row("ticketing", PurchaseRequest(b))}
    BY <1>1, WriteEventAppends DEF PayTicket
  <2>2. -b.price_nc \in Int \ {0}
    OBVIOUS
  <2>3. "ticket_purchase" \in DOMAIN AuthorisedWriters
    BY DEF AuthorisedWriters
  <2>4. Row("ticketing", PurchaseRequest(b)) \in LedgerRow({PurchaseKey(k) : k \in TicketKeys})
    BY <2>2, <2>3 DEF Row, PurchaseRequest, WriteRequest, LedgerRow
  <2>. QED  BY <2>1, <2>4 DEF TInv, TypeOK, DebitsArePurchases
<1>2. CASE ledger_events' = ledger_events
  BY <1>2 DEF TInv, TypeOK, DebitsArePurchases
<1>. QED
  BY <1>1, <1>2 DEF Next, vars, IssueTicket, StartValidate, UseTicket, Abandon

\* What a step does to the rows.
RowsStep ==
    /\ tickets' \in [TicketKeys -> TicketRow \cup {NoTicket}]
    /\ \A k \in TicketKeys :
          \/ tickets'[k] = tickets[k]
          \/ /\ ~Issued(k)
             /\ \E b \in Bodies : /\ tickets'[k] = Ticket(b) /\ b.idempotency_key = k
                                  /\ PaidFor(k, b)
          \/ /\ Issued(k) /\ tickets[k].status = "valid"
             /\ tickets'[k] = [tickets[k] EXCEPT !.status = "used"]

\* A row is inserted by a request that has paid, or a valid one is used.
LEMMA RowsStepped ==
    ASSUME TInv, [Next]_vars
    PROVE  RowsStep
<1>0. tickets \in [TicketKeys -> TicketRow \cup {NoTicket}] /\ slots \in [Slots -> Slot]
  BY DEF TInv, TypeOK
<1>1. ASSUME NEW r \in Slots, IssueTicket(r) PROVE RowsStep
  <2>1. slots[r].pc = "issue" /\ slots[r].body \in Bodies
    BY <1>0, <1>1 DEF IssueTicket, Slot, Idle
  <2>2. PICK b \in Bodies : b = slots[r].body
    BY <2>1
  <2>3. PaidFor(b.idempotency_key, b)
    BY <2>1, <2>2 DEF TInv, SlotsKnow
  <2>4. Ticket(b) \in TicketRow
    BY DEF TicketRow
  <2>. QED  BY <1>0, <1>1, <2>2, <2>3, <2>4 DEF IssueTicket, RowsStep
<1>2. ASSUME NEW r \in Slots, UseTicket(r) PROVE RowsStep
  <2>1. slots[r].pc = "use" /\ slots[r].key \in TicketKeys
    BY <1>0, <1>2 DEF UseTicket, Slot, Idle
  <2>2. PICK k \in TicketKeys : k = slots[r].key
    BY <2>1
  <2>3. Issued(k)
    BY <2>1, <2>2 DEF TInv, SlotsKnow
  <2>4. CASE tickets' = tickets
    BY <1>0, <2>4 DEF RowsStep
  <2>5. CASE /\ tickets[k].status = "valid"
             /\ tickets' = [tickets EXCEPT ![k].status = "used"]
    <3>1. PICK b \in Bodies : tickets[k] = Ticket(b)
      BY <1>0, <2>3, <2>5 DEF Issued, TicketRow, Ticket
    <3>2. [tickets[k] EXCEPT !.status = "used"] \in TicketRow
      BY <3>1 DEF TicketRow
    <3>3. tickets' = [tickets EXCEPT ![k] = [tickets[k] EXCEPT !.status = "used"]]
      BY <2>5
    <3>. QED  BY <1>0, <2>3, <2>5, <3>2, <3>3 DEF RowsStep
  <2>. QED  BY <1>2, <2>2, <2>4, <2>5 DEF UseTicket
<1>3. CASE tickets' = tickets
  BY <1>0, <1>3 DEF RowsStep
<1>. QED
  BY <1>1, <1>2, <1>3 DEF Next, vars, PayTicket, StartValidate, Abandon

\* What is paid for stays so, and what is issued stays issued.
LEMMA TicketsStayPaid ==
    ASSUME TInv, [LedgerAppend]_ledger_events, RowsStep
    PROVE  TicketIsPaid' /\ \A k \in TicketKeys : Issued(k) => Issued(k)'
<1>1. ASSUME NEW k \in TicketKeys
      PROVE  (Issued(k)' => PaidFor(k, tickets[k])') /\ (Issued(k) => Issued(k)')
  <2>1. CASE tickets'[k] = tickets[k]
    <3>1. PICK t : t = tickets[k]
      OBVIOUS
    <3>2. Issued(k) => PaidFor(k, t)'
      BY <3>1, PaidStays DEF TInv, TicketIsPaid
    <3>. QED  BY <2>1, <3>1, <3>2 DEF Issued, PaidFor
  <2>2. ASSUME NEW b \in Bodies, tickets'[k] = Ticket(b), PaidFor(k, b), ~Issued(k)
        PROVE  (Issued(k)' => PaidFor(k, tickets[k])') /\ (Issued(k) => Issued(k)')
    <3>1. PaidFor(k, b)'
      BY <2>2, PaidStays
    <3>2. /\ tickets'[k].user_id = b.user_id /\ tickets'[k].venue_id = b.venue_id
          /\ tickets'[k].price_nc = b.price_nc
      BY <2>2 DEF Ticket
    <3>. QED  BY <2>2, <3>1, <3>2 DEF PaidFor
  <2>3. CASE /\ Issued(k) /\ tickets[k].status = "valid"
             /\ tickets'[k] = [tickets[k] EXCEPT !.status = "used"]
    <3>1. PICK t : t = tickets[k]
      OBVIOUS
    <3>0. tickets[k] \in TicketRow \cup {NoTicket}
      BY DEF TInv, TypeOK
    <3>2. PICK b \in Bodies : t = Ticket(b)
      BY <2>3, <3>0, <3>1 DEF Issued, TicketRow, Ticket
    <3>3. PaidFor(k, t)'
      BY <2>3, <3>1, PaidStays DEF TInv, TicketIsPaid
    <3>4. /\ tickets'[k].user_id = t.user_id /\ tickets'[k].venue_id = t.venue_id
          /\ tickets'[k].price_nc = t.price_nc
      BY <2>3, <3>1, <3>2 DEF Ticket
    <3>5. tickets'[k] \in TicketRow
      BY <2>3, <3>1, <3>2 DEF TicketRow
    <3>. QED  BY <3>3, <3>4, <3>5, NoTicketAssumption DEF PaidFor, Issued
  <2>. QED  BY <2>1, <2>2, <2>3 DEF RowsStep
<1>. QED  BY <1>1 DEF TicketIsPaid

\* What a handler at x may rely on.
Knows(x) ==
    /\ x.pc = "issue" => PaidFor(x.body.idempotency_key, x.body)
    /\ x.pc = "use" => Issued(x.key)

\* A handler has debited before it issues, and found a ticket before it uses it.
LEMMA SlotsKept ==
    ASSUME TInv, [Next]_vars, [LedgerAppend]_ledger_events, DebitsArePurchases',
           \A k \in TicketKeys : Issued(k) => Issued(k)'
    PROVE  slots' \in [Slots -> Slot] /\ SlotsKnow'
<1>0. slots \in [Slots -> Slot] /\ \A r \in Slots : Knows(slots[r])
  BY DEF TInv, TypeOK, SlotsKnow, Knows
<1>1. ASSUME NEW x \in Slot, Knows(x) PROVE Knows(x)'
  <2>1. x.pc = "use" => x.key \in TicketKeys
    BY DEF Slot, Idle
  <2>. QED  BY <1>1, <2>1, PaidStays DEF Knows
<1>2. ASSUME NEW q \in Slots, NEW x \in Slot, Knows(x)', slots' = [slots EXCEPT ![q] = x]
      PROVE  slots' \in [Slots -> Slot] /\ SlotsKnow'
  <2>1. ASSUME NEW r \in Slots PROVE Knows(slots[r])'
    <3>1. PICK y \in Slot : y = slots[r] /\ Knows(y)'
      BY <1>0, <1>1
    <3>2. slots'[r] = x \/ slots'[r] = y
      BY <1>0, <1>2, <3>1
    <3>. QED  BY <1>2, <3>1, <3>2 DEF Knows
  <2>. QED  BY <1>0, <1>2, <2>1 DEF SlotsKnow, Knows
<1>3. ASSUME NEW q \in Slots, slots' = [slots EXCEPT ![q] = Idle]
      PROVE  slots' \in [Slots -> Slot] /\ SlotsKnow'
  <2>1. Idle \in Slot /\ Knows(Idle)'
    BY DEF Idle, Slot, Knows
  <2>. QED  BY <1>2, <1>3, <2>1
<1>4. ASSUME NEW r \in Slots, NEW b \in Bodies, PayTicket(r, b)
      PROVE  slots' \in [Slots -> Slot] /\ SlotsKnow'
  <2>. DEFINE x == [pc |-> "issue", body |-> b]
  <2>1. PurchaseRequest(b).idempotency_key = PurchaseKey(b.idempotency_key)
    BY DEF PurchaseRequest, WriteRequest
  <2>2. KeyTaken(PurchaseKey(b.idempotency_key))'
    BY <1>4, <2>1, AcceptedIsBooked DEF PayTicket
  <2>3. PaidFor(b.idempotency_key, b)'
    BY <2>2, DebitPays
  <2>4. x \in Slot /\ Knows(x)'
    BY <2>3 DEF Slot, Knows
  <2>5. slots' = [slots EXCEPT ![r] = x]
    BY <1>4 DEF PayTicket
  <2>. HIDE DEF x
  <2>. QED  BY <1>2, <2>4, <2>5
<1>5. ASSUME NEW r \in Slots, NEW k \in TicketKeys, StartValidate(r, k)
      PROVE  slots' \in [Slots -> Slot] /\ SlotsKnow'
  <2>. DEFINE x == [pc |-> "use", key |-> k]
  <2>1. x \in Slot /\ Knows(x)'
    BY <1>5 DEF Slot, Knows, StartValidate
  <2>2. slots' = [slots EXCEPT ![r] = x]
    BY <1>5 DEF StartValidate
  <2>. HIDE DEF x
  <2>. QED  BY <1>2, <2>1, <2>2
<1>6. CASE UNCHANGED vars
  <2>1. ASSUME NEW r \in Slots PROVE Knows(slots[r])'
    <3>1. PICK y \in Slot : y = slots[r] /\ Knows(y)'
      BY <1>0, <1>1
    <3>. QED  BY <1>6, <3>1 DEF vars, Knows
  <2>. QED  BY <1>0, <1>6, <2>1 DEF vars, SlotsKnow, Knows
<1>. QED
  BY <1>3, <1>4, <1>5, <1>6 DEF Next, IssueTicket, UseTicket, Abandon

\* Whoever is let in uses the ticket up.
LEMMA AdmissionKept ==
    ASSUME TInv, [Next]_vars, RowsStep, \A k \in TicketKeys : Issued(k) => Issued(k)'
    PROVE  AdmitsOnce' /\ admitted' \in [TicketKeys -> Nat]
<1>0. /\ tickets \in [TicketKeys -> TicketRow \cup {NoTicket}] /\ slots \in [Slots -> Slot]
      /\ admitted \in [TicketKeys -> Nat]
  BY DEF TInv, TypeOK
<1>1. ASSUME NEW k \in TicketKeys, Issued(k), tickets[k].status = "used"
      PROVE  tickets'[k].status = "used"
  <2>1. CASE tickets'[k] = tickets[k]
    BY <1>1, <2>1
  <2>. QED  BY <1>1, <2>1 DEF RowsStep
<1>2. CASE admitted' = admitted
  BY <1>0, <1>1, <1>2 DEF TInv, AdmitsOnce
<1>3. ASSUME NEW r \in Slots, NEW k \in TicketKeys, k = slots[r].key, Issued(k),
             tickets[k].status = "valid",
             tickets' = [tickets EXCEPT ![k].status = "used"],
             admitted' = [admitted EXCEPT ![k] = @ + 1]
      PROVE  AdmitsOnce' /\ admitted' \in [TicketKeys -> Nat]
  <2>1. admitted[k] = 0
    <3>1. admitted[k] <= 1 /\ admitted[k] # 1
      BY <1>3 DEF TInv, AdmitsOnce
    <3>. QED  BY <1>0, <3>1
  <2>2. PICK b \in Bodies : tickets[k] = Ticket(b)
    BY <1>0, <1>3 DEF Issued, TicketRow, Ticket
  <2>3. tickets'[k].status = "used"
    BY <1>0, <1>3, <2>2 DEF Ticket
  <2>4. /\ admitted'[k] = 1
        /\ \A j \in TicketKeys \ {k} : admitted'[j] = admitted[j]
        /\ admitted' \in [TicketKeys -> Nat]
    BY <1>0, <1>3, <2>1
  <2>5. ASSUME NEW j \in TicketKeys
        PROVE  /\ admitted'[j] <= 1
               /\ admitted'[j] = 1 => Issued(j)' /\ tickets'[j].status = "used"
    <3>1. CASE j = k
      BY <1>3, <2>3, <2>4, <3>1
    <3>2. CASE j # k
      BY <1>1, <2>4, <3>2 DEF TInv, AdmitsOnce
    <3>. QED  BY <3>1, <3>2
  <2>. QED  BY <2>4, <2>5 DEF AdmitsOnce
<1>4. ASSUME NEW r \in Slots, UseTicket(r), admitted' # admitted
      PROVE  AdmitsOnce' /\ admitted' \in [TicketKeys -> Nat]
  <2>1. slots[r].pc = "use" /\ slots[r].key \in TicketKeys
    BY <1>0, <1>4 DEF UseTicket, Slot, Idle
  <2>2. Issued(slots[r].key)
    BY <2>1 DEF TInv, SlotsKnow
  <2>. QED  BY <1>3, <1>4, <2>1, <2>2 DEF UseTicket
<1>. QED
  BY <1>2, <1>4 DEF Next, vars, PayTicket, IssueTicket, StartValidate, Abandon

-----------------------------------------------------------------------------
\* The theorems

\* The inductive invariant of the ticketing service holds for any number of
\* guests, tickets and requests at once.
THEOREM TicketingInvariance == Spec => []TInv
<1>1. Init => TInv
  BY NoTicketAssumption
     DEF Init, TInv, TypeOK, UniqueIdempotencyKey, DebitsArePurchases, SlotsKnow,
         TicketIsPaid, AdmitsOnce, Issued, Slot, Idle
<1>2. TInv /\ [Next]_vars => TInv'
  <2>. SUFFICES ASSUME TInv, [Next]_vars PROVE TInv'
    OBVIOUS
  <2>1. [LedgerAppend]_ledger_events
    BY LedgerKept
  <2>2. UniqueIdempotencyKey'
    BY <2>1, ContractKeepsKeysUnique DEF TInv
  <2>3. DebitsArePurchases' /\ ledger_events' \subseteq LedgerRow({PurchaseKey(k) : k \in TicketKeys})
    BY DebitsKept
  <2>4. RowsStep
    BY RowsStepped
  <2>5. TicketIsPaid' /\ \A k \in TicketKeys : Issued(k) => Issued(k)'
    BY <2>1, <2>4, TicketsStayPaid
  <2>6. slots' \in [Slots -> Slot] /\ SlotsKnow'
    BY <2>1, <2>3, <2>5, SlotsKept
  <2>7. AdmitsOnce' /\ admitted' \in [TicketKeys -> Nat]
    BY <2>4, <2>5, AdmissionKept
  <2>. QED  BY <2>2, <2>3, <2>4, <2>5, <2>6, <2>7 DEF TInv, TypeOK, RowsStep
<1>. QED  BY <1>1, <1>2, PTL DEF Spec

\* Every ticket is paid: PurchaseTicket issues nothing without a debit.
THEOREM TicketsArePaid == Spec => []TicketIsPaid
<1>1. TInv => TicketIsPaid
  BY DEF TInv
<1>. QED  BY <1>1, TicketingInvariance, PTL

\* No ticket admits twice, although ValidateTicket reads before it updates.
THEOREM TicketsAdmitOnce == Spec => []AdmitsOnce
<1>1. TInv => AdmitsOnce
  BY DEF TInv
<1>. QED  BY <1>1, TicketingInvariance, PTL

\* Rows of ticketing.tickets are written once and used once.
THEOREM TicketsMoveForward == Spec => TicketLifecycle
<1>1. TInv /\ [Next]_vars =>
        [\A k \in TicketKeys : Issued(k) =>
            \/ tickets'[k] = tickets[k]
            \/ /\ tickets[k].status = "valid"
               /\ tickets'[k] = [tickets[k] EXCEPT !.status = "used"]]_tickets
  BY RowsStepped DEF RowsStep
<1>. QED  BY <1>1, TicketingInvariance, PTL DEF Spec, TicketLifecycle

\* The ticketing service keeps the contract of the ledger.
THEOREM TicketingLedgerIsAppendOnly == Spec => LedgerContract
<1>1. [Next]_vars => [LedgerAppend]_ledger_events
  BY LedgerKept
<1>. QED  BY <1>1, PTL DEF Spec, LedgerContract

=============================================================================
