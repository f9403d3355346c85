------------------------------ MODULE Ticketing ------------------------------
(***************************************************************************)
(* The ticketing service: a purchase debits the ledger and then issues the *)
(* ticket, a validation reads the ticket and then uses it, each in two     *)
(* calls with nothing around them.                                         *)
(*                                                                         *)
(* A ticket is known by the idempotency key of its purchase, which the     *)
(* table keeps unique; its id and its random QR code stand for the same    *)
(* row.  Requests that are refused before the first call change nothing.   *)
(***************************************************************************)
EXTENDS Ledger

CONSTANTS
    TicketKeys,  \* idempotency keys of clients
    Bodies,      \* bodies of POST /tickets that clients send
    BadEvent,    \* an event_id that is not a uuid
    NoTicket,    \* there is no row
    Slots        \* goroutines of the handlers

ASSUME TicketingAssumption ==
    \A b \in Bodies : /\ b.idempotency_key \in TicketKeys
                      /\ b.user_id \in Users /\ b.venue_id \in Venues
                      /\ b.price_nc \in Nat \ {0}

VARIABLES
    tickets,   \* rows of ticketing.tickets, by idempotency key
    slots,     \* requests in progress
    admitted   \* validations answered 200, by ticket

vars == <<ledger_events, tickets, slots, admitted>>

PurchaseKey(k) == <<"ticketing", k>>

Ticket(b) ==
    [user_id |-> b.user_id, event_id |-> b.event_id, venue_id |-> b.venue_id,
     price_nc |-> b.price_nc, status |-> "valid"]

TicketRow ==
    {Ticket(b) : b \in Bodies} \cup {[Ticket(b) EXCEPT !.status = "used"] : b \in Bodies}

ASSUME NoTicketAssumption == NoTicket \notin TicketRow

Issued(k) == tickets[k] # NoTicket
Idle == [pc |-> "idle"]

Init ==
    /\ ledger_events = {}
    /\ tickets = [k \in TicketKeys |-> NoTicket]
    /\ slots = [r \in Slots |-> Idle]
    /\ admitted = [k \in TicketKeys |-> 0]

-----------------------------------------------------------------------------
\* POST /tickets

PurchaseRequest(b) ==
    WriteRequest("ticket_purchase", b.user_id, b.venue_id, -b.price_nc,
                 IF b.event_id = BadEvent THEN "text" ELSE "uuid",
                 PurchaseKey(b.idempotency_key))

\* Variant: an answer other than 200 is taken for one.
PayTicketUnchecked(r, b) ==
    /\ slots[r] = Idle
    /\ WriteEvent("ticketing", PurchaseRequest(b))
    /\ slots' = [slots EXCEPT ![r] = [pc |-> "issue", body |-> b]]
    /\ UNCHANGED <<tickets, admitted>>

\* writeLedgerEventSync.  The balance is not looked at.
PayTicket(r, b) ==
    /\ slots[r] = Idle
    /\ WriteEvent("ticketing", PurchaseRequest(b))
    /\ Accepts("ticketing", PurchaseRequest(b))
    /\ slots' = [slots EXCEPT ![r] = [pc |-> "issue", body |-> b]]
    /\ UNCHANGED <<tickets, admitted>>

\* Variant: the conflicting row is overwritten.
IssueTicketOverwriting(r) ==
    LET b == slots[r].body IN
    /\ slots[r].pc = "issue"
    /\ tickets' = [tickets EXCEPT ![b.idempotency_key] = Ticket(b)]
    /\ slots' = [slots EXCEPT ![r] = Idle]
    /\ UNCHANGED <<ledger_events, admitted>>

\* INSERT ... ON CONFLICT, which returns the row that is there, and the 201.
IssueTicket(r) ==
    LET b == slots[r].body
        k == b.idempotency_key
    IN  /\ slots[r].pc = "issue"
        /\ \/ Issued(k) /\ UNCHANGED tickets
           \/ ~Issued(k) /\ tickets' = [tickets EXCEPT ![k] = Ticket(b)]
        /\ slots' = [slots EXCEPT ![r] = Idle]
        /\ UNCHANGED <<ledger_events, admitted>>

-----------------------------------------------------------------------------
\* POST /tickets/validate

\* GetTicketByQR; only a valid ticket gets past it.
StartValidate(r, k) ==
    /\ slots[r] = Idle
    /\ Issued(k) /\ tickets[k].status = "valid"
    /\ slots' = [slots EXCEPT ![r] = [pc |-> "use", key |-> k]]
    /\ UNCHANGED <<ledger_events, tickets, admitted>>

\* Variant: the UPDATE relies on the status read before.
UseTicketUnguarded(r) ==
    LET k == slots[r].key IN
    /\ slots[r].pc = "use"
    /\ tickets' = [tickets EXCEPT ![k].status = "used"]
    /\ admitted' = [admitted EXCEPT ![k] = @ + 1]
    /\ slots' = [slots EXCEPT ![r] = Idle]
    /\ UNCHANGED ledger_events

\* The UPDATE of a valid row, and the 200, which may get lost.  For a row that
\* is not valid any more the answer is an error.
UseTicket(r) ==
    LET k == slots[r].key IN
    /\ slots[r].pc = "use"
    /\ \/ /\ tickets[k].status = "valid"
          /\ tickets' = [tickets EXCEPT ![k].status = "used"]
          /\ \/ admitted' = [admitted EXCEPT ![k] = @ + 1]
             \/ UNCHANGED admitted
       \/ /\ tickets[k].status = "used"
          /\ UNCHANGED <<tickets, admitted>>
    /\ slots' = [slots EXCEPT ![r] = Idle]
    /\ UNCHANGED ledger_events

\* A handler ends between its calls, or does not get the answer of the first.
Abandon(r) ==
    /\ slots[r] # Idle
    /\ slots' = [slots EXCEPT ![r] = Idle]
    /\ UNCHANGED <<ledger_events, tickets, admitted>>

Next ==
    \E r \in Slots :
        \/ \E b \in Bodies : PayTicket(r, b)
        \/ IssueTicket(r)
        \/ \E k \in TicketKeys : StartValidate(r, k)
        \/ UseTicket(r)
        \/ Abandon(r)

Spec == Init /\ [][Next]_vars

-----------------------------------------------------------------------------
\* Properties

Slot == {Idle} \cup [pc : {"issue"}, body : Bodies] \cup [pc : {"use"}, key : TicketKeys]

TypeOK ==
    /\ ledger_events \subseteq LedgerRow({PurchaseKey(k) : k \in TicketKeys})
    /\ tickets \in [TicketKeys -> TicketRow \cup {NoTicket}]
    /\ slots \in [Slots -> Slot]
    /\ admitted \in [TicketKeys -> Nat]

\* A client that sends one purchase under a key.
UsedForOnePurchase(k) ==
    \A b, c \in Bodies : b.idempotency_key = k /\ c.idempotency_key = k => b = c

\* What a row or a request in progress relies on: the ledger was debited under
\* the key and, if the key stands for one purchase, for that one.
PaidFor(k, t) ==
    \E e \in ledger_events :
        /\ e.idempotency_key = PurchaseKey(k)
        /\ e.event_type = "ticket_purchase" /\ e.amount_nc < 0
        /\ UsedForOnePurchase(k) =>
              /\ <<e.user_id, e.venue_id>> = <<t.user_id, t.venue_id>>
              /\ e.amount_nc = -t.price_nc

\* "If the ledger write fails, no ticket is issued" (Product Explained.MD): every
\* ticket has its debit on the ledger, of its guest, at its venue and of its
\* price, however purchases are retried, cut off and run side by side.
TicketIsPaid == \A k \in TicketKeys : Issued(k) => PaidFor(k, tickets[k])

\* A ticket lets one guest in, however many validations read it as valid, and
\* nobody gets in on a ticket that is not used up by it.
AdmitsOnce ==
    \A k \in TicketKeys :
        /\ admitted[k] <= 1
        /\ admitted[k] = 1 => Issued(k) /\ tickets[k].status = "used"

\* What a ticket says never changes, and a used one is never valid again.
TicketLifecycle ==
    [][\A k \in TicketKeys : Issued(k) =>
          \/ tickets'[k] = tickets[k]
          \/ /\ tickets[k].status = "valid"
             /\ tickets'[k] = [tickets[k] EXCEPT !.status = "used"]]_tickets

-----------------------------------------------------------------------------
\* The inductive invariant of TicketingProofs

\* The ledger holds purchases only, each sent by a client under its key.
DebitsArePurchases ==
    \A e \in ledger_events : \E b \in Bodies :
        e = Row("ticketing", PurchaseRequest(b))

\* A handler that is about to issue has debited, one that is about to use has
\* found a ticket.
SlotsKnow ==
    \A r \in Slots :
        /\ slots[r].pc = "issue" => PaidFor(slots[r].body.idempotency_key, slots[r].body)
        /\ slots[r].pc = "use" => Issued(slots[r].key)

\* The invariant every step preserves.
TInv ==
    /\ TypeOK
    /\ UniqueIdempotencyKey
    /\ DebitsArePurchases
    /\ SlotsKnow
    /\ TicketIsPaid
    /\ AdmitsOnce

=============================================================================
