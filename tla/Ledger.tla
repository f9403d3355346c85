------------------------------- MODULE Ledger -------------------------------
(***************************************************************************)
(* The cloud ledger service: the table ledger.ledger_events, the handler   *)
(* of POST /events that every other service writes it through, and the two *)
(* balance projections.  A component that uses the ledger EXTENDS this     *)
(* module and makes WriteEvent part of its own actions.                    *)
(*                                                                         *)
(* A row's event_id is a fresh uuid and every idempotency key has one row, *)
(* so the key stands for the id.  Timestamps, device_id, amount_chf and    *)
(* metadata decide nothing here and are left out.                          *)
(***************************************************************************)
EXTENDS Integers, FiniteSetsExt

CONSTANTS
    Users,    \* user ids
    NoUser,   \* the empty user_id of a request
    Venues,   \* venue ids
    NoVenue   \* NULL venue_id

ASSUME LedgerAssumption == NoUser \notin Users /\ NoVenue \notin Venues

VARIABLE ledger_events   \* the rows of ledger.ledger_events

-----------------------------------------------------------------------------

\* The one service that may write each event type.
AuthorisedWriters ==
    [topup_pending   |-> "payments",
     topup_confirmed |-> "payments",
     order_paid      |-> "orders",
     refund_created  |-> "payments",
     bonus_credit    |-> "payments",
     ticket_purchase |-> "ticketing",
     venue_checkin   |-> "sessions",
     session_closed  |-> "sessions",
     merge_anonymous |-> "profiles"]

\* Variant: the session events are forgotten.
BalanceExcludedPending == {"topup_pending"}

BalanceExcluded == {"topup_pending", "venue_checkin", "session_closed"}

\* The body of POST /events.  reference_id is kept only as far as the INSERT
\* cares: absent, a uuid, or text that its ::uuid cast refuses.
WriteRequest(event_type, user_id, venue_id, amount_nc, reference_id, key) ==
    [event_type |-> event_type, user_id |-> user_id, venue_id |-> venue_id,
     amount_nc |-> amount_nc, reference_id |-> reference_id,
     idempotency_key |-> key]

Validate(req) ==
    /\ req.event_type \in DOMAIN AuthorisedWriters
    /\ req.user_id # NoUser
    /\ req.amount_nc # 0

\* Variant: the write authority is not checked.
AcceptsAnyCaller(caller, req) == Validate(req) /\ req.reference_id # "text"

\* What WriteEvent checks before and while inserting: the body, the caller named
\* in X-Internal-Service, and the casts in the INSERT statement.
Accepts(caller, req) ==
    /\ Validate(req)
    /\ AuthorisedWriters[req.event_type] = caller
    /\ req.reference_id # "text"

KeyTaken(key) == \E e \in ledger_events : e.idempotency_key = key

Row(caller, req) ==
    [event_type |-> req.event_type, user_id |-> req.user_id,
     venue_id |-> req.venue_id, amount_nc |-> req.amount_nc,
     idempotency_key |-> req.idempotency_key, written_by |-> caller]

\* Variant: the conflicting row is overwritten.
InsertEventOverwriting(caller, req) ==
    ledger_events' =
        {e \in ledger_events : e.idempotency_key # req.idempotency_key}
            \cup {Row(caller, req)}

\* Variant: the INSERT has no ON CONFLICT clause and the column no constraint.
InsertEventTwice(caller, req) ==
    ledger_events' = ledger_events \cup {Row(caller, req)}

\* INSERT ... ON CONFLICT (idempotency_key) DO UPDATE, a no-op that returns the
\* row already there.
InsertEvent(caller, req) ==
    \/ /\ KeyTaken(req.idempotency_key)
       /\ UNCHANGED ledger_events
    \/ /\ ~KeyTaken(req.idempotency_key)
       /\ ledger_events' = ledger_events \cup {Row(caller, req)}

\* POST /events.  The caller is told 200 exactly when Accepts(caller, req).
WriteEvent(caller, req) ==
    \/ Accepts(caller, req) /\ InsertEvent(caller, req)
    \/ ~Accepts(caller, req) /\ UNCHANGED ledger_events

\* The event a caller is handed back for the key it wrote under.
EventOf(key) == CHOOSE e \in ledger_events : e.idempotency_key = key

-----------------------------------------------------------------------------

SumOfAmounts(events) ==
    SumFunctionOnSet([e \in events |-> e.amount_nc], events)

Spendable(user) ==
    {e \in ledger_events : e.user_id = user /\ e.event_type \notin BalanceExcluded}

\* GET /balance/{user_id}
GlobalBalance(user) == SumOfAmounts(Spendable(user))

\* GET /balance/{user_id}/venue/{venue_id}: what was booked at other venues is
\* not counted.
VenueBalance(user, venue) ==
    SumOfAmounts({e \in Spendable(user) : e.venue_id \in {venue, NoVenue}})

-----------------------------------------------------------------------------

LedgerRow(Keys) ==
    [event_type : DOMAIN AuthorisedWriters, user_id : Users,
     venue_id : Venues \cup {NoVenue}, amount_nc : Int \ {0},
     idempotency_key : Keys, written_by : {"payments", "orders", "ticketing",
                                           "sessions", "profiles"}]

\* No two rows share an idempotency key: a retried or concurrent POST /events
\* is booked once (the UNIQUE constraint and the ON CONFLICT clause).
UniqueIdempotencyKey ==
    \A e, f \in ledger_events :
        e.idempotency_key = f.idempotency_key => e = f

\* What a step of any component may do to the ledger: append one row under a
\* fresh key, written by the service its event type belongs to.  No row is ever
\* changed or removed.
LedgerAppend ==
    \E e \in ledger_events' :
        /\ ledger_events' = ledger_events \cup {e}
        /\ ~KeyTaken(e.idempotency_key)
        /\ AuthorisedWriters[e.event_type] = e.written_by
        /\ e.amount_nc # 0

LedgerContract == [][LedgerAppend]_ledger_events

\* NC comes into existence only through the payments service: every spendable
\* credit on the ledger was written by payments.
OnlyPaymentsMints ==
    \A e \in ledger_events :
        e.amount_nc > 0 /\ e.event_type \notin BalanceExcluded
            => e.written_by = "payments"

\* No user is in the red.
NoOverdraft == \A u \in Users : GlobalBalance(u) >= 0

=============================================================================
