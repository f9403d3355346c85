------------------------------ MODULE Payments ------------------------------
(***************************************************************************)
(* The payments service between its payment providers and the cloud        *)
(* ledger: POST /topup/intent, the webhooks, and the two ledger events.    *)
(* Stripe delivers its webhook at least once, in any order and             *)
(* concurrently, until one is answered 200.  The mock provider, which is   *)
(* always there, has no payments: POST /topup/webhook/mock checks no       *)
(* signature, so it may come at any time and name any intent.              *)
(* Amounts of francs are counted in Rappen.                                *)
(*                                                                         *)
(* A row of payments.topups is identified by its idempotency key, of which *)
(* the table has one row, and an intent of Stripe by the order of          *)
(* creation.  A row's provider column is told by its intent.               *)
(***************************************************************************)
EXTENDS Ledger, Sequences

CONSTANTS
    TopupKeys,   \* idempotency keys the clients send
    NoTopup,     \* the row that does not exist
    Amounts,     \* amounts clients ask for, in Rappen
    Charged,     \* what int64(chf * 100) makes of them
    MaxIntents,  \* bound on the intents the provider creates
    MaxFaults,   \* bound on the requests that fail half way
    MaxPending,  \* bound on the goroutines that write topup_pending at once
    Offered,     \* providers that clients ask for
    MockIds,     \* intent ids of the mock provider
    MockId,      \* the one it makes of a user id and an idempotency key
    KeysExpire,  \* TRUE: the provider forgets its own idempotency keys
    Slots,       \* goroutines of POST /topup/intent
    Hooks        \* goroutines of the webhook

ASSUME PaymentsAssumption ==
    /\ Amounts \subseteq Nat \ {0}
    /\ MaxIntents \in Nat /\ MaxFaults \in Nat /\ MaxPending \in Nat
    /\ KeysExpire \in BOOLEAN
    /\ Offered \subseteq {"stripe", "mock"}

\* An id of the mock provider is made of prefixes of the user id and of the key:
\* different requests may get the same one.
ASSUME MockAssumption ==
    /\ MockIds \cap Nat = {}
    /\ MockId \in [Users \X TopupKeys -> MockIds]

\* In binary floating point chf * 100 may come out just below the Rappen, never
\* for whole francs.
ASSUME ChargedAssumption ==
    \A a \in Amounts :
        Charged[a] \in (IF a % 100 = 0 THEN {a} ELSE {a - 1, a})

ConfirmedKey(k) == <<"topup_confirmed", k>>
PendingKey(k)   == <<"topup_pending", k>>

\* Variant: francs are rounded up.
CHFToNCRoundedUp(chf) == (chf + 99) \div 100

\* int(chf)
CHFToNC(chf) == chf \div 100

IntentIds == (1 .. MaxIntents) \cup MockIds

TopupRow ==
    [user_id : Users, amount_chf : Amounts, amount_nc : Nat,
     provider_intent_id : IntentIds, status : {"pending", "confirmed"}]

ASSUME NoTopupAssumption == NoTopup \notin TopupRow

VARIABLES
    topups,   \* rows of payments.topups
    intents,  \* Stripe: the payment intents, in order of creation
    slots,    \* requests of POST /topup/intent in progress
    hooks,    \* webhook requests in progress
    pending,  \* goroutines that write topup_pending
    faults,   \* webhook requests that failed half way
    mocked    \* history, not in the code: rows that the mock webhook confirmed

pay_vars == <<topups, intents, slots, hooks, pending, faults, mocked>>
vars == <<ledger_events, pay_vars>>

Free == [pc |-> "idle", key |-> NoTopup, user |-> NoUser, chf |-> 0, intent |-> 0]
Quiet == [pc |-> "idle", via |-> "stripe", intent |-> 0, key |-> NoTopup]

Exists(k) == topups[k] # NoTopup
Intents == DOMAIN intents

Init ==
    /\ ledger_events = {}
    /\ topups = [k \in TopupKeys |-> NoTopup]
    /\ intents = <<>>
    /\ slots = [r \in Slots |-> Free]
    /\ hooks = [h \in Hooks |-> Quiet]
    /\ pending = {}
    /\ faults = 0
    /\ mocked = {}

-----------------------------------------------------------------------------
\* Stripe

\* What Stripe makes of a request: the intent it already has for the key,
\* or a new one.  The key with other parameters is an error.
SameRequest(i, k, u, a) ==
    /\ intents[i].key = k /\ intents[i].remembered
    /\ intents[i].user_id = u /\ intents[i].amount = Charged[a]

KeyKnown(k) == \E i \in Intents : intents[i].key = k /\ intents[i].remembered

NewIntent(k, u, a) ==
    [key |-> k, user_id |-> u, amount |-> Charged[a], remembered |-> TRUE,
     shown |-> FALSE, status |-> "open", acked |-> FALSE]

\* The card is refused; the customer may try again.
Decline(i) ==
    /\ intents[i].shown /\ intents[i].status = "open"
    /\ intents' = [intents EXCEPT ![i].status = "declined"]
    /\ UNCHANGED <<ledger_events, topups, slots, hooks, pending, faults, mocked>>

\* The customer pays an intent whose client secret the app was given.
Pay(i) ==
    /\ intents[i].shown /\ intents[i].status \in {"open", "declined"}
    /\ intents' = [intents EXCEPT ![i].status = "succeeded"]
    /\ UNCHANGED <<ledger_events, topups, slots, hooks, pending, faults, mocked>>

\* A day has passed.
ForgetKey(i) ==
    /\ KeysExpire
    /\ intents[i].remembered
    /\ intents' = [intents EXCEPT ![i].remembered = FALSE]
    /\ UNCHANGED <<ledger_events, topups, slots, hooks, pending, faults, mocked>>

-----------------------------------------------------------------------------
\* POST /topup/intent

\* The handler goes on with intent i, and go writeLedgerEvent(topup_pending).
HoldIntent(r, k, u, a, i) ==
    /\ slots[r].pc = "idle"
    /\ slots' = [slots EXCEPT ![r] =
          [pc |-> "store", key |-> k, user |-> u, chf |-> a, intent |-> i]]
    /\ pending' = pending \cup {[key |-> k, user |-> u, nc |-> CHFToNC(a)]}
    /\ Cardinality(pending') <= MaxPending

\* provider = "stripe", or none: the call to Stripe.
CreateIntent(r, k, u, a) ==
    /\ "stripe" \in Offered
    /\ \E i \in 1 .. MaxIntents :
          /\ \/ i \in Intents /\ SameRequest(i, k, u, a) /\ UNCHANGED intents
             \/ /\ i = Len(intents) + 1 /\ ~KeyKnown(k)
                /\ intents' = Append(intents, NewIntent(k, u, a))
          /\ HoldIntent(r, k, u, a, i)
    /\ UNCHANGED <<ledger_events, topups, hooks, faults, mocked>>

\* provider = "mock".
CreateMockIntent(r, k, u, a) ==
    /\ "mock" \in Offered
    /\ HoldIntent(r, k, u, a, MockId[<<u, k>>])
    /\ UNCHANGED <<ledger_events, topups, intents, hooks, faults, mocked>>

\* Variant: the conflicting row takes the values of the new request.
InsertTopupOverwriting(s) ==
    topups' = [topups EXCEPT ![s.key] =
        [user_id |-> s.user, amount_chf |-> s.chf, amount_nc |-> CHFToNC(s.chf),
         provider_intent_id |-> s.intent,
         status |-> IF @ = NoTopup THEN "pending" ELSE @.status]]

\* INSERT ... ON CONFLICT (idempotency_key) DO UPDATE, a no-op that returns the
\* row already there.
InsertTopup(s) ==
    \/ Exists(s.key) /\ UNCHANGED topups
    \/ /\ ~Exists(s.key)
       /\ topups' = [topups EXCEPT ![s.key] =
             [user_id |-> s.user, amount_chf |-> s.chf, amount_nc |-> CHFToNC(s.chf),
              provider_intent_id |-> s.intent, status |-> "pending"]]

\* CreateTopup and the 201: the caller is given the client secret of the intent
\* just obtained from the provider, whatever row came back.
CreateTopup(r) ==
    /\ slots[r].pc = "store"
    /\ InsertTopup(slots[r])
    /\ intents' = IF slots[r].intent \in Intents
                     THEN [intents EXCEPT ![slots[r].intent].shown = TRUE] ELSE intents
    /\ slots' = [slots EXCEPT ![r] = Free]
    /\ UNCHANGED <<ledger_events, hooks, pending, faults, mocked>>

\* The INSERT failed, or the process died before it.
AbandonIntent(r) ==
    /\ slots[r].pc = "store"
    /\ slots' = [slots EXCEPT ![r] = Free]
    /\ UNCHANGED <<ledger_events, topups, intents, hooks, pending, faults, mocked>>

\* The informational event.  Its reference_id is the provider's id, which is not
\* a uuid.
PendingRequest(p) ==
    WriteRequest("topup_pending", p.user, NoVenue, p.nc, "text", PendingKey(p.key))

PostPending(p) ==
    /\ p \in pending
    /\ pending' = pending \ {p}
    /\ WriteEvent("payments", PendingRequest(p))
    /\ UNCHANGED <<topups, intents, slots, hooks, faults, mocked>>

-----------------------------------------------------------------------------
\* The webhooks

\* The event types an intent of Stripe has given rise to.
EventsOf(i) ==
    CASE intents[i].status = "open"      -> {}
      [] intents[i].status = "declined"  -> {"payment_intent.payment_failed"}
      [] intents[i].status = "succeeded" -> {"payment_intent.succeeded"}

\* Variant: every event of an intent is taken for a success.
IsSuccessAny(type) == TRUE

IsSuccess(type) == type = "payment_intent.succeeded"

\* Stripe is answered 200.  Nobody retries a mock webhook.
Ack(h) ==
    intents' = IF hooks[h].via = "stripe"
                 THEN [intents EXCEPT ![hooks[h].intent].acked = TRUE] ELSE intents

HookAt(h, via, pc, i, k) ==
    hooks' = [hooks EXCEPT ![h] = [pc |-> pc, via |-> via, intent |-> i, key |-> k]]
HookDone(h) == hooks' = [hooks EXCEPT ![h] = Quiet]

OfIntent(i) == {k \in TopupKeys : Exists(k) /\ topups[k].provider_intent_id = i}
Waiting(i)  == {k \in OfIntent(i) : topups[k].status = "pending"}

\* The UPDATE of ConfirmTopup: pending rows of the intent, whatever their
\* provider, become confirmed, and one of them is returned.
ConfirmTopup(h, via, i) ==
    \/ /\ Waiting(i) # {}
       /\ topups' = [k \in TopupKeys |-> IF k \in Waiting(i)
                         THEN [topups[k] EXCEPT !.status = "confirmed"]
                         ELSE topups[k]]
       /\ \E k \in Waiting(i) : HookAt(h, via, "credit", i, k)
    \/ /\ Waiting(i) = {}
       /\ HookAt(h, via, "lookup", i, NoTopup)
       /\ UNCHANGED topups

\* POST /topup/webhook/stripe: the signature is Stripe's, so the event is one of
\* the intent; other events than a success are answered 200 and change nothing.
ReceiveWebhook(h, i) ==
    /\ hooks[h].pc = "idle"
    /\ \E type \in EventsOf(i) : IsSuccess(type)
    /\ ConfirmTopup(h, "stripe", i)
    /\ UNCHANGED <<ledger_events, intents, slots, pending, faults, mocked>>

\* POST /topup/webhook/mock: the body says which intent has succeeded, be it paid
\* or not and Stripe's or the mock provider's.
ReceiveMockWebhook(h, i) ==
    /\ hooks[h].pc = "idle"
    /\ ConfirmTopup(h, "mock", i)
    /\ mocked' = mocked \cup Waiting(i)
    /\ UNCHANGED <<ledger_events, intents, slots, pending, faults>>

\* GetTopupByIntentID: without a row, or with one that is not confirmed, the
\* answer is 200 and nothing is written.
LookupTopup(h) ==
    LET i == hooks[h].intent IN
    /\ hooks[h].pc = "lookup"
    /\ \/ \E k \in OfIntent(i) :
             \/ /\ topups[k].status = "confirmed"
                /\ HookAt(h, hooks[h].via, "credit", i, k)
                /\ UNCHANGED intents
             \/ topups[k].status # "confirmed" /\ HookDone(h) /\ Ack(h)
       \/ OfIntent(i) = {} /\ HookDone(h) /\ Ack(h)
    /\ UNCHANGED <<ledger_events, topups, slots, pending, faults, mocked>>

\* Variant: the key names the delivery, not the top-up.
CreditRequestPerHook(h, k) ==
    WriteRequest("topup_confirmed", topups[k].user_id, NoVenue, topups[k].amount_nc,
                 "uuid", <<"topup_confirmed", h>>)

CreditRequest(h, k) ==
    WriteRequest("topup_confirmed", topups[k].user_id, NoVenue, topups[k].amount_nc,
                 "uuid", ConfirmedKey(k))

\* writeLedgerEventSync, as far as the ledger's answer.
PostCredit(h) ==
    /\ hooks[h].pc = "credit"
    /\ WriteEvent("payments", CreditRequest(h, hooks[h].key))
    /\ HookDone(h)
    /\ UNCHANGED <<topups, slots, pending, mocked>>

\* 200 when the ledger says 200, 500 otherwise.
CreditTopup(h) ==
    /\ PostCredit(h)
    /\ \/ Accepts("payments", CreditRequest(h, hooks[h].key)) /\ Ack(h)
       \/ /\ ~Accepts("payments", CreditRequest(h, hooks[h].key))
          /\ UNCHANGED intents
    /\ UNCHANGED faults

\* The ledger has written, and its answer is lost: 500.
LoseCreditAnswer(h) ==
    /\ faults < MaxFaults /\ faults' = faults + 1
    /\ PostCredit(h)
    /\ UNCHANGED intents

\* Variant: the webhook is answered 200 whatever happened.
FailWebhookAcked(h) ==
    /\ hooks[h].pc # "idle"
    /\ faults < MaxFaults /\ faults' = faults + 1
    /\ Ack(h)
    /\ HookDone(h)
    /\ UNCHANGED <<ledger_events, topups, slots, pending, mocked>>

\* The database fails, the ledger is not reached, or the process dies: the caller
\* sees a 500 or nothing at all.
FailWebhook(h) ==
    /\ hooks[h].pc # "idle"
    /\ faults < MaxFaults /\ faults' = faults + 1
    /\ HookDone(h)
    /\ UNCHANGED <<ledger_events, topups, intents, slots, pending, mocked>>

Next ==
    \/ \E i \in Intents : Decline(i) \/ Pay(i) \/ ForgetKey(i)
    \/ \E r \in Slots :
          \/ \E k \in TopupKeys, u \in Users, a \in Amounts :
                CreateIntent(r, k, u, a) \/ CreateMockIntent(r, k, u, a)
          \/ CreateTopup(r)
          \/ AbandonIntent(r)
    \/ \E p \in pending : PostPending(p)
    \/ \E h \in Hooks :
          \/ \E i \in Intents : ReceiveWebhook(h, i)
          \/ \E i \in Intents \cup MockIds : ReceiveMockWebhook(h, i)
          \/ LookupTopup(h)
          \/ CreditTopup(h)
          \/ LoseCreditAnswer(h)
          \/ FailWebhook(h)

Spec == Init /\ [][Next]_vars

\* Stripe redelivers what was not answered 200, and a handler that is
\* running comes to its next step.
Redeliver(i) ==
    /\ i \in Intents /\ ~intents[i].acked
    /\ \E h \in Hooks : ReceiveWebhook(h, i)

Fairness ==
    /\ \A i \in 1 .. MaxIntents : SF_vars(Redeliver(i))
    /\ \A h \in Hooks : WF_vars(LookupTopup(h)) /\ WF_vars(CreditTopup(h))
    /\ \A k \in TopupKeys, u \in Users, n \in {CHFToNC(a) : a \in Amounts} :
          WF_vars(PostPending([key |-> k, user |-> u, nc |-> n]))

FairSpec == Spec /\ Fairness

-----------------------------------------------------------------------------
\* Properties

CreateSlot == [pc : {"idle", "store"}, key : TopupKeys \cup {NoTopup},
               user : Users \cup {NoUser}, chf : Amounts \cup {0},
               intent : IntentIds \cup {0}]

Hook == [pc : {"idle", "lookup", "credit"}, via : {"stripe", "mock"},
         intent : IntentIds \cup {0}, key : TopupKeys \cup {NoTopup}]

Intent == [key : TopupKeys, user_id : Users, amount : Nat, remembered : BOOLEAN,
           shown : BOOLEAN, status : {"open", "declined", "succeeded"}, acked : BOOLEAN]

Keys == {ConfirmedKey(k) : k \in TopupKeys} \cup {PendingKey(k) : k \in TopupKeys}

PaymentsTypeOK ==
    /\ ledger_events \subseteq LedgerRow(Keys)
    /\ topups \in [TopupKeys -> TopupRow \cup {NoTopup}]
    /\ intents \in Seq(Intent) /\ Len(intents) <= MaxIntents
    /\ slots \in [Slots -> CreateSlot]
    /\ hooks \in [Hooks -> Hook]
    /\ pending \subseteq [key : TopupKeys, user : Users, nc : Nat]
    /\ faults \in 0 .. MaxFaults
    /\ mocked \subseteq TopupKeys

\* What Stripe has collected from a user, in Rappen.
PaidIntents(u) ==
    {i \in Intents : intents[i].user_id = u /\ intents[i].status = "succeeded"}

Collected(u) ==
    SumFunctionOnSet([i \in PaidIntents(u) |-> intents[i].amount], PaidIntents(u))

\* The intent a row was stored with was paid.
IsPaid(k) ==
    /\ topups[k].provider_intent_id \in Intents
    /\ intents[topups[k].provider_intent_id].status = "succeeded"

\* What a user was credited on the word of the mock webhook alone, in Rappen: the
\* rows that it confirmed and nobody paid.
UnpaidTopups(u) == {k \in mocked : Exists(k) /\ topups[k].user_id = u /\ ~IsPaid(k)}

Vouched(u) ==
    SumFunctionOnSet([k \in UnpaidTopups(u) |-> topups[k].amount_chf], UnpaidTopups(u))

\* What a user has been credited never exceeds what Stripe has collected from that
\* user and the mock webhook vouched for, each top-up counted once although it is
\* paid, vouched for, redelivered and handled twice at once.
CreditsWithinPayments ==
    \A u \in Users : 100 * GlobalBalance(u) <= Collected(u) + Vouched(u)

Credits == {e \in ledger_events : e.event_type = "topup_confirmed"}

\* The top-up that a credit is for, and the intent it stands for.
TopupOf(e) == e.idempotency_key[2]
IntentOf(e) == topups[TopupOf(e)].provider_intent_id

\* Behind every credit is a payment of its own, by the user it credits and of at
\* least its worth, unless the mock webhook vouched for the top-up; and however
\* many requests, rows, webhooks of either kind and deliveries an intent of Stripe
\* meets, it is credited once.
OneCreditPerPayment ==
    /\ \A e \in Credits :
          \/ /\ TopupOf(e) \in mocked
             /\ 100 * e.amount_nc <= topups[TopupOf(e)].amount_chf
          \/ /\ IsPaid(TopupOf(e))
             /\ intents[IntentOf(e)].user_id = e.user_id
             /\ 100 * e.amount_nc <= intents[IntentOf(e)].amount
    /\ \A e, f \in Credits : IntentOf(e) = IntentOf(f) /\ IntentOf(e) \in Intents => e = f

\* A top-up is confirmed only when the intent it was stored with was paid, by
\* the user it credits and for its amount, or by the mock webhook.
ConfirmedByPaymentOrMock ==
    \A k \in TopupKeys \ mocked :
        Exists(k) /\ topups[k].status = "confirmed" =>
            LET i == topups[k].provider_intent_id IN
            /\ IsPaid(k)
            /\ intents[i].user_id = topups[k].user_id
            /\ intents[i].amount = Charged[topups[k].amount_chf]

\* Stripe is told 200, and stops retrying, only when every top-up of the
\* intent is on the ledger ("if the ledger write fails, the webhook returns 500
\* so the provider retries").
AckedOnlyWhenCredited ==
    \A i \in Intents :
        intents[i].acked => \A k \in OfIntent(i) : KeyTaken(ConfirmedKey(k))

\* A repeated request never changes what a key was first used for, and a
\* confirmed top-up stays confirmed.
TopupNeverRewritten ==
    [][\A k \in TopupKeys :
          Exists(k) =>
              /\ topups'[k] # NoTopup
              /\ \A f \in {"user_id", "amount_chf", "amount_nc", "provider_intent_id"} :
                    topups'[k][f] = topups[k][f]
              /\ topups[k].status = "confirmed" => topups'[k].status = "confirmed"
      ]_topups

Credited(i) == \E k \in OfIntent(i) : KeyTaken(ConfirmedKey(k))

Succeeded(i) == i \in Intents /\ intents[i].status = "succeeded"

\* "POST /topup/intent -> provider webhook -> ledger event -> balance increase"
\* (handler.go): a payment is credited in the end.
PaidIsCredited == \A i \in 1 .. MaxIntents : Succeeded(i) ~> Credited(i)

\* A payment of a stored top-up of a franc or more is credited in the end, although
\* webhooks fail half way, two deliveries run at once and mock webhooks come in
\* between.
StoredIsCredited ==
    \A i \in 1 .. MaxIntents :
        (Succeeded(i) /\ \E k \in OfIntent(i) : topups[k].amount_nc > 0) ~> Credited(i)

-----------------------------------------------------------------------------
\* The inductive invariant of PaymentsProofs

\* Intent i is what a request for key k by user u of amount a obtained.
MadeFor(i, k, u, a) ==
    \/ /\ i \in Intents
       /\ intents[i].key = k
       /\ intents[i].user_id = u
       /\ intents[i].amount = Charged[a]
    \/ i = MockId[<<u, k>>]

\* A row has the intent of the request that inserted it, and is confirmed only
\* when that was paid or by the mock webhook.
RowsHaveIntents ==
    \A k \in TopupKeys : Exists(k) =>
        /\ MadeFor(topups[k].provider_intent_id, k, topups[k].user_id,
                   topups[k].amount_chf)
        /\ topups[k].amount_nc = CHFToNC(topups[k].amount_chf)
        /\ topups[k].status = "confirmed" => k \in mocked \/ IsPaid(k)

RowsFinite == IsFiniteSet({k \in TopupKeys : Exists(k)})

\* A client secret is handed out when there is a row for the key, an intent is
\* paid by whoever has the secret, and acknowledged when it was paid.
IntentsProgress ==
    \A i \in Intents :
        /\ intents[i].shown => Exists(intents[i].key)
        /\ intents[i].status # "open" => intents[i].shown
        /\ intents[i].acked => intents[i].status = "succeeded"

RequestsKnow ==
    \A r \in Slots : slots[r].pc = "store" =>
        /\ slots[r].key \in TopupKeys
        /\ slots[r].user \in Users
        /\ slots[r].chf \in Amounts
        /\ MadeFor(slots[r].intent, slots[r].key, slots[r].user, slots[r].chf)

\* What a webhook handler at h may rely on when it resumes.
HookKnows(h) ==
    h.pc # "idle" =>
        /\ h.via = "stripe" =>
              /\ h.intent \in Intents
              /\ intents[h.intent].status = "succeeded"
              /\ h.pc = "lookup" =>
                    \A k \in OfIntent(h.intent) : topups[k].status = "confirmed"
        /\ h.pc = "credit" =>
              /\ h.key \in OfIntent(h.intent)
              /\ topups[h.key].status = "confirmed"

HooksKnow == \A h \in Hooks : HookKnows(hooks[h])

\* A ledger row credits what a confirmed top-up says, under its key.
CreditsMatchRows ==
    \A e \in ledger_events :
        \E k \in TopupKeys :
            /\ e.idempotency_key = ConfirmedKey(k)
            /\ e.event_type = "topup_confirmed"
            /\ Exists(k) /\ topups[k].status = "confirmed"
            /\ e.user_id = topups[k].user_id
            /\ e.amount_nc = topups[k].amount_nc

\* The invariant every step preserves.
PInv ==
    /\ PaymentsTypeOK
    /\ UniqueIdempotencyKey
    /\ RowsHaveIntents
    /\ RowsFinite
    /\ IntentsProgress
    /\ RequestsKnow
    /\ HooksKnow
    /\ CreditsMatchRows
    /\ AckedOnlyWhenCredited

=============================================================================
