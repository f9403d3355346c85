# NiteOS in TLA+

NiteOS is a nightlife platform: guests buy NiteCoins (NC) with Swiss francs and
spend them at venues. Behind the web applications is a set of Go services, each
with its own Postgres schema, which talk HTTP to each other without transactions
across them. All money is in one append-only ledger. This directory holds a TLA+
model of the services that move money, of the edge nodes that sell while offline,
and of the tokens that let people in; what TLC checks of it on small instances, and
what TLAPS proves of it for every instance.

## The system

| part | state | operations that change it | modelled in |
|---|---|---|---|
| ledger service | `ledger.ledger_events` | `POST /events`; the balances are sums over the rows | `Ledger` |
| orders service | `orders.orders`, `order_items` | create, finalize, void | `Orders` |
| payments service | `payments.topups` | `POST /topup/intent`, the webhooks of Stripe and of the mock provider | `Payments` |
| sessions service | `venue_sessions` | check-in, check-out, spend counter | `Sessions`, spend counter in `Orders` |
| profiles service | `users`, `venue_profiles`, `nitetaps` | users and roles, visits, XP, wristbands | users in `Profiles`, visits and the XP for check-ins in `Sessions`, the XP for orders in `Orders` |
| ticketing service | `ticketing.tickets` | purchase, validate | `Ticketing` |
| edge node | SQLite ledger, sync queue, catalog copy | offline orders, sync agent, catalog sync | `Edge`, `Catalog` |
| sync service | none | passes frames of the edge on to the ledger | `Edge` |
| auth service | signing key, tokens in Redis | register, login, PIN login, refresh, logout | `Access` |
| gateway | cached signing key | authenticate and forward | `Access` |
| devices service | `devices` | enrol, status, heartbeat | `Devices` |
| catalog service | `catalog_items`, venues, events, happy hours | create, delete, list | items in `Catalog` |
| wallet, reporting | none | read the ledger | nothing to model |
| web, infra, android | none | user interfaces, deployment, placeholders | nothing to model |

**How they interact.** Orders asks the ledger for a balance, writes an
`order_paid` event, and then updates its own row: three calls, no lock, no
transaction around them. After its reply it starts goroutines that tell sessions
and profiles. Payments asks the provider for an intent, stores a row, and waits
for a webhook, which Stripe repeats until it is answered 200; the mock provider, which
is always registered, has a webhook that anybody may call. Sessions
answers a check-in first and then tells the ledger and profiles. The ledger
accepts each event type from one service only and keeps one row per idempotency
key, and that key is all that protects a retry. Ticketing debits the ledger and then
issues the ticket. An edge node charges orders to a ledger of its own; its agent
sends what is pending to the sync service in frames, which writes each event to the
cloud's ledger under the name of the service that owns its type. Auth asks profiles
for users, keeps what it issues in Redis, where the gateway looks for it, and signs
it with a key that the gateway fetches every five minutes.

**What is hard about it.** Two requests for one order cross between their calls.
The process dies between the ledger write and the UPDATE. A reply is lost after
the write was done. A goroutine's call gets lost and nothing repeats it. A
webhook arrives twice, at once, or half fails. A status or a balance is old when
it is used. The agent of an edge dies between sending and striking off, and the frame
it gave up is still at work beside the next. A refresh that read its token crosses
the logout that deletes it; a role or a key has changed since it was copied. These are the hazards listed in `PROJECT.json`.

**What makes each part correct.**

* Ledger: rows are only ever added, under fresh keys, by the service their type
  belongs to; only payments creates NC.
* Orders: a row that says paid has exactly its debit; an order is debited at most
  once; spend and XP, in all and at each venue, never exceed sales; statuses only move
  forward; at most one refund is sent; nobody is overdrawn by more than requests at once account for.
* Payments: no NC beyond the money collected and what the mock webhook vouched for; one
  credit for a payment; Stripe is acknowledged only when the top-up is on the ledger;
  the payment of a stored top-up of a franc or more is credited in the end.
* Sessions: one open session per guest and venue; what the ledger says of a session
  is true; visits and XP never overtake the check-ins; no balance moves.
* Ticketing: a ticket is paid before it is issued, and admits once.
* Edge and sync: an order is booked in the cloud at most once, as it was written; it
  is struck off only when it is booked, and every order the ledger can take gets
  there in the end; a guest's debt on the edge does not grow.
* Auth and gateway: a session that was ended does not come back; tokens of an ended
  session, a lost role, a revoked device or an old key run out.

## Modules

* `Ledger` - the table, the handler of `POST /events` and the two balances. It has
  no Next of its own: `WriteEvent(caller, request)` is a conjunct of the actions of
  the components that EXTEND it, and tells them through `Accepts` whether the
  answer was 200.
* `Orders` - the orders service over the ledger. One action per stretch of a
  handler between two calls; a request slot (`slots`) holds where a handler is and
  what it has read. `tasks` counts the goroutines that are under way.
* `OrderSettlement` - the abstract specification of an order's money: open, charged
  at most once to one payer, settled after that, void for good.
* `Payments` - the payments service between Stripe, the mock provider and the ledger.
* `Sessions` - check-in and check-out over the ledger, and the visits and XP that
  profiles counts for them.
* `Ticketing` - purchase and validation over the ledger.
* `Catalog` - the items of a venue and the copy of them on its edge node.
* `Edge` - an edge node and the sync service over `Ledger` (the cloud's) and `Catalog`.
* `EdgeTransfer` - the abstract specification of what edge and cloud promise each
  other: an order is written once, booked at most once, struck off only then.
* `Profiles`, `Devices` - users with their roles, and devices with their status.
* `Access` - the auth service and the gateway over `Profiles` and `Devices`.
* `MCOrders`, `MCPayments`, `MCSessions`, `MCTicketing`, `MCEdge`, `MCAccess` - values
  for TLC. `LedgerProofs`, `OrdersProofs`, `PaymentsProofs`, `SessionsProofs`,
  `TicketingProofs`, `EdgeProofs`, `AccessProofs` - the theorems.
* `SumLemmas` - facts about sums over finite sets, for the balances and counters in
  these proofs.

### Orders, action by action

| action | code (`services/orders/internal/handler/handler.go`) |
|---|---|
| `CreateOrder` | the whole of `POST /`, which is one transaction |
| `StartFinalize`, `CheckBalance`, `WriteDebit`, `FinalizeOrder`, `SpawnEffects` | `FinalizeOrder`, cut at `GetOrder`, the balance call, the ledger write, the UPDATE and the `go` statements |
| `StartVoid`, `VoidOrder`, `SpawnRefund` | `VoidOrder`, cut in the same way |
| `IncrementSessionSpend`, `PostRefund` | what the goroutines do at sessions and the ledger |
| `AwardXP`, `AddLocalXP` | `awardXP`: the two statements of `POST /users/{user_id}/xp` of profiles |
| `WindowCloses` | two minutes have passed since the order was created |
| `Abandon`, `LoseTask` | a handler or a goroutine ends at any point: an error, a lost answer, a balance read as 0 because the ledger's status is not looked at, or a crash |
| `ConfirmTopup` | payments credits somebody meanwhile |

A row is known by its idempotency key, which the table keeps unique. Items are
only counted, because a replayed creation inserts them again; prices and names
decide nothing. `local_xp` and `global_xp` are what orders add to the columns, as those
of `Sessions` are what check-ins add; whether the guest has a profile at the venue, for
`AddLocalXP` to change, is left open. Handlers are driven with a role in their request context, as the
handler tests drive them (`handler_test.go`).

### Payments, action by action

| action | code (`services/payments/internal/handler/handler.go`) |
|---|---|
| `CreateIntent`, `CreateMockIntent`, `CreateTopup`, `AbandonIntent` | `CreateIntent`, for the two providers a client may name, cut at the provider's answer |
| `PostPending` | the `topup_pending` goroutine |
| `ReceiveWebhook`, `ReceiveMockWebhook`, `LookupTopup`, `CreditTopup` | `WebhookStripe` and `WebhookMock`: `handleWebhook`, cut at the two statements of `ConfirmTopup` and at the ledger write |
| `FailWebhook`, `LoseCreditAnswer` | an error or a crash before the ledger has written, and after |
| `Decline`, `Pay`, `ForgetKey` | Stripe and its customer |

Stripe's webhook is signed, so that it says of an intent what happened to it. The mock
provider is registered whatever the configuration (`cmd/main.go:40-42`, `:59`), its
`VerifyWebhook` checks no signature (`provider/provider.go:45-50`), the gateway forwards
webhooks without a token, and `ConfirmTopup` looks for an intent and not for a
provider: `ReceiveMockWebhook` may come at any time and name any intent, Stripe's
included, paid or not. An intent id of the mock provider is made of the beginnings of
user id and key (`MockId`), so that top-ups may share one. `mocked` collects the rows
such a webhook confirmed and has no counterpart in the code; it is what lets the
properties tell a credit with a payment behind it from one without.

Francs are counted in Rappen. `CHFToNC` truncates as `int(chf)` does, and `Charged`
stands for `int64(chf * 100)`, which in binary floating point may be a Rappen short.
No migration creates `payments.topups`, so the table is taken as the store uses it:
`ON CONFLICT (idempotency_key)` needs that column unique, and nothing says that
`provider_intent_id` is.

### Sessions, action by action

| action | code (`services/sessions/internal`) |
|---|---|
| `StartCheckin`, `OpenSession` | `(*Store).OpenSession`, cut between its SELECT and its INSERT |
| `SpawnCheckin` | the three `go` statements and the reply of `Checkin`, for a session that was already open, too |
| `StartCheckout`, `CloseSession`, `SpawnClosed` | `Checkout`, cut at `GetSession`, the UPDATE and the `go` statement |
| `PostCheckin`, `PostClosed` | the ledger calls of the goroutines |
| `UpsertVenueProfile` | `POST /venue-profiles` of profiles |
| `AddGlobalXP`, `AddLocalXP` | the two statements of `POST /users/{user_id}/xp` of profiles |
| `Abandon`, `LoseTask` | a handler or a goroutine ends at any point |

Sessions are numbered in the order they are inserted in. `visit_count` is 0 when
there is no row of `venue_profiles`, which is when `AddLocalXP` changes nothing.
`local_xp` and `global_xp` are the share of the columns that comes from check-ins; orders
add theirs by the same two statements, in `Orders`. Both only add, so that the shares do
not touch each other.
`checkins` counts the answered check-ins and has no counterpart in the code; the
rewards are compared with it. Guests are registered: `Checkin` does not look the
guest up, and for an id profiles does not know its XP call would change only the
venue's row.

### Ticketing, action by action

| action | code (`services/ticketing/internal`) |
|---|---|
| `PayTicket`, `IssueTicket` | `PurchaseTicket`, cut at the ledger's answer and the INSERT |
| `StartValidate`, `UseTicket` | `ValidateTicket`, cut at `GetTicketByQR` and the UPDATE |
| `Abandon` | a handler ends between its calls, or does not get the first one's answer |

A ticket is known by the idempotency key of its purchase. `admitted` counts the
validations answered 200 and has no counterpart in the code. When the answer is lost
after the UPDATE the ticket is used and nobody was let in: that is what the code
does, and `AdmitsOnce` allows it. No migration creates `ticketing.tickets`
(`migrations/ticketing` has `ticket_products` and `ticket_issuances`), so the table
is taken as the store uses it.

### Edge, action by action

| action | code |
|---|---|
| `CheckOrder`, `WriteOrder` | `POST /orders` of the edge, cut between the balance and the transaction of `WriteEvent` |
| `StartSync`, `MarkSynced` | the agent's `sync`, from the query to the call, and its last transaction |
| `IngestEvent`, `Reply` | `IngestFrame` of the sync service, event by event, and its answer as the agent reads it |
| `LoseEvent` | the ledger is unreachable, or booked and was not heard |
| `AbandonSync`, `CrashEdge`, `DropFrame` | the agent gives up, the edge restarts, the sync service dies |
| `CreateItem`, `DeleteItem`, `SyncCatalog` | the catalog service, and the edge's catalog loop |

`POST /orders` sums price times quantity and checks no quantity: a total may be of any
sign. `Sales` are the bodies whose total is not 0, the only ones the local ledger writes;
a negative total passes the balance check and raises the guest's balance. `Debt` is what
a body takes from the guest, nothing for such a one.

Rows of the local ledger are numbered as they are inserted, which is the order of
`occurred_at`. A frame has a slot of its own, because the agent does not wait for
a frame it gave up, while the sync service goes on with it. Nothing in the
repository credits the edge's ledger; `Credit` is what its database came with, and
without any every offline order is answered 402. One edge is modelled: keys of tills
go to the cloud as they are, so that two edges with a key in common would be one.
The counter of attempts is written and never read (`maxAttempts` is not used) and is
left out.

### Access, action by action

| action | code |
|---|---|
| `Register`, `Login`, `IssueAccess`, `IssueRefresh` | the two handlers, cut at the profiles call and at the two Redis calls of `issueTokens` |
| `StartRefresh`, `FetchUser`, `MintRefreshed` | `Refresh`, cut at its three calls |
| `StartLogout`, `ForgetOne`, `StartScan`, `DeleteKey`, `EndScan` | `Logout`; the SCAN of `DeleteAllRefreshTokens` meets keys one by one, and at its end has met those that were there throughout, which is what Redis promises |
| `PINLogin`, `MintStaff` | `PINLogin`, cut at its queries and the Redis call |
| `ExpireToken`, `ExpireRefresh` | the TTLs of Redis |
| `RotateKey`, `RefreshJWKS` | auth is restarted with another key file; the gateway's ticker |
| `ManageUser`, `ManageDevice` | `PATCH /users/{user_id}/venue`, enrolment and status |
| `Abandon` | a handler ends at any point |

A token is its record in Redis with the claims of its JWT. Passwords, PINs and rate
limits only refuse requests. Device JWTs, which nothing in the repository issues,
are taken to be what the code takes them for: a signature that holds for as long as
the device is enrolled. `forgotten` collects the sessions whose deletion a logout
has seen through, and has no counterpart in the code. Ids are random and never come
twice; the model takes an id again when nothing knows it any more, so that finitely
many stand for any number over time. The claim `venue_id` is left out: a refresh
drops it, and no modelled rule reads it.

## Runs

| run | asks | bounds |
|---|---|---|
| `orders_one` | do the rows, the ledger and the side effects agree, and is `OrderSettlement` implemented, whatever crosses and fails? | one order, three requests, two guests with a top-up each, two staff, failures |
| `orders_overdraft` | how far can finalizes at once overdraw a guest? | one guest, two orders of two, two venues, two requests, top-ups of two and of one, failures |
| `payments_safety` | is there a payment of its own, or the word of the mock webhook, behind every credit, and a credit behind every acknowledgement? Does the invariant of the proofs hold? | two users, two keys (with one mock id for both of a user's), an amount of 19.99, one intent of Stripe, two requests and two webhooks at once, one failure |
| `payments_live` | is the payment of a stored top-up credited in the end, whatever comes in between? Do rows keep what they say? | one user, one key that Stripe forgets, an amount of 1.50, two intents, two webhooks at once, one failure |
| `sessions_safety` | does what is told after the reply agree with the sessions, whatever is late or lost? Does the invariant of the proofs hold? | one guest at one venue, two requests, two sessions, two check-ins |
| `ticketing_safety` | is every ticket paid, and does it admit once, whatever crosses and fails? Does the invariant of the proofs hold? | two guests, three keys (one shared, one for an event that is none), two requests |
| `edge` | is every order booked once and struck off only then, and does it get there? Is the invariant of the proofs kept and `EdgeTransfer` implemented? | two guests, three keys (one shared, with a negative quantity by one of the two, one the cloud refuses), two tills, two frames, batches of two, two faults |
| `access` | does what was taken away stay away, and what tokens carry run out? Is the invariant of the proofs kept? | one user with two roles, one device, two sessions, one token at a time, two requests, two keys |

Orders do not touch each other except through balances and the counters of a session and
a guest, to which each adds only its own total, so one order with three requests shows
every crossing on a row (two finalizes and a void; a fourth request repeats one of
them). Balances are asked of `orders_overdraft`: two orders of two and a credit of one
or two are enough to reach the bound and to tell a check that looks for any credit from
one that looks for enough; a balance is one guest's, and the other guests' orders do not
enter it. `MaxBatches` bounds replayed creations, `MaxIntents` the intents Stripe makes,
`MaxFaults` the webhooks that fail half way, `MaxPending` the `topup_pending` goroutines
at once, which the ledger refuses in any case. One failure is enough for each point at
which a delivery may stop, and liveness needs some bound: a Stripe whose every delivery
fails never gets through. An intent is made for one key and credits that key's row
(`RowsHaveIntents`), so that in `payments_safety` one intent of Stripe beside the rows of
the mock provider shows how webhooks of both kinds meet on a row; a second intent for
one key takes a Stripe that forgets, and is in `payments_live` (the row's and another
one); that credits of several payments of one user add up is the proof's.
`payments_live` has a top-up of a franc and more, because smaller ones are worth 0 NC
and never credited (see below). An action of `Sessions` touches the rows of one
guest at one venue only, so one of each shows what can happen to them; two sessions are
an old and a new one, or the two that race, and two answered check-ins (`MaxCheckins`)
give every goroutine a twin. More requests than two only wait for the same rows. Tickets
do not touch each other, and each of the three keys is a way to use one: as it should
be, by two guests, and for an event whose id the ledger cannot cast. In `edge`, the
batch of two is smaller than the three orders and larger than the one the cloud refuses;
a total of 0, which writes nothing, is left to the proofs; two frames are one the agent
gave up and the next; two faults are enough for a crash at any point and another one
while what it left is put right. In `access`, one user's two
sessions are an ended one and another that goes on or begins, or the two a logout of all
devices meets. Nothing in the code reads one token beside another, and each property is
about one token, so that tokens are taken one at a time; what a second one would add is
only that both are there (with two tokens the states are some fifty times as many). Two
keys are the old one and the new one.

Each of the other runs checks one sentence of the documentation, a comment or a
migration, and TLC finds the behaviour of the code that contradicts it:

| run | what happens |
|---|---|
| `refund_refused` | the ledger refuses `refund_created` from orders; the answer is dropped |
| `overdraft_race` | two finalizes pass the balance check before either debit |
| `key_expiry` | a key the provider forgot yields a payment no row knows; the webhook is acknowledged |
| `sessions_two_open` | two check-ins both find no open session and both insert one |

`overdraft_race` shows that `NoOverdraft` fails, `orders_overdraft` that it fails by one
order for each further request at most, and the theorem `SerialNoOverdraft` that
it takes a second request or a second venue. `key_expiry` asks for the credit of every
payment (`PaidIsCredited`), `payments_live` of every payment whose intent a stored top-up
of a franc or more has (`StoredIsCredited`): what is lost are payments of an intent that
no row has. Together they say under which conditions the promises hold.

`CHECK_DEADLOCK FALSE` is set throughout: when every order is void, or every
payment made and the bounds are used up, nothing is left to do. A check-in at the
bound of `Sessions` waits until it is abandoned.

**Fairness.** The safety runs assume none. `FairSpec` of `Payments` assumes that
Stripe delivers an event again until it is answered 200 (strong fairness of
`Redeliver`, as the handlers may be busy with other webhooks), and that a handler
that runs comes to its next step (weak fairness; a Go scheduler does that). It does not
assume that customers pay, that clients finish or retry, that anybody calls the mock
webhook, or that Stripe forgets or remembers keys. `FairSpec` of `Edge` assumes the agent's ticker, its
marking, and that the sync service goes on with a frame and answers (weak fairness
each: nothing but these steps and a fault takes them away, and faults are bounded).
It assumes nothing of tills, of the catalog or of crashes. `FairSpec` of `Access`
assumes that Redis lets a token expire, and that the gateway's ticker fetches the key;
not that anybody logs in, out, or finishes a request.

`EventsReachCloud` is asked with fewer events the cloud refuses than a batch holds.
With `BatchSize` such events TLC finds that nothing behind them is ever sent: the
agent takes the oldest pending rows each time and gives none of them up.

## Proofs

### Sums

Balances, spend counters and what is under way are sums over sets, that is
`SumFunctionOnSet` of the community modules, a fold. `SumLemmas` proves what the other
proofs need of it from the definition of the fold: the sum of one more element, of two
functions, of a multiple, bounds, monotony, sums over a set another maps into
(`SumInjected`), and what a change at one element does (`SumFollows`). These are facts
by induction over the set; where an induction would assume the fact of smaller
sets, the proofs take a smallest subset for which it fails (`SmallestSubset`, from the
induction that is built into `IsFiniteSet`) and refute it.

### The ledger

`LedgerProofs` proves what `POST /events` does for any caller and any request
(`WriteEventContract`): nothing, or one more row, under a fresh key and by the
service its type belongs to. The components below take their part of the ledger's
contract (`LedgerContract`) and the uniqueness of its keys from there. `BalanceAppended`
says what a new row does to a balance: it adds its amount to the balances it counts
for (`CountsFor`) and leaves the others.

### Orders

`OrdersProofs` proves, for any number of orders, requests, users, venues and
sessions, any bodies and top-ups, with failures or without:

| theorem | says |
|---|---|
| `Invariance` | `IInv` always holds |
| `TypeCorrect`, `PaidHasDebit`, `OneDebit`, `OnlyPaymentsMint` | the invariants of the same names in `Orders` and `Ledger` |
| `OneRefund` | `RefundSentOnce`: of all voids of an order, one sends the refund |
| `SpendCovered`, `XPCovered` | `SpendWithinSales`, `XPWithinSales`: counters and what is under way stay within what was sold |
| `OverdraftIsBounded` | a balance at a venue is below zero by at most one order for each handler beside the first |
| `SerialNoOverdraft` | with one handler and one venue no balance is ever below zero |
| `LedgerIsAppendOnly`, `RowsMoveForward` | what a step may do to the ledger and to a row |
| `ImplementsSettlement` | the orders service implements `OrderSettlement` |

They rest on the assumptions the modules name: `LedgerAssumption` and
`NoOrderAssumption` (the sentinels are not values), `OrdersAssumption` (roles
are the three the handler knows, totals and top-ups are positive, as the CHECK
constraints of the migration and the validation of payments make them), and
`BoundsAssumption` (requests at once are finitely many, and integers of a fixed width
have a largest one among them).

`PaidOrderHasDebit` is not inductive. The UPDATE of finalize sets the row to
"paid" because the handler has come past the ledger write, so the invariant has to
say what a handler in each position may rely on (`HandlersKnow`): at the UPDATE,
that the debit's key is taken; later, that the order was paid. That a taken key
means the right debit needs `DebitsMatchOrders`: a row under an order's key says
what the order row says, which survives because total and venue never change. And
a key names one row only because the ledger keeps `UniqueIdempotencyKey`. A waiting
handler's knowledge is not taken away by another's step because keys stay taken and
rows stay ever paid (lemma `KnowledgeStays`), which is why no lock is needed for
these properties. The proof goes through two descriptions of a step, `LedgerStep`
(nothing, a top-up, or one debit of an existing order) and `RowsKept`, each proved
once over all actions, and the parts of the invariant follow from them.

Effects are started once because the UPDATEs of finalize and void have conditions, and
`EffectsOnce` says what that amounts to: each effect of an order is owed by one
handler about to start its goroutine, or by one goroutine, or by none, and after it
was owed never again (lemma `EffectStepped`: it is begun, handed on, done, or left
alone). The counters then cannot hold more than the orders whose effect is no longer
owed (`CountersCovered`), which with what is under way makes the sums of
`SpendWithinSales`. XP are two effects, one after the other: `AwardXP` hands on to
`AddLocalXP`, so that for a venue the goroutines of both are still to come (`Count`).

A balance is checked in one call and debited in another, so that the balance alone is no
invariant. `DebitsCovered` is about the balance less what is on the way from the check
to the debit (`OnTheWay`): a handler that passes the check has seen a balance that
covers its own order, and beside it is at most one order of each other handler
(lemma `DebitArrives`); a debit moves its order from the way to the balance
(`DebitsLeave`), once, as its key is taken once; whoever fails only leaves the way. With
one handler the bound is 0, which is `SerialNoOverdraft`.

The refinement maps an order's phase from its row and its payer from its
`order_paid` event. `Charge` in `OrderSettlement` is allowed for a void order:
that is what the code does, and the documentation says otherwise (see "Met while
modelling").

### Payments

`PaymentsProofs` proves, for any number of users, keys, intents, requests and
webhooks of both kinds, any positive amounts, with failures and with keys Stripe forgets:

| theorem | says |
|---|---|
| `PaymentsInvariance` | `PInv` always holds |
| `PaymentsTypeCorrect` | types |
| `ConfirmedWasPaidOrMocked` | `ConfirmedByPaymentOrMock`: a confirmed top-up was paid, by its user, for its amount, or confirmed by the mock webhook |
| `AckedWasCredited` | a Stripe webhook answered 200 has credited every top-up of the intent |
| `CreditsAreBacked` | `OneCreditPerPayment`: every credit has a payment of its own of at least its worth behind it, or the mock webhook's word; an intent of Stripe is credited once |
| `CreditsAreCovered` | `CreditsWithinPayments`: a user's balance, in Rappen, is at most what that user has paid in all and the mock webhook has vouched for in top-ups nobody paid |
| `TopupsNeverRewritten` | what a step may do to a row of `payments.topups` |
| `PaymentsLedgerIsAppendOnly` | the ledger's contract |

The assumptions are `LedgerAssumption`, `NoTopupAssumption`, `PaymentsAssumption`
(amounts are positive, as the handler demands, and the bounds are numbers),
`MockAssumption` (the mock provider makes an id of user and key, any id, none of them
one of Stripe's: its ids begin with `mock_`) and `ChargedAssumption`: `int64(chf * 100)`
is the amount in Rappen or one below, and exact for whole francs. The last one is what `CreditsAreBacked` needs, because a
Rappen short of a whole franc would be less than the NC credited.

A row, the intent it was stored with, and the intent the caller is shown can be of three
different requests, and no constraint makes `provider_intent_id` unique. What keeps the
rows of Stripe apart is that it binds an intent to the idempotency key it was made for:
`RowsHaveIntents` says that a row's intent was made for the row's key, or has the mock
id of its user and key, so that an intent of Stripe has at most one row (lemma
`RowOfIntent`). `IntentsProgress` adds that an intent's
secret is shown only when the row of its key is there, so that after it is paid the set
of its rows never changes again (lemma `RowsOfIntentStay`). That is why a Stripe delivery
that found no pending row, or confirmed one, still knows the truth when it comes back
from its call (`HooksKnow`), and why an acknowledgement stays right, although a mock
webhook may have confirmed the row before it and died: it credits what it finds
confirmed. None of this holds of ids of the mock provider, and of its webhooks the
invariant says only that the row they are about to credit has the intent and is
confirmed; that nobody paid it shows in `mocked`, which `RowsHaveIntents` asks for.

For the sums of `CreditsAreCovered` a user's credits are taken apart: those of top-ups
that were paid go to the intents that were paid for them, no two to the same one, and
none is worth more; the others go to their top-ups in `mocked` (the lemmas `SumSplit` and
`SumInjected`; `RowsFinite` makes the sums finite).
`CreditsMatchRows` ties the ledger to the rows. The proof describes a step by what it
does to the intents (`IntentsStep`, `IntentMoved`), the rows (`RowsStep`) and the ledger
(`LedgerStep`), and the parts of the invariant follow from these.

### Sessions

`SessionsProofs` proves, for any number of guests, venues, requests and sessions,
whatever fails or gets lost:

| theorem | says |
|---|---|
| `SessionsInvariance` | `SInv` always holds |
| `SessionsTypeCorrect` | types |
| `EventsAreTrue` | a session event on the ledger is about a session's guest and venue; a closing, about a closed one |
| `ClosingsAnnouncedOnce` | `CloseAnnouncedOnce`: of check-outs that race, one tells the ledger |
| `RewardsAreEarned` | `RewardsWithinCheckins`: visits and local XP, with what is under way, stay within the answered check-ins |
| `LocalXPCovered` | `LocalXPWithinGlobal`: XP at venues are part of the global XP |
| `OpenSessionsAreBounded` | a guest's open sessions at a venue and the inserts under way are at most as many as the slots |
| `SessionsMoveForward` | a session keeps guest and venue and is not opened again |
| `SessionsMoveNoMoney` | no balance changes |
| `SessionsLedgerIsAppendOnly` | the ledger's contract |

They assume `LedgerAssumption` and `SessionsAssumption` (bounds are numbers, slots and
venues are finitely many). What a goroutine says is true when it gets to say it, because
it is started with the session (`SlotsKnow`: a handler past the UPDATE has a closed
session; `TasksKnow`: so has its goroutine) and sessions only move forward
(`SessionsKept`). Uniqueness of open sessions is what the code does not have;
`OpenSessionsBounded` is what is left of it, and its proof (`CountsBounded`) is that a
request begins to insert only when no session is open and stops when it has. With one
request at a time the bound is 1, which is the comment's invariant.

A closing is announced once because the UPDATE passes once; after that the handler,
its goroutine and the row on the ledger are one thing at three places, which
`CloseAnnouncedOnce` counts. What it needs beside itself is that all three are of a
closed session (`SlotsKnow`, `TasksKnow`, `ClosedKeysKnow`): a session that is open has
none of them when the UPDATE closes it. Rewards move with the goroutines:
a check-in adds one to each side of the inequality when it starts them, a
goroutine takes itself off what is waiting as it adds what it brings. For the XP of all
venues the invariant counts the XP that the first of the two statements has given
globally and the second has not given the venue yet (`GlobalXPFirst`).

### Ticketing

`TicketingProofs` proves, for any guests, keys, bodies and requests, with failures:

| theorem | says |
|---|---|
| `TicketingInvariance` | `TInv` always holds |
| `TicketsArePaid`, `TicketsAdmitOnce` | the invariants `TicketIsPaid` and `AdmitsOnce` |
| `TicketsMoveForward` | what a step may do to a ticket |
| `TicketingLedgerIsAppendOnly` | the ledger's contract |

They assume `LedgerAssumption`, `TicketingAssumption` (what the handler checks of a
body) and `NoTicketAssumption`. A ticket is issued by a handler that was answered 200,
and that it was paid must survive until then (`SlotsKnow`): the row under its key is
the one the purchase asked for, because the ledger holds purchases only
(`DebitsArePurchases`) and a key has one row. That holds of a key that stands for one
purchase. When two guests use one key, one is debited and the other may get the
ticket, which is why `TicketIsPaid` asks for the right guest under that condition only.

### Edge

`EdgeProofs` proves, for any catalog, orders, tills, frames and batch size, with any
number of crashes and lost answers:

| theorem | says |
|---|---|
| `EdgeInvariance` | `EInv` always holds |
| `StruckOffIsBooked` | what the edge strikes off is in the cloud's ledger as it was written |
| `EdgeOverdraftIsBounded` | whatever quantities are ordered, a balance on the edge is below zero by at most one order for each handler beside the first |
| `EdgeLedgerIsAppendOnly` | the ledger's contract |
| `ImplementsTransfer` | edge, agent and sync service implement `EdgeTransfer` |

They assume `LedgerAssumption`, `CatalogAssumption` (prices are positive),
`EdgeAssumption` (its handlers are finitely many) and `TotalAssumption` (an order of
items at any quantities has an integer for a total, of either sign, and integers of a
fixed width have a largest one among them). A body with a negative total is written
like any other and adds to the balance; on its way it takes nothing, so that the bound
is over what bodies take (`Debt`, `MaxTotal`). The agent marks what a frame's answer
called accepted, a while after the cloud booked it, perhaps after a restart of the
sync service. That the answer is still true rests on `AnswersTrue`: what a frame or
the agent holds as accepted is booked, and stays booked as the ledger only grows. That
"accepted" under an existing key means the same order needs both ledgers: a key is
one row here (`LocalKeysUnique`) and there (`UniqueIdempotencyKey`), and what is there
came from here (`CloudFromEdge`), so that the row the cloud found is this one. The
refinement maps rows to their key, guest and amount; sending, crashing and asking
again are stutters, and booking is the step `Book` at most once per key.

### Access

`AccessProofs` proves, for any users, devices, tokens, sessions, requests and keys:

| theorem | says |
|---|---|
| `AccessInvariance` | `AInv` always holds |
| `LogoutIsFinal` | the refresh token of a session whose logout came through never comes back |

They assume `ProfilesAssumption`, `DevicesAssumption` and `AccessAssumption` (the
sentinels are not values, staff uids are not users'). A refresh token is stored by a
login only, so `LogoutForgets` could be broken by a login that stores late: it is not,
because a session whose token is about to be stored is known to that login alone
(`LoginsArePrivate`), which in turn rests on its id being fresh. `SessionsHaveOneOwner`
says that tokens, refresh tokens and requests agree on whose a session is, and
`TokensAreGenuine` that nobody holds a token who is not registered or enrolled;
`SlotsKnow` carries both through the calls of a handler.

### Only model-checked

Every invariant, every action property and both refinements that the passing runs check
are proved. `StoredIsCredited`, `EventsReachCloud`, `ForgottenSessionFades`,
`StaleAuthorityFades` and `RotationTakesHold` are liveness properties, out of the
prover's reach, and stay with TLC, and so do the counterexamples of the four runs
that look for one.

## Met while modelling

Divergences between the code and its documents that no run is spent on:

* An order that is voided between the debit and the UPDATE of its finalize stays
  debited, and no refund is sent, because the void read it as pending
  (`services/orders/internal/handler/handler.go:136`). `Product Explained.MD:151` says
  that a void of a pending order needs no ledger event, "nothing was charged".
* Two finalizes for different guests share the debit's key, which names only the
  order: the ledger debits one, and the row may name the other as `guest_user_id`,
  "the guest whose NC balance was debited"
  (`migrations/orders/002_add_guest_user_id.sql:11`).
* A void that read the order as pending and runs its UPDATE after a finalize takes
  it out of "paid" without a refund (`handler.go:170`, `:182`).
* `GetBalance` with a venue leaves out what was spent at other venues, so that
  serially, too, a guest with one top-up can spend it once per venue
  (`services/ledger/internal/store/store.go:82`).
* Finalizing without a guest ("Mark as Paid", `docs/PILOT_FLOW.md:84-85`) always ends in
  500: the ledger refuses an empty `user_id`.
* `int(chf)` (`domain/topup.go:38`) drops Rappen that are charged (the comment says
  1:1), and a top-up below one franc is confirmed but never credited, because the
  ledger refuses amount 0. "CHF x 100" in `Product Explained.MD:115` is a third rate.
* `topup_pending` is never booked: its `reference_id` is the provider's id, which
  the INSERT casts to uuid.
* `VoidOrder` counts its two minutes from the creation, the documents from
  finalization; venue admins may void later, too.
* `POST /events` answers 200 for new and old events (`handler.go:32` says the
  status distinguishes them). `ConfirmTopup` returns the row when it is already
  confirmed (its comment says `ErrNotFound`).
* The services connect as the owner of the tables, so that `REVOKE UPDATE, DELETE`
  on the ledger binds nobody, and the role it names could not run the `ON CONFLICT
  DO UPDATE` of the ledger's INSERT. The append-only ledger is a property of the code.
* "No NC is ever minted until the payment provider sends a verified, signature-checked
  webhook callback" (`PRODUCT_BLUEPRINT.md:138`, `:212`), and `WebhookMock` is "for local
  testing only" (`services/payments/internal/handler/handler.go:116`); webhooks bypass
  the gateway's check because they are "validated by provider signature internally"
  (`gateway/internal/proxy/proxy.go:310`). But `payments/cmd/main.go:40-42` and `:59`
  always register the mock provider and its webhook, its `VerifyWebhook` checks nothing
  (`provider.go:45-50`), and `ConfirmTopup` does not look at the row's provider
  (`store.go:45-49`): a top-up can be confirmed, and NC credited, with nothing collected. The
  properties of `Payments` therefore say "paid, or vouched for by the mock webhook", and
  hold in that form only.
* Two top-ups of a user whose keys begin alike share an id of the mock provider: one
  webhook confirms both and credits one of them; another one credits either, as the
  database picks it.
* The edge's `POST /orders` checks no quantity (`edge/internal/handler/handler.go:59-68`).
  A negative total passes the balance check, raises the guest's balance on the edge, and
  is booked in the cloud as an `order_paid` with a positive amount, written as "orders";
  `OnlyPaymentsMints` is a property of the orders service and says nothing of it. A total
  of 0 ends in 500 (`ErrZeroAmount`).
* A check-in of a guest who is checked in returns the open session, "idempotent"
  (`docs/PILOT_FLOW.md:66`), and yet counts another visit and awards the XP again
  (`services/sessions/internal/handler/handler.go:74-75`).
* `PurchaseTicket` "checks balance via ledger" (`handler.go:46`) and checks none, so
  that a guest may be debited below 0. `ValidateTicket` "returns 409 if already used"
  (`:117`), but answers 500 when it loses the race for the UPDATE. Nothing sets
  "refunded".
* The agent retries at every tick, without the exponential backoff of
  `SYSTEM_ARCHITECTURE.md:325`; `maxAttempts` is not used, and its HTTP
  client has no timeout. A till's `device_id` that is no uuid makes the ledger refuse its
  order for ever, although the edge took it.
* An item deleted in the catalog stays in the copy of every edge that had it and is
  sold offline: the list the edge fetches has active items only, nothing removes a
  row, and `GetItem` does not look at `is_active`
  (`edge/internal/catalog/catalog.go:61`, `:109`; `SYSTEM_ARCHITECTURE.md:234`).
* After a rotation of the key, old access tokens are good, and new ones are refused,
  until the gateway fetches the key or is restarted, up to five minutes;
  `docs/SECRET_ROTATION.md:13` says "immediately".
* A revoked device's staff tokens live on for up to twelve hours, and `PINLogin` looks
  at the device's status in Postgres only; `docs/SECRET_ROTATION.md:138` and
  `SYSTEM_ARCHITECTURE.md:250` have its token deleted from Redis. `SetDeviceStatus`
  and the `rev:` keys of `:120` are not used. A logout of all devices leaves the access
  tokens, for up to fifteen minutes.
* Logout answers 200 whatever its deletions return, and `DeleteAllRefreshTokens` drops
  the errors of its deletions itself. A refreshed token has lost the claim `venue_id`.
  A registration that fails after the profiles call leaves the e-mail taken.
* `CheckRateLimit` is called a sliding window and renews the expiry of one counter at
  each call, so that a caller who never pauses for a minute stays refused.
* The devices table as migrated (`device_name`, `last_heartbeat`, `public_key NOT NULL`,
  no status "inactive") is not the one the devices store writes to; the model takes the
  store's, with the migration's default "pending".
* No migration creates `payments.topups` or `ticketing.tickets`.
* `RequireAuth` (`pkg/middleware/auth.go`) is not mounted by the services' mains, so
  that as deployed the role in the context is empty and the orders handlers answer
  403. The models take a role from the context, as the handlers and tests do.

## Not modelled

* NiteTaps and the venue of a user: `LinkNiteTap` is one guarded UPDATE and
  `CreateNiteTap` is called by nothing; the venue only goes into a token's claims.
* The rate limit: it refuses requests, and a refused request changes nothing else.
* Heartbeats, sync attempts, names, stock and display order: written, never decided on.
* Venues, events and happy hours of the catalog: inserted and listed; nothing in the
  code acts on them.
* Routing in the gateway, the wallet and reporting services: they keep no state.
* Password hashing, signatures and the encoding of tokens.
* Web applications, infrastructure and the Android placeholders.

## Plan

Ledger, orders, payments, sessions, ticketing, edge with sync, and access are
modelled, checked and proved. What would add most from here:

1. Two edge nodes in one instance, for the keys they may share.
2. The composition of `Access` with the handlers that read the role of a token.
3. The safety half of the liveness properties: what a payment that is not credited yet
   is waiting for.
