--------------------------- MODULE PaymentsProofs ----------------------------
(***************************************************************************)
(* Theorems about Payments for any number of users, keys, intents,         *)
(* requests and deliveries, whatever fails and whatever the provider       *)
(* forgets.                                                                *)
(***************************************************************************)
EXTENDS Payments, LedgerProofs, SequenceTheorems

\* The ledger keys of different top-ups differ.
LEMMA KeysDiffer ==
    \A j, k \in TopupKeys : ConfirmedKey(j) = ConfirmedKey(k) => j = k
BY DEF ConfirmedKey

\* A top-up is worth a natural number of NC, and never more than is charged.
LEMMA WorthIsCharged ==
    ASSUME NEW a \in Amounts
    PROVE  /\ CHFToNC(a) \in Nat
           /\ Charged[a] \in Nat
           /\ 100 * CHFToNC(a) <= Charged[a]
           /\ 100 * CHFToNC(a) <= a
<1>1. a \in Nat \ {0}
  BY PaymentsAssumption
<1>2. Charged[a] \in (IF a % 100 = 0 THEN {a} ELSE {a - 1, a})
  BY ChargedAssumption, Zenon
<1>3. /\ a \div 100 \in Nat /\ a % 100 \in 0 .. 99
      /\ a = (100 * (a \div 100)) + (a % 100)
  BY <1>1
<1>4. Charged[a] = a \/ (Charged[a] = a - 1 /\ a % 100 # 0)
  BY <1>2
<1>. QED  BY <1>1, <1>3, <1>4 DEF CHFToNC

-----------------------------------------------------------------------------
\* What a step does to the intents

\* The intents are known by position.
LEMMA IntentsAreNumbered ==
    ASSUME intents \in Seq(Intent)
    PROVE  /\ Len(intents) \in Nat
           /\ Intents = 1 .. Len(intents)
           /\ \A i \in Intents : intents[i] \in Intent
BY LenProperties, ElementOfSeq DEF Intents

\* Ids of Stripe and ids of the mock provider differ.
LEMMA IdsDiffer ==
    ASSUME intents \in Seq(Intent), NEW i \in Intents
    PROVE  i \notin MockIds
<1>1. i \in Nat
  BY IntentsAreNumbered
<1>. QED  BY <1>1, MockAssumption

\* The intent of a request is an intent id.
LEMMA IntentsInRange ==
    ASSUME PaymentsTypeOK
    PROVE  /\ Intents \subseteq 1 .. MaxIntents
           /\ \A i, a : \A u \in Users, k \in TopupKeys :
                 MadeFor(i, k, u, a) => i \in IntentIds
<1>1. Intents \subseteq 1 .. MaxIntents
  BY IntentsAreNumbered, PaymentsAssumption DEF PaymentsTypeOK
<1>2. \A u \in Users, k \in TopupKeys : MockId[<<u, k>>] \in MockIds
  BY MockAssumption
<1>. QED  BY <1>1, <1>2 DEF MadeFor, IntentIds

\* What a step may make of intent i.
Progress(i, new) ==
    LET old == intents[i] IN
    /\ new \in Intent
    /\ new.key = old.key /\ new.user_id = old.user_id /\ new.amount = old.amount
    /\ old.shown => new.shown
    /\ old.status = "succeeded" => new.status = "succeeded"
    /\ old.acked => new.acked

\* An intent nobody has been given yet.
Unused(x) == ~x.shown /\ x.status = "open" /\ ~x.acked

IntentsStep ==
    \/ intents' = intents
    \/ /\ Len(intents) < MaxIntents
       /\ \E x \in Intent : Unused(x) /\ intents' = Append(intents, x)
    \/ \E i \in Intents, x \in Intent : Progress(i, x) /\ intents' = [intents EXCEPT ![i] = x]

\* What follows for each intent.
IntentsKept ==
    /\ intents' \in Seq(Intent) /\ Len(intents)' <= MaxIntents
    /\ \A i \in Intents : i \in Intents' /\ Progress(i, intents'[i])
    /\ \A i \in Intents' \ Intents : Unused(intents'[i])

\* No step changes what an intent is for, takes it back or forgets its payment.
LEMMA IntentsStayed ==
    ASSUME PaymentsTypeOK, IntentsStep
    PROVE  IntentsKept
<1>0. /\ intents \in Seq(Intent) /\ Len(intents) <= MaxIntents /\ Len(intents) \in Nat
      /\ MaxIntents \in Nat
      /\ Intents = 1 .. Len(intents)
      /\ \A i \in Intents : intents[i] \in Intent
  BY IntentsAreNumbered, PaymentsAssumption DEF PaymentsTypeOK
<1>1. \A i \in Intents : Progress(i, intents[i])
  BY <1>0 DEF Progress
<1>2. CASE intents' = intents
  BY <1>0, <1>1, <1>2 DEF IntentsKept, Intents
<1>3. ASSUME Len(intents) < MaxIntents, NEW x \in Intent, Unused(x),
             intents' = Append(intents, x)
      PROVE  IntentsKept
  <2>1. /\ intents' \in Seq(Intent) /\ Len(intents') = Len(intents) + 1
        /\ \A i \in 1 .. Len(intents) : intents'[i] = intents[i]
        /\ intents'[Len(intents) + 1] = x
    BY <1>0, <1>3, AppendProperties
  <2>2. Intents' = 1 .. Len(intents) + 1
    BY <2>1, LenProperties DEF Intents
  <2>3. Intents' \ Intents = {Len(intents) + 1}
    BY <1>0, <2>2
  <2>4. Len(intents') <= MaxIntents
    BY <1>0, <1>3, <2>1
  <2>. QED  BY <1>0, <1>1, <1>3, <2>1, <2>2, <2>3, <2>4 DEF IntentsKept
<1>4. ASSUME NEW i \in Intents, NEW x, Progress(i, x),
             intents' = [intents EXCEPT ![i] = x]
      PROVE  IntentsKept
  <2>1. /\ intents' \in Seq(Intent) /\ Len(intents') = Len(intents)
        /\ \A j \in 1 .. Len(intents) : intents'[j] = IF j = i THEN x ELSE intents[j]
    BY <1>0, <1>4, ExceptSeq DEF Progress
  <2>2. Intents' = Intents
    BY <1>0, <2>1, LenProperties DEF Intents
  <2>. QED  BY <1>0, <1>1, <1>4, <2>1, <2>2 DEF IntentsKept
<1>. QED  BY <1>2, <1>3, <1>4 DEF IntentsStep

\* Every step moves at most one intent.
LEMMA IntentsStepped ==
    ASSUME PInv, [Next]_vars
    PROVE  IntentsStep
<1>0. /\ intents \in Seq(Intent) /\ Len(intents) \in Nat
      /\ Intents = 1 .. Len(intents)
      /\ \A i \in Intents : intents[i] \in Intent
  BY IntentsAreNumbered DEF PInv, PaymentsTypeOK
<1>1. ASSUME intents' = intents PROVE IntentsStep
  BY <1>1 DEF IntentsStep
<1>2. ASSUME NEW i \in Intents, Decline(i) PROVE IntentsStep
  <2>. DEFINE x == [intents[i] EXCEPT !.status = "declined"]
  <2>1. Progress(i, x)
    BY <1>0, <1>2 DEF Progress, Intent, Decline
  <2>2. intents' = [intents EXCEPT ![i] = x]
    BY <1>2 DEF Decline
  <2>3. x \in Intent
    BY <2>1 DEF Progress
  <2>. HIDE DEF x
  <2>. QED  BY <2>1, <2>2, <2>3 DEF IntentsStep
<1>3. ASSUME NEW i \in Intents, Pay(i) PROVE IntentsStep
  <2>. DEFINE x == [intents[i] EXCEPT !.status = "succeeded"]
  <2>1. Progress(i, x)
    BY <1>0 DEF Progress, Intent
  <2>2. intents' = [intents EXCEPT ![i] = x]
    BY <1>3 DEF Pay
  <2>3. x \in Intent
    BY <2>1 DEF Progress
  <2>. HIDE DEF x
  <2>. QED  BY <2>1, <2>2, <2>3 DEF IntentsStep
<1>4. ASSUME NEW i \in Intents, ForgetKey(i) PROVE IntentsStep
  <2>. DEFINE x == [intents[i] EXCEPT !.remembered = FALSE]
  <2>1. Progress(i, x)
    BY <1>0 DEF Progress, Intent
  <2>2. intents' = [intents EXCEPT ![i] = x]
    BY <1>4 DEF ForgetKey
  <2>3. x \in Intent
    BY <2>1 DEF Progress
  <2>. HIDE DEF x
  <2>. QED  BY <2>1, <2>2, <2>3 DEF IntentsStep
<1>5. ASSUME NEW i \in Intents, intents' = [intents EXCEPT ![i].acked = TRUE]
      PROVE  IntentsStep
  <2>. DEFINE x == [intents[i] EXCEPT !.acked = TRUE]
  <2>1. Progress(i, x)
    BY <1>0 DEF Progress, Intent
  <2>2. intents' = [intents EXCEPT ![i] = x]
    BY <1>5
  <2>3. x \in Intent
    BY <2>1 DEF Progress
  <2>. HIDE DEF x
  <2>. QED  BY <2>1, <2>2, <2>3 DEF IntentsStep
<1>6. ASSUME NEW r \in Slots, CreateTopup(r), slots[r].intent \in Intents
      PROVE  IntentsStep
  <2>. DEFINE i == slots[r].intent
              x == [intents[i] EXCEPT !.shown = TRUE]
  <2>1. i \in Intents
    BY <1>6
  <2>2. Progress(i, x)
    <3>1. intents[i] \in Intent
      BY <1>0, <2>1
    <3>. HIDE DEF i
    <3>. QED  BY <3>1 DEF Progress, Intent
  <2>3. intents' = [intents EXCEPT ![i] = x]
    BY <1>6 DEF CreateTopup
  <2>4. x \in Intent
    BY <2>2 DEF Progress
  <2>. HIDE DEF i, x
  <2>. QED  BY <2>1, <2>2, <2>3, <2>4 DEF IntentsStep
<1>7. ASSUME NEW r \in Slots, NEW k \in TopupKeys, NEW u \in Users, NEW a \in Amounts,
             CreateIntent(r, k, u, a)
      PROVE  IntentsStep
  <2>. DEFINE x == NewIntent(k, u, a)
  <2>1. x \in Intent /\ Unused(x)
    BY WorthIsCharged DEF NewIntent, Intent, Unused
  <2>2. CASE intents' # intents
    <3>1. PICK i \in 1 .. MaxIntents :
             i = Len(intents) + 1 /\ intents' = Append(intents, x)
      BY <1>7, <2>2 DEF CreateIntent
    <3>2. Len(intents) + 1 <= MaxIntents /\ MaxIntents \in Nat
      BY <3>1, PaymentsAssumption
    <3>3. Len(intents) < MaxIntents
      BY <1>0, <3>2
    <3>. QED  BY <2>1, <3>1, <3>3 DEF IntentsStep
  <2>. QED  BY <1>1, <2>2
<1>8. ASSUME NEW h \in Hooks, Ack(h), hooks[h].pc # "idle" PROVE IntentsStep
  <2>1. hooks[h].via = "stripe" => hooks[h].intent \in Intents
    BY <1>8 DEF PInv, HooksKnow, HookKnows
  <2>. QED  BY <1>1, <1>5, <1>8, <2>1 DEF Ack
<1>9. ASSUME NEW h \in Hooks, LookupTopup(h) \/ CreditTopup(h) PROVE IntentsStep
  BY <1>1, <1>8, <1>9 DEF LookupTopup, CreditTopup, PostCredit
<1>10. ASSUME NEW r \in Slots, CreateTopup(r) PROVE IntentsStep
  BY <1>1, <1>6, <1>10 DEF CreateTopup
<1>. QED
  BY <1>1, <1>2, <1>3, <1>4, <1>7, <1>9, <1>10
     DEF Next, vars, pay_vars, CreateMockIntent, AbandonIntent, PostPending,
         ReceiveWebhook, ReceiveMockWebhook, LoseCreditAnswer, FailWebhook

-----------------------------------------------------------------------------
\* What a step does to the rows

\* A row that request s inserts.
InsertedBy(s, row) ==
    /\ row.user_id = s.user /\ row.amount_chf = s.chf
    /\ row.amount_nc = CHFToNC(s.chf)
    /\ row.provider_intent_id = s.intent
    /\ row.status = "pending"

SameTopup(old, new) ==
    /\ new.user_id = old.user_id /\ new.amount_chf = old.amount_chf
    /\ new.amount_nc = old.amount_nc
    /\ new.provider_intent_id = old.provider_intent_id
    /\ old.status = "confirmed" => new.status = "confirmed"

\* A step leaves key k without a row, inserts one for a waiting request, or keeps
\* the row, and may confirm it when its intent was paid or for the mock webhook.
RowStep(k) ==
    \/ ~Exists(k) /\ ~Exists(k)'
    \/ /\ ~Exists(k) /\ Exists(k)'
       /\ \E r \in Slots : /\ slots[r].pc = "store" /\ slots[r].key = k
                           /\ InsertedBy(slots[r], topups'[k])
    \/ /\ Exists(k) /\ Exists(k)'
       /\ SameTopup(topups[k], topups'[k])
       /\ topups'[k].status = "confirmed" =>
             \/ topups[k].status = "confirmed"
             \/ IsPaid(k)
             \/ k \in mocked'

\* At most one key gets a row.
RowsStep ==
    /\ topups' \in [TopupKeys -> TopupRow \cup {NoTopup}]
    /\ mocked \subseteq mocked' /\ mocked' \subseteq TopupKeys
    /\ \A k \in TopupKeys : RowStep(k)
    /\ \E j : \A k \in TopupKeys \ {j} : Exists(k)' => Exists(k)

\* Stripe sends a success event for a paid intent only.
LEMMA ReceivedIsPaid ==
    ASSUME PInv, NEW h \in Hooks, NEW i \in Intents, ReceiveWebhook(h, i)
    PROVE  intents[i].status = "succeeded"
<1>1. PICK type \in EventsOf(i) : type = "payment_intent.succeeded"
  BY DEF ReceiveWebhook, IsSuccess
<1>2. intents[i] \in Intent
  BY IntentsAreNumbered DEF PInv, PaymentsTypeOK
<1>3. CASE intents[i].status = "open"
  BY <1>1, <1>3 DEF EventsOf
<1>4. CASE intents[i].status = "declined"
  BY <1>1, <1>4 DEF EventsOf
<1>. QED  BY <1>2, <1>3, <1>4 DEF Intent

\* The rows that a webhook confirms.
LEMMA WaitingKnown ==
    ASSUME PInv, NEW i, NEW k \in Waiting(i)
    PROVE  /\ k \in TopupKeys /\ Exists(k) /\ topups[k] \in TopupRow
           /\ topups[k].provider_intent_id = i /\ k \in OfIntent(i)
BY DEF Waiting, OfIntent, Exists, PInv, PaymentsTypeOK

\* A webhook of either kind confirms rows of its intent and changes nothing else
\* in them.
LEMMA RowsConfirmed ==
    ASSUME PInv, NEW h, NEW via, NEW i, ConfirmTopup(h, via, i),
           mocked \subseteq mocked', mocked' \subseteq TopupKeys,
           \A k \in Waiting(i) : IsPaid(k) \/ k \in mocked'
    PROVE  RowsStep
<1>0. topups \in [TopupKeys -> TopupRow \cup {NoTopup}]
  BY DEF PInv, PaymentsTypeOK
<1>1. CASE topups' = topups
  BY <1>0, <1>1 DEF RowsStep, RowStep, SameTopup, Exists
<1>2. CASE topups' # topups
  <2>1. topups' = [k \in TopupKeys |-> IF k \in Waiting(i)
                      THEN [topups[k] EXCEPT !.status = "confirmed"]
                      ELSE topups[k]]
    BY <1>2 DEF ConfirmTopup
  <2>2. ASSUME NEW k \in Waiting(i)
        PROVE  /\ k \in TopupKeys /\ Exists(k)
               /\ topups'[k] \in TopupRow
               /\ SameTopup(topups[k], topups'[k])
    <3>1. /\ k \in TopupKeys /\ Exists(k) /\ topups[k] \in TopupRow
          /\ topups'[k] = [topups[k] EXCEPT !.status = "confirmed"]
      BY <2>1, WaitingKnown
    <3>. QED  BY <3>1 DEF TopupRow, SameTopup
  <2>3. ASSUME NEW k \in TopupKeys, k \notin Waiting(i) PROVE topups'[k] = topups[k]
    BY <2>1, <2>3
  <2>4. topups' \in [TopupKeys -> TopupRow \cup {NoTopup}]
    <3>1. \A k \in TopupKeys : topups'[k] \in TopupRow \cup {NoTopup}
      BY <1>0, <2>2, <2>3
    <3>2. topups' = [k \in TopupKeys |-> topups'[k]]
      BY <2>1
    <3>. QED  BY <3>1, <3>2
  <2>5. ASSUME NEW k \in Waiting(i) PROVE RowStep(k)
    BY <2>2, NoTopupAssumption DEF RowStep, Exists
  <2>6. ASSUME NEW k \in TopupKeys, k \notin Waiting(i) PROVE RowStep(k)
    BY <2>3, <2>6 DEF RowStep, SameTopup, Exists
  <2>7. \A k \in TopupKeys : Exists(k)' => Exists(k)
    BY <2>2, <2>3 DEF Exists
  <2>. QED  BY <2>4, <2>5, <2>6, <2>7 DEF RowsStep
<1>. QED  BY <1>1, <1>2

\* A row is inserted once, for a request that waits, and confirmed after its
\* intent was paid or by the mock webhook; nothing else ever changes in it.
LEMMA RowsStepped ==
    ASSUME PInv, [Next]_vars
    PROVE  RowsStep
<1>0. topups \in [TopupKeys -> TopupRow \cup {NoTopup}] /\ mocked \subseteq TopupKeys
  BY DEF PInv, PaymentsTypeOK
<1>1. ASSUME topups' = topups, mocked' = mocked PROVE RowsStep
  BY <1>0, <1>1 DEF RowsStep, RowStep, SameTopup, Exists
<1>2. ASSUME NEW r \in Slots, CreateTopup(r) PROVE RowsStep
  <2>. DEFINE s == slots[r]
              row == [user_id |-> s.user, amount_chf |-> s.chf,
                      amount_nc |-> CHFToNC(s.chf),
                      provider_intent_id |-> s.intent, status |-> "pending"]
  <2>0. mocked' = mocked
    BY <1>2 DEF CreateTopup
  <2>1. CASE topups' # topups
    <3>1. /\ s.pc = "store" /\ ~Exists(s.key)
          /\ topups' = [topups EXCEPT ![s.key] = row]
      BY <1>2, <2>1 DEF CreateTopup, InsertTopup
    <3>2. /\ s.key \in TopupKeys /\ s.user \in Users /\ s.chf \in Amounts
          /\ MadeFor(s.intent, s.key, s.user, s.chf)
      BY <3>1 DEF PInv, RequestsKnow
    <3>3. s.intent \in IntentIds
      BY <3>2, IntentsInRange DEF PInv
    <3>4. row \in TopupRow /\ InsertedBy(s, row)
      BY <3>2, <3>3, WorthIsCharged DEF TopupRow, InsertedBy
    <3>5. row # NoTopup
      BY <3>4, NoTopupAssumption
    <3>. HIDE DEF row
    <3>6. /\ topups' \in [TopupKeys -> TopupRow \cup {NoTopup}]
          /\ topups'[s.key] = row
          /\ \A k \in TopupKeys \ {s.key} : topups'[k] = topups[k]
      BY <1>0, <3>1, <3>2, <3>4
    <3>7. RowStep(s.key)
      BY <3>1, <3>4, <3>5, <3>6 DEF RowStep, Exists
    <3>8. \A k \in TopupKeys \ {s.key} : RowStep(k) /\ (Exists(k)' => Exists(k))
      BY <3>6 DEF RowStep, SameTopup, Exists
    <3>. QED  BY <1>0, <2>0, <3>6, <3>7, <3>8 DEF RowsStep
  <2>. QED  BY <1>1, <2>0, <2>1
<1>3. ASSUME NEW h \in Hooks, NEW i \in Intents, ReceiveWebhook(h, i) PROVE RowsStep
  <2>1. ASSUME NEW k \in Waiting(i) PROVE IsPaid(k)
    BY <1>3, ReceivedIsPaid, WaitingKnown DEF IsPaid
  <2>. QED  BY <1>0, <1>3, <2>1, RowsConfirmed DEF ReceiveWebhook
<1>4. ASSUME NEW h \in Hooks, NEW i, ReceiveMockWebhook(h, i) PROVE RowsStep
  <2>1. ASSUME NEW k \in Waiting(i) PROVE k \in mocked' /\ k \in TopupKeys
    BY <1>4, WaitingKnown DEF ReceiveMockWebhook
  <2>. QED  BY <1>0, <1>4, <2>1, RowsConfirmed DEF ReceiveMockWebhook
<1>. QED
  BY <1>1, <1>2, <1>3, <1>4
     DEF Next, vars, pay_vars, Decline, Pay, ForgetKey, CreateIntent, CreateMockIntent,
         AbandonIntent, PostPending, LookupTopup, CreditTopup, LoseCreditAnswer,
         PostCredit, FailWebhook

-----------------------------------------------------------------------------
\* What a step does to the ledger

\* The credit of top-up k.
CreditOf(k, row) ==
    /\ row \in LedgerRow(Keys)
    /\ row.event_type = "topup_confirmed"
    /\ row.idempotency_key = ConfirmedKey(k)
    /\ row.user_id = topups[k].user_id
    /\ row.amount_nc = topups[k].amount_nc

LedgerStep ==
    \/ ledger_events' = ledger_events
    \/ \E k \in TopupKeys, row \in LedgerRow(Keys) :
          /\ Exists(k) /\ topups[k].status = "confirmed"
          /\ CreditOf(k, row)
          /\ ~KeyTaken(ConfirmedKey(k))
          /\ ledger_events' = ledger_events \cup {row}

\* A webhook handler that comes to the ledger has a confirmed row.
LEMMA HookHasRow ==
    ASSUME PInv, NEW h \in Hooks, hooks[h].pc = "credit"
    PROVE  LET k == hooks[h].key IN
           /\ k \in TopupKeys /\ Exists(k) /\ topups[k] \in TopupRow
           /\ topups[k].status = "confirmed"
           /\ k \in OfIntent(hooks[h].intent)
<1>1. hooks[h].key \in OfIntent(hooks[h].intent) /\ topups[hooks[h].key].status = "confirmed"
  BY DEF PInv, HooksKnow, HookKnows
<1>. QED  BY <1>1 DEF OfIntent, Exists, PInv, PaymentsTypeOK

\* The ledger refuses topup_pending as payments sends it.
LEMMA PendingRefused ==
    ASSUME NEW p
    PROVE  ~Accepts("payments", PendingRequest(p))
BY DEF Accepts, PendingRequest, WriteRequest

\* Only webhooks write to the ledger, and what they write is the credit of a
\* confirmed row.
LEMMA LedgerStepped ==
    ASSUME PInv, [Next]_vars
    PROVE  LedgerStep /\ [LedgerAppend]_ledger_events
<1>1. ASSUME ledger_events' = ledger_events
      PROVE  LedgerStep /\ [LedgerAppend]_ledger_events
  BY <1>1 DEF LedgerStep
<1>2. ASSUME NEW h \in Hooks, PostCredit(h)
      PROVE  LedgerStep /\ [LedgerAppend]_ledger_events
  <2>. DEFINE k == hooks[h].key
              req == CreditRequest(h, k)
              row == Row("payments", req)
  <2>1. CASE ledger_events' # ledger_events
    <3>1. WriteEvent("payments", req) /\ hooks[h].pc = "credit"
      BY <1>2 DEF PostCredit
    <3>2. /\ k \in TopupKeys /\ Exists(k) /\ topups[k] \in TopupRow
          /\ topups[k].status = "confirmed"
      BY <3>1, HookHasRow
    <3>3. /\ Accepts("payments", req) /\ ~KeyTaken(req.idempotency_key)
          /\ ledger_events' = ledger_events \cup {row}
      BY <2>1, <3>1, WriteEventAppends
    <3>4. req.idempotency_key = ConfirmedKey(k) /\ req.amount_nc = topups[k].amount_nc
      BY DEF CreditRequest, WriteRequest
    <3>5. topups[k].amount_nc \in Nat \ {0} /\ topups[k].user_id \in Users
      BY <3>2, <3>3, <3>4 DEF Accepts, Validate, TopupRow
    <3>6. CreditOf(k, row)
      BY <3>2, <3>5 DEF CreditOf, Row, CreditRequest, WriteRequest, LedgerRow, Keys,
                        AuthorisedWriters
    <3>7. LedgerStep
      BY <3>2, <3>3, <3>4, <3>6 DEF LedgerStep, CreditOf
    <3>. QED  BY <3>1, <3>7, WriteEventContract
  <2>. QED  BY <1>1, <2>1
<1>3. ASSUME NEW p \in pending, PostPending(p)
      PROVE  LedgerStep /\ [LedgerAppend]_ledger_events
  BY <1>1, <1>3, PendingRefused DEF PostPending, WriteEvent
<1>. QED
  BY <1>1, <1>2, <1>3
     DEF Next, vars, pay_vars, Decline, Pay, ForgetKey, CreateIntent, CreateMockIntent,
         CreateTopup, AbandonIntent, ReceiveWebhook, ReceiveMockWebhook, LookupTopup,
         CreditTopup, LoseCreditAnswer, FailWebhook

-----------------------------------------------------------------------------
\* The invariant is kept

\* What an intent was made for never changes.
LEMMA MadeForKept ==
    ASSUME IntentsKept, NEW i, NEW k, NEW u, NEW a, MadeFor(i, k, u, a)
    PROVE  MadeFor(i, k, u, a)'
BY DEF MadeFor, IntentsKept, Progress

\* A new row takes what its request knows of the intent, an old one keeps it.
LEMMA RowsHaveIntentsKept ==
    ASSUME PInv, IntentsKept, RowsStep
    PROVE  RowsHaveIntents'
<1>. DEFINE Backed(k, row) ==
              /\ MadeFor(row.provider_intent_id, k, row.user_id, row.amount_chf)
              /\ row.amount_nc = CHFToNC(row.amount_chf)
              /\ row.status = "confirmed" =>
                    \/ k \in mocked
                    \/ /\ row.provider_intent_id \in Intents
                       /\ intents[row.provider_intent_id].status = "succeeded"
<1>1. SUFFICES ASSUME NEW k \in TopupKeys, Exists(k)'
               PROVE  Backed(k, topups[k])'
  BY DEF RowsHaveIntents, IsPaid
<1>2. RowStep(k)
  BY DEF RowsStep
<1>3. ASSUME NEW r \in Slots, slots[r].pc = "store", slots[r].key = k,
             InsertedBy(slots[r], topups'[k])
      PROVE  Backed(k, topups[k])'
  <2>1. PICK i, u, a : i = slots[r].intent /\ u = slots[r].user /\ a = slots[r].chf
    OBVIOUS
  <2>2. MadeFor(i, k, u, a)'
    BY <1>3, <2>1, MadeForKept DEF PInv, RequestsKnow
  <2>. QED  BY <1>3, <2>1, <2>2 DEF InsertedBy, MadeFor
<1>4. ASSUME Exists(k), SameTopup(topups[k], topups'[k]),
             topups'[k].status = "confirmed" =>
                 topups[k].status = "confirmed" \/ IsPaid(k) \/ k \in mocked'
      PROVE  Backed(k, topups[k])'
  <2>1. PICK i, u, a : /\ i = topups[k].provider_intent_id
                       /\ u = topups[k].user_id /\ a = topups[k].amount_chf
    OBVIOUS
  <2>2. /\ MadeFor(i, k, u, a) /\ topups[k].amount_nc = CHFToNC(a)
        /\ topups[k].status = "confirmed" => k \in mocked \/ IsPaid(k)
    BY <1>4, <2>1 DEF PInv, RowsHaveIntents
  <2>3. MadeFor(i, k, u, a)'
    BY <2>2, MadeForKept
  <2>4. IsPaid(k) => i \in Intents' /\ intents'[i].status = "succeeded"
    BY <2>1 DEF IsPaid, IntentsKept, Progress
  <2>5. mocked \subseteq mocked'
    BY DEF RowsStep
  <2>. QED  BY <1>4, <2>1, <2>2, <2>3, <2>4, <2>5 DEF SameTopup, MadeFor
<1>. QED  BY <1>1, <1>2, <1>3, <1>4 DEF RowStep

\* A step adds at most one row.
LEMMA RowsFiniteKept ==
    ASSUME RowsFinite, RowsStep
    PROVE  RowsFinite'
<1>1. PICK j : \A k \in TopupKeys \ {j} : Exists(k)' => Exists(k)
  BY DEF RowsStep
<1>2. PICK S : S = {k \in TopupKeys : Exists(k)}
  OBVIOUS
<1>3. IsFiniteSet(S \cup {j})
  BY <1>2, FS_AddElement DEF RowsFinite
<1>4. {k \in TopupKeys : Exists(k)}' \subseteq S \cup {j}
  BY <1>1, <1>2
<1>. QED  BY <1>3, <1>4, FS_Subset DEF RowsFinite

\* An intent of Stripe has at most one row, that of the key it was made for.
LEMMA RowOfIntent ==
    ASSUME RowsHaveIntents, PaymentsTypeOK, NEW i \in Intents, NEW k \in OfIntent(i)
    PROVE  k \in TopupKeys /\ Exists(k) /\ k = intents[i].key
<1>1. /\ k \in TopupKeys /\ Exists(k) /\ topups[k].provider_intent_id = i
      /\ topups[k] \in TopupRow
  BY DEF OfIntent, PaymentsTypeOK, Exists
<1>2. MockId[<<topups[k].user_id, k>>] \in MockIds
  BY <1>1, MockAssumption DEF TopupRow
<1>3. i \notin MockIds
  BY IdsDiffer DEF PaymentsTypeOK
<1>. QED  BY <1>1, <1>2, <1>3 DEF RowsHaveIntents, MadeFor

\* Rows stay.
LEMMA RowsStay ==
    ASSUME RowsStep, NEW k \in TopupKeys, Exists(k)
    PROVE  Exists(k)' /\ SameTopup(topups[k], topups'[k])
BY DEF RowsStep, RowStep

\* Once the key of an intent has a row, the rows of the intent are what they are.
LEMMA RowsOfIntentStay ==
    ASSUME PInv, IntentsKept, RowsStep, NEW i \in Intents, Exists(intents[i].key)
    PROVE  OfIntent(i)' = OfIntent(i)
<1>1. PICK k \in TopupKeys : k = intents[i].key
  BY IntentsAreNumbered DEF PInv, PaymentsTypeOK, Intent
<1>2. OfIntent(i)' \subseteq {k} /\ OfIntent(i) \subseteq {k}
  <2>1. RowsHaveIntents'
    BY RowsHaveIntentsKept
  <2>2. i \in Intents' /\ intents'[i].key = k /\ intents' \in Seq(Intent)
    BY <1>1 DEF IntentsKept, Progress
  <2>3. OfIntent(i) \subseteq {k}
    BY <1>1, RowOfIntent DEF PInv
  <2>4. ASSUME NEW j \in OfIntent(i)' PROVE j = k
    <3>1. /\ j \in TopupKeys /\ Exists(j)' /\ topups'[j].provider_intent_id = i
          /\ topups'[j] \in TopupRow
      BY DEF OfIntent, RowsStep, Exists
    <3>2. MockId[<<topups'[j].user_id, j>>] \in MockIds
      BY <3>1, MockAssumption DEF TopupRow
    <3>3. i \notin MockIds
      BY IdsDiffer DEF PInv, PaymentsTypeOK
    <3>. QED  BY <2>1, <2>2, <3>1, <3>2, <3>3 DEF RowsHaveIntents, MadeFor
  <2>. QED  BY <2>3, <2>4
<1>3. Exists(k) /\ Exists(k)' /\ SameTopup(topups[k], topups'[k])
  BY <1>1, RowsStay
<1>4. k \in OfIntent(i) <=> k \in OfIntent(i)'
  BY <1>3 DEF OfIntent, SameTopup
<1>. QED  BY <1>2, <1>4

\* How a step may move intent i.
IntentMoved(i) ==
    LET old == intents[i]
        new == intents'[i]
    IN  \/ new = old
        \/ new = [old EXCEPT !.remembered = FALSE]
        \/ /\ old.shown
           /\ \/ old.status = "open" /\ new = [old EXCEPT !.status = "declined"]
              \/ new = [old EXCEPT !.status = "succeeded"]
        \/ /\ \E r \in Slots : CreateTopup(r) /\ slots[r].intent = i
           /\ new = [old EXCEPT !.shown = TRUE]
        \/ /\ \E h \in Hooks : /\ LookupTopup(h) \/ CreditTopup(h)
                             /\ hooks[h].via = "stripe" /\ hooks[h].intent = i
           /\ new = [old EXCEPT !.acked = TRUE]

\* An intent is declined or paid by who was given it, given by CreateTopup and
\* acknowledged by one of Stripe's webhooks for it.
LEMMA IntentsMoved ==
    ASSUME PInv, [Next]_vars, NEW i \in Intents
    PROVE  IntentMoved(i)
<1>0. /\ intents \in Seq(Intent) /\ Len(intents) \in Nat
      /\ Intents = 1 .. Len(intents)
      /\ intents[i] \in Intent
  BY IntentsAreNumbered DEF PInv, PaymentsTypeOK
<1>1. ASSUME intents'[i] = intents[i] PROVE IntentMoved(i)
  BY <1>1 DEF IntentMoved
<1>2. ASSUME NEW j, NEW x, intents' = [intents EXCEPT ![j] = x]
      PROVE  intents'[i] = IF i = j THEN x ELSE intents[i]
  BY <1>2 DEF Intents
<1>3. ASSUME NEW j, Decline(j) \/ Pay(j) \/ ForgetKey(j) PROVE IntentMoved(i)
  <2>1. \/ intents' = [intents EXCEPT ![j] = [intents[j] EXCEPT !.status = "declined"]]
        \/ intents' = [intents EXCEPT ![j] = [intents[j] EXCEPT !.status = "succeeded"]]
        \/ intents' = [intents EXCEPT ![j] = [intents[j] EXCEPT !.remembered = FALSE]]
    BY <1>3 DEF Decline, Pay, ForgetKey
  <2>2. CASE i = j
    <3>1. CASE Decline(j)
      <4>1. /\ intents'[i] = [intents[i] EXCEPT !.status = "declined"]
            /\ intents[i].shown /\ intents[i].status = "open"
        BY <1>2, <2>2, <3>1 DEF Decline
      <4>. QED  BY <4>1 DEF IntentMoved
    <3>2. CASE Pay(j)
      <4>1. intents'[i] = [intents[i] EXCEPT !.status = "succeeded"] /\ intents[i].shown
        BY <1>2, <2>2, <3>2 DEF Pay
      <4>. QED  BY <4>1 DEF IntentMoved
    <3>3. CASE ForgetKey(j)
      <4>1. intents'[i] = [intents[i] EXCEPT !.remembered = FALSE]
        BY <1>2, <2>2, <3>3 DEF ForgetKey
      <4>. QED  BY <4>1 DEF IntentMoved
    <3>. QED  BY <1>3, <3>1, <3>2, <3>3
  <2>3. CASE i # j
    <3>1. intents'[i] = intents[i]
      BY <1>2, <2>1, <2>3
    <3>. QED  BY <1>1, <3>1
  <2>. QED  BY <2>2, <2>3
<1>4. ASSUME NEW r \in Slots, CreateTopup(r) PROVE IntentMoved(i)
  <2>1. PICK j : j = slots[r].intent
    OBVIOUS
  <2>2. \/ intents' = intents
        \/ intents' = [intents EXCEPT ![j] = [intents[j] EXCEPT !.shown = TRUE]]
    BY <1>4, <2>1 DEF CreateTopup
  <2>3. CASE intents' = [intents EXCEPT ![j] = [intents[j] EXCEPT !.shown = TRUE]]
    <3>1. intents'[i] = IF i = j THEN [intents[j] EXCEPT !.shown = TRUE] ELSE intents[i]
      BY <1>2, <2>3
    <3>. QED  BY <1>1, <1>4, <2>1, <3>1 DEF IntentMoved
  <2>. QED  BY <1>1, <2>2, <2>3
<1>5. ASSUME NEW j, NEW h \in Hooks, LookupTopup(h) \/ CreditTopup(h),
             hooks[h].via = "stripe", hooks[h].intent = j,
             intents' = [intents EXCEPT ![j] = [intents[j] EXCEPT !.acked = TRUE]]
      PROVE  IntentMoved(i)
  <2>1. intents'[i] = IF i = j THEN [intents[j] EXCEPT !.acked = TRUE] ELSE intents[i]
    BY <1>2, <1>5
  <2>. QED  BY <1>1, <1>5, <2>1 DEF IntentMoved
<1>6. ASSUME NEW h \in Hooks, LookupTopup(h) \/ CreditTopup(h) PROVE IntentMoved(i)
  <2>1. intents' = intents \/ Ack(h)
    BY <1>6 DEF LookupTopup, CreditTopup
  <2>2. PICK j : j = hooks[h].intent
    OBVIOUS
  <2>3. \/ intents' = intents
        \/ /\ hooks[h].via = "stripe"
           /\ intents' = [intents EXCEPT ![j] = [intents[j] EXCEPT !.acked = TRUE]]
    BY <2>1, <2>2 DEF Ack
  <2>. QED  BY <1>1, <1>5, <1>6, <2>2, <2>3
<1>7. ASSUME NEW r \in Slots, NEW k \in TopupKeys, NEW u \in Users, NEW a \in Amounts,
             CreateIntent(r, k, u, a)
      PROVE  IntentMoved(i)
  <2>1. CASE intents' = Append(intents, NewIntent(k, u, a))
    <3>1. NewIntent(k, u, a) \in Intent
      BY WorthIsCharged DEF NewIntent, Intent
    <3>2. intents'[i] = intents[i]
      BY <1>0, <2>1, <3>1, AppendProperties
    <3>. QED  BY <1>1, <3>2
  <2>. QED  BY <1>1, <1>7, <2>1 DEF CreateIntent
<1>. QED
  BY <1>1, <1>3, <1>4, <1>6, <1>7
     DEF Next, vars, pay_vars, CreateMockIntent, AbandonIntent, PostPending,
         ReceiveWebhook, ReceiveMockWebhook, LoseCreditAnswer, FailWebhook

\* Intents are shown once there is a row, and so on.
LEMMA IntentsProgressKept ==
    ASSUME PInv, [Next]_vars, IntentsKept, RowsStep
    PROVE  IntentsProgress'
<1>1. SUFFICES ASSUME NEW i \in Intents'
               PROVE  /\ intents'[i].shown => Exists(intents[i].key)'
                      /\ intents'[i].status # "open" => intents'[i].shown
                      /\ intents'[i].acked => intents'[i].status = "succeeded"
  BY DEF IntentsProgress
<1>2. CASE i \notin Intents
  BY <1>2 DEF IntentsKept, Unused
<1>3. CASE i \in Intents
  <2>1. PICK k \in TopupKeys : k = intents[i].key
    BY <1>3, IntentsAreNumbered DEF PInv, PaymentsTypeOK, Intent
  <2>2. /\ intents[i] \in Intent
        /\ intents[i].shown => Exists(k)
        /\ intents[i].status # "open" => intents[i].shown
        /\ intents[i].acked => intents[i].status = "succeeded"
        /\ intents'[i].key = k
    BY <1>3, <2>1, IntentsAreNumbered
       DEF PInv, PaymentsTypeOK, IntentsProgress, IntentsKept, Progress
  <2>3. Exists(k) => Exists(k)'
    BY RowsStay
  <2>4. ASSUME NEW r \in Slots, CreateTopup(r), slots[r].intent = i PROVE Exists(k)'
    <3>1. slots[r].key = k
      <4>1. /\ slots[r].user \in Users /\ slots[r].key \in TopupKeys
            /\ MadeFor(i, slots[r].key, slots[r].user, slots[r].chf)
        BY <2>4 DEF CreateTopup, PInv, RequestsKnow
      <4>2. i \notin MockIds /\ MockId[<<slots[r].user, slots[r].key>>] \in MockIds
        BY <1>3, <4>1, IdsDiffer, MockAssumption DEF PInv, PaymentsTypeOK
      <4>. QED  BY <2>1, <4>1, <4>2 DEF MadeFor
    <3>2. CASE ~Exists(k)
      <4>1. topups'[k] = [user_id |-> slots[r].user, amount_chf |-> slots[r].chf,
                          amount_nc |-> CHFToNC(slots[r].chf),
                          provider_intent_id |-> i, status |-> "pending"]
        BY <2>4, <3>1, <3>2 DEF CreateTopup, InsertTopup, PInv, PaymentsTypeOK
      <4>2. topups'[k] \in TopupRow
        <5>1. slots[r].user \in Users /\ slots[r].chf \in Amounts /\ i \in IntentIds
          BY <1>3, <2>4, IntentsInRange DEF CreateTopup, PInv, RequestsKnow, IntentIds
        <5>. QED  BY <4>1, <5>1, WorthIsCharged DEF TopupRow
      <4>. QED  BY <4>2, NoTopupAssumption DEF Exists
    <3>. QED  BY <2>3, <3>2
  <2>5. ASSUME NEW h \in Hooks, LookupTopup(h) \/ CreditTopup(h),
               hooks[h].via = "stripe", hooks[h].intent = i
        PROVE  intents[i].status = "succeeded"
    BY <2>5 DEF LookupTopup, CreditTopup, PostCredit, PInv, HooksKnow, HookKnows
  <2>6. IntentMoved(i)
    BY <1>3, IntentsMoved
  <2>7. Exists(intents[i].key)' <=> Exists(k)'
    BY <2>2 DEF Exists
  <2>8. CASE intents'[i] = [intents[i] EXCEPT !.acked = TRUE]
             /\ intents[i].status = "succeeded"
    BY <2>2, <2>3, <2>7, <2>8 DEF Intent
  <2>9. CASE intents'[i] = [intents[i] EXCEPT !.shown = TRUE] /\ Exists(k)'
    BY <2>2, <2>7, <2>9 DEF Intent
  <2>10. CASE intents'[i] = [intents[i] EXCEPT !.remembered = FALSE]
              \/ intents'[i] = intents[i]
    BY <2>2, <2>3, <2>7, <2>10 DEF Intent
  <2>11. CASE /\ intents[i].shown
              /\ \/ /\ intents[i].status = "open"
                    /\ intents'[i] = [intents[i] EXCEPT !.status = "declined"]
                 \/ intents'[i] = [intents[i] EXCEPT !.status = "succeeded"]
    BY <2>2, <2>3, <2>7, <2>11 DEF Intent
  <2>. QED  BY <2>4, <2>5, <2>6, <2>8, <2>9, <2>10, <2>11 DEF IntentMoved
<1>. QED  BY <1>2, <1>3

\* A request in progress knows its intent.
LEMMA RequestsKnowKept ==
    ASSUME PInv, [Next]_vars, IntentsKept
    PROVE  RequestsKnow' /\ slots' \in [Slots -> CreateSlot]
<1>0. slots \in [Slots -> CreateSlot] /\ RequestsKnow
  BY DEF PInv, PaymentsTypeOK
<1>. DEFINE Knows(s) == s.pc = "store" =>
                          /\ s.key \in TopupKeys /\ s.user \in Users /\ s.chf \in Amounts
                          /\ MadeFor(s.intent, s.key, s.user, s.chf)
<1>1. ASSUME NEW r \in Slots, slots'[r] = slots[r] PROVE Knows(slots[r])'
  <2>1. PICK s : s = slots[r]
    OBVIOUS
  <2>2. Knows(s)
    BY <1>0, <2>1 DEF RequestsKnow
  <2>3. s.pc = "store" => MadeFor(s.intent, s.key, s.user, s.chf)'
    BY <2>2, MadeForKept
  <2>4. slots'[r] = s
    BY <1>1, <2>1
  <2>. QED  BY <2>2, <2>3, <2>4 DEF MadeFor
<1>2. CASE slots' = slots
  <2>1. RequestsKnow'
    BY <1>1, <1>2 DEF RequestsKnow
  <2>. QED  BY <1>0, <1>2, <2>1
<1>3. ASSUME NEW q \in Slots, slots' = [slots EXCEPT ![q] = Free]
      PROVE  RequestsKnow' /\ slots' \in [Slots -> CreateSlot]
  <2>1. Free \in CreateSlot /\ Free.pc = "idle"
    BY PaymentsAssumption DEF Free, CreateSlot
  <2>2. ASSUME NEW r \in Slots PROVE Knows(slots[r])'
    <3>1. CASE r = q
      BY <1>0, <1>3, <2>1, <3>1
    <3>2. CASE r # q
      BY <1>0, <1>1, <1>3, <3>2
    <3>. QED  BY <3>1, <3>2
  <2>3. RequestsKnow'
    BY <2>2 DEF RequestsKnow
  <2>. QED  BY <1>0, <1>3, <2>1, <2>3
<1>4. ASSUME NEW q \in Slots, NEW k \in TopupKeys, NEW u \in Users, NEW a \in Amounts,
             NEW i, HoldIntent(q, k, u, a, i), MadeFor(i, k, u, a)', i \in IntentIds
      PROVE  RequestsKnow' /\ slots' \in [Slots -> CreateSlot]
  <2>1. PICK s : s = [pc |-> "store", key |-> k, user |-> u, chf |-> a, intent |-> i]
    OBVIOUS
  <2>2. slots' = [slots EXCEPT ![q] = s]
    BY <1>4, <2>1 DEF HoldIntent
  <2>3. s \in CreateSlot
    BY <1>4, <2>1 DEF CreateSlot
  <2>4. ASSUME NEW r \in Slots PROVE Knows(slots[r])'
    <3>1. CASE r = q
      <4>1. slots'[r] = s
        BY <1>0, <2>2, <3>1
      <4>. QED  BY <1>4, <2>1, <4>1 DEF MadeFor
    <3>2. CASE r # q
      BY <1>0, <1>1, <2>2, <3>2
    <3>. QED  BY <3>1, <3>2
  <2>5. RequestsKnow'
    BY <2>4 DEF RequestsKnow
  <2>6. slots' \in [Slots -> CreateSlot]
    BY <1>0, <2>2, <2>3
  <2>. QED  BY <2>5, <2>6
<1>5. ASSUME NEW q \in Slots, NEW k \in TopupKeys, NEW u \in Users, NEW a \in Amounts,
             CreateIntent(q, k, u, a)
      PROVE  RequestsKnow' /\ slots' \in [Slots -> CreateSlot]
  <2>1. PICK i \in 1 .. MaxIntents :
           /\ \/ i \in Intents /\ SameRequest(i, k, u, a)
              \/ /\ i = Len(intents) + 1
                 /\ intents' = Append(intents, NewIntent(k, u, a))
           /\ HoldIntent(q, k, u, a, i)
    BY <1>5 DEF CreateIntent
  <2>2. MadeFor(i, k, u, a)'
    <3>1. CASE i \in Intents /\ SameRequest(i, k, u, a)
      BY <3>1, MadeForKept DEF SameRequest, MadeFor
    <3>2. CASE /\ i = Len(intents) + 1
               /\ intents' = Append(intents, NewIntent(k, u, a))
      <4>1. NewIntent(k, u, a) \in Intent
        BY WorthIsCharged DEF NewIntent, Intent
      <4>2. /\ intents' \in Seq(Intent) /\ Len(intents') = Len(intents) + 1
            /\ intents'[i] = NewIntent(k, u, a)
        BY <3>2, <4>1, AppendProperties DEF PInv, PaymentsTypeOK
      <4>3. i \in Intents'
        BY <2>1, <3>2, <4>2, LenProperties DEF Intents
      <4>. QED  BY <4>2, <4>3 DEF MadeFor, NewIntent
    <3>. QED  BY <2>1, <3>1, <3>2
  <2>. QED  BY <1>4, <2>1, <2>2 DEF IntentIds
<1>6. ASSUME NEW q \in Slots, NEW k \in TopupKeys, NEW u \in Users, NEW a \in Amounts,
             CreateMockIntent(q, k, u, a)
      PROVE  RequestsKnow' /\ slots' \in [Slots -> CreateSlot]
  <2>1. PICK i : i = MockId[<<u, k>>]
    OBVIOUS
  <2>2. MadeFor(i, k, u, a)' /\ i \in IntentIds
    BY <2>1, MockAssumption DEF MadeFor, IntentIds
  <2>. QED  BY <1>4, <1>6, <2>1, <2>2 DEF CreateMockIntent
<1>. QED
  BY <1>2, <1>3, <1>5, <1>6
     DEF Next, vars, pay_vars, Decline, Pay, ForgetKey, CreateTopup, AbandonIntent,
         PostPending, ReceiveWebhook, ReceiveMockWebhook, LookupTopup, CreditTopup,
         LoseCreditAnswer, PostCredit, FailWebhook

\* A row keeps its intent and stays confirmed.
LEMMA RowOfIntentStays ==
    ASSUME RowsStep, NEW i, NEW k \in OfIntent(i)
    PROVE  /\ k \in TopupKeys /\ k \in OfIntent(i)'
           /\ topups[k].status = "confirmed" => topups'[k].status = "confirmed"
<1>1. k \in TopupKeys /\ Exists(k) /\ topups[k].provider_intent_id = i
  BY DEF OfIntent
<1>2. Exists(k)' /\ SameTopup(topups[k], topups'[k])
  BY <1>1, RowsStay
<1>. QED  BY <1>1, <1>2 DEF OfIntent, SameTopup

\* A paid intent stays paid, and its rows are what they are.
LEMMA PaidStays ==
    ASSUME PInv, IntentsKept, RowsStep, NEW i \in Intents, intents[i].status = "succeeded"
    PROVE  /\ i \in IntentIds /\ i \in Intents'
           /\ intents'[i].status = "succeeded"
           /\ OfIntent(i)' = OfIntent(i)
<1>1. i \in IntentIds
  BY IntentsInRange DEF PInv, IntentIds
<1>2. i \in Intents' /\ intents'[i].status = "succeeded"
  BY DEF IntentsKept, Progress
<1>3. Exists(intents[i].key)
  BY DEF PInv, IntentsProgress
<1>. QED  BY <1>1, <1>2, <1>3, RowsOfIntentStay

\* What a webhook handler found stays true while it waits.
LEMMA HookKnowsKept ==
    ASSUME PInv, IntentsKept, RowsStep, NEW h \in Hooks, hooks'[h] = hooks[h]
    PROVE  HookKnows(hooks[h])'
<1>1. PICK x : x = hooks[h] /\ x = hooks'[h]
  OBVIOUS
<1>2. HookKnows(x)
  BY <1>1 DEF PInv, HooksKnow
<1>3. PICK i : i = x.intent
  OBVIOUS
<1>4. ASSUME x.pc # "idle", x.via = "stripe"
      PROVE  /\ i \in Intents' /\ intents'[i].status = "succeeded"
             /\ x.pc = "lookup" => \A k \in OfIntent(i)' : topups'[k].status = "confirmed"
  <2>1. /\ i \in Intents /\ intents[i].status = "succeeded"
        /\ x.pc = "lookup" => \A k \in OfIntent(i) : topups[k].status = "confirmed"
    BY <1>2, <1>3, <1>4 DEF HookKnows
  <2>. QED  BY <2>1, PaidStays, RowOfIntentStays
<1>5. ASSUME x.pc = "credit"
      PROVE  x.key \in OfIntent(i)' /\ topups'[x.key].status = "confirmed"
  <2>1. x.key \in OfIntent(i) /\ topups[x.key].status = "confirmed"
    BY <1>2, <1>3, <1>5 DEF HookKnows
  <2>. QED  BY <2>1, RowOfIntentStays
<1>. QED  BY <1>1, <1>3, <1>4, <1>5 DEF HookKnows

\* A webhook handler credits a confirmed row of its intent; one of Stripe's is
\* about a paid intent and looks a row up only when none is pending.
LEMMA HooksKnowKept ==
    ASSUME PInv, [Next]_vars, IntentsKept, RowsStep
    PROVE  HooksKnow' /\ hooks' \in [Hooks -> Hook]
<1>0. hooks \in [Hooks -> Hook] /\ HooksKnow
  BY DEF PInv, PaymentsTypeOK
<1>1. CASE hooks' = hooks
  <2>1. HooksKnow'
    BY <1>1, HookKnowsKept DEF HooksKnow
  <2>. QED  BY <1>0, <1>1, <2>1
<1>2. ASSUME NEW q \in Hooks, NEW x \in Hook, HookKnows(x)',
             hooks' = [hooks EXCEPT ![q] = x]
      PROVE  HooksKnow' /\ hooks' \in [Hooks -> Hook]
  <2>1. ASSUME NEW h \in Hooks PROVE HookKnows(hooks[h])'
    <3>1. CASE h = q
      <4>1. hooks'[h] = x
        BY <1>0, <1>2, <3>1
      <4>. QED  BY <1>2, <4>1 DEF HookKnows
    <3>2. CASE h # q
      BY <1>0, <1>2, <3>2, HookKnowsKept
    <3>. QED  BY <3>1, <3>2
  <2>2. HooksKnow'
    BY <2>1 DEF HooksKnow
  <2>. QED  BY <1>0, <1>2, <2>2
<1>3. ASSUME NEW q \in Hooks, HookDone(q)
      PROVE  HooksKnow' /\ hooks' \in [Hooks -> Hook]
  <2>1. Quiet \in Hook /\ HookKnows(Quiet)'
    BY DEF Quiet, Hook, HookKnows
  <2>. QED  BY <1>2, <1>3, <2>1 DEF HookDone
<1>4. ASSUME NEW q \in Hooks, NEW via \in {"stripe", "mock"}, NEW i \in IntentIds,
             ConfirmTopup(q, via, i),
             via = "stripe" => i \in Intents /\ intents[i].status = "succeeded"
      PROVE  HooksKnow' /\ hooks' \in [Hooks -> Hook]
  <2>1. via = "stripe" => /\ i \in Intents' /\ intents'[i].status = "succeeded"
                          /\ OfIntent(i)' = OfIntent(i)
    BY <1>4, PaidStays
  <2>2. ASSUME NEW k \in Waiting(i), HookAt(q, via, "credit", i, k),
               topups' = [j \in TopupKeys |-> IF j \in Waiting(i)
                            THEN [topups[j] EXCEPT !.status = "confirmed"]
                            ELSE topups[j]]
        PROVE  HooksKnow' /\ hooks' \in [Hooks -> Hook]
    <3>1. /\ k \in TopupKeys /\ k \in OfIntent(i) /\ topups[k] \in TopupRow
          /\ topups'[k] = [topups[k] EXCEPT !.status = "confirmed"]
      BY <2>2, WaitingKnown
    <3>2. topups'[k].status = "confirmed" /\ k \in OfIntent(i)'
      BY <3>1, RowOfIntentStays DEF TopupRow
    <3>3. PICK x : x = [pc |-> "credit", via |-> via, intent |-> i, key |-> k]
      OBVIOUS
    <3>4. x \in Hook /\ HookKnows(x)'
      BY <2>1, <3>1, <3>2, <3>3 DEF Hook, HookKnows
    <3>5. hooks' = [hooks EXCEPT ![q] = x]
      BY <2>2, <3>3 DEF HookAt
    <3>. QED  BY <1>2, <3>4, <3>5
  <2>3. ASSUME Waiting(i) = {}, HookAt(q, via, "lookup", i, NoTopup), topups' = topups
        PROVE  HooksKnow' /\ hooks' \in [Hooks -> Hook]
    <3>1. ASSUME NEW k \in OfIntent(i) PROVE topups'[k].status = "confirmed"
      BY <2>3 DEF Waiting, OfIntent, Exists, PInv, PaymentsTypeOK, TopupRow
    <3>2. PICK x : x = [pc |-> "lookup", via |-> via, intent |-> i, key |-> NoTopup]
      OBVIOUS
    <3>3. x \in Hook /\ HookKnows(x)'
      BY <2>1, <3>1, <3>2 DEF Hook, HookKnows
    <3>4. hooks' = [hooks EXCEPT ![q] = x]
      BY <2>3, <3>2 DEF HookAt
    <3>. QED  BY <1>2, <3>3, <3>4
  <2>. QED  BY <1>4, <2>2, <2>3 DEF ConfirmTopup
<1>5. ASSUME NEW q \in Hooks, NEW i \in Intents, ReceiveWebhook(q, i)
      PROVE  HooksKnow' /\ hooks' \in [Hooks -> Hook]
  <2>1. intents[i].status = "succeeded" /\ i \in IntentIds
    BY <1>5, ReceivedIsPaid, IntentsInRange DEF PInv, IntentIds
  <2>. QED  BY <1>4, <1>5, <2>1 DEF ReceiveWebhook
<1>6. ASSUME NEW q \in Hooks, NEW i \in Intents \cup MockIds, ReceiveMockWebhook(q, i)
      PROVE  HooksKnow' /\ hooks' \in [Hooks -> Hook]
  <2>1. i \in IntentIds
    BY IntentsInRange DEF PInv, IntentIds
  <2>. QED  BY <1>4, <1>6, <2>1 DEF ReceiveMockWebhook
<1>7. ASSUME NEW q \in Hooks, LookupTopup(q)
      PROVE  HooksKnow' /\ hooks' \in [Hooks -> Hook]
  <2>1. PICK i, via : i = hooks[q].intent /\ via = hooks[q].via
    OBVIOUS
  <2>2. via \in {"stripe", "mock"} /\ i \in IntentIds \cup {0} /\ hooks[q].pc = "lookup"
    BY <1>0, <1>7, <2>1 DEF LookupTopup, Hook
  <2>3. via = "stripe" => i \in Intents' /\ intents'[i].status = "succeeded"
    BY <1>0, <2>1, <2>2, PaidStays DEF HooksKnow, HookKnows
  <2>4. ASSUME NEW k \in OfIntent(i), topups[k].status = "confirmed",
               HookAt(q, via, "credit", i, k)
        PROVE  HooksKnow' /\ hooks' \in [Hooks -> Hook]
    <3>1. k \in TopupKeys /\ k \in OfIntent(i)' /\ topups'[k].status = "confirmed"
      BY <2>4, RowOfIntentStays
    <3>2. PICK x : x = [pc |-> "credit", via |-> via, intent |-> i, key |-> k]
      OBVIOUS
    <3>3. x \in Hook /\ HookKnows(x)'
      BY <2>2, <2>3, <3>1, <3>2 DEF Hook, HookKnows
    <3>4. hooks' = [hooks EXCEPT ![q] = x]
      BY <2>4, <3>2 DEF HookAt
    <3>. QED  BY <1>2, <3>3, <3>4
  <2>. QED  BY <1>3, <1>7, <2>1, <2>4 DEF LookupTopup
<1>. QED
  BY <1>1, <1>3, <1>5, <1>6, <1>7
     DEF Next, vars, pay_vars, Decline, Pay, ForgetKey, CreateIntent, CreateMockIntent,
         CreateTopup, AbandonIntent, PostPending, CreditTopup, LoseCreditAnswer,
         PostCredit, FailWebhook

\* What the ledger says is what the rows say.
LEMMA CreditsMatchRowsKept ==
    ASSUME PInv, RowsStep, LedgerStep
    PROVE  CreditsMatchRows' /\ ledger_events' \subseteq LedgerRow(Keys)
<1>. DEFINE Matches(e, k) == /\ e.idempotency_key = ConfirmedKey(k)
                            /\ e.event_type = "topup_confirmed"
                            /\ Exists(k) /\ topups[k].status = "confirmed"
                            /\ e.user_id = topups[k].user_id
                            /\ e.amount_nc = topups[k].amount_nc
<1>1. ASSUME NEW e, NEW k \in TopupKeys, Matches(e, k) PROVE Matches(e, k)'
  BY <1>1, RowsStay DEF SameTopup
<1>2. \A e \in ledger_events : \E k \in TopupKeys : Matches(e, k)
  BY DEF PInv, CreditsMatchRows
<1>3. ledger_events \subseteq LedgerRow(Keys)
  BY DEF PInv, PaymentsTypeOK
<1>4. CASE ledger_events' = ledger_events
  BY <1>1, <1>2, <1>3, <1>4 DEF CreditsMatchRows
<1>5. ASSUME NEW k \in TopupKeys, NEW row,
             Exists(k), topups[k].status = "confirmed", CreditOf(k, row),
             ledger_events' = ledger_events \cup {row}
      PROVE  CreditsMatchRows' /\ ledger_events' \subseteq LedgerRow(Keys)
  <2>1. Matches(row, k)'
    BY <1>1, <1>5 DEF CreditOf
  <2>2. \A e \in ledger_events' : \E j \in TopupKeys : Matches(e, j)'
    BY <1>1, <1>2, <1>5, <2>1
  <2>3. row \in LedgerRow(Keys)
    BY <1>5 DEF CreditOf
  <2>. QED  BY <1>3, <1>5, <2>2, <2>3 DEF CreditsMatchRows
<1>. QED  BY <1>4, <1>5 DEF LedgerStep

\* An intent is acknowledged only by a handler that found no row of it
\* unconfirmed and, if there is one, got its credit booked.
LEMMA AckedKept ==
    ASSUME PInv, [Next]_vars, IntentsKept, RowsStep, [LedgerAppend]_ledger_events
    PROVE  AckedOnlyWhenCredited'
<1>1. SUFFICES ASSUME NEW i \in Intents', intents'[i].acked, NEW k \in OfIntent(i)'
               PROVE  KeyTaken(ConfirmedKey(k))'
  BY DEF AckedOnlyWhenCredited
<1>2. i \in Intents
  BY <1>1 DEF IntentsKept, Unused
<1>3. ASSUME intents[i].status = "succeeded"
      PROVE  k \in OfIntent(i) /\ k = intents[i].key
  <2>1. Exists(intents[i].key)
    BY <1>2, <1>3 DEF PInv, IntentsProgress
  <2>2. k \in OfIntent(i)
    BY <1>1, <1>2, <2>1, RowsOfIntentStay
  <2>. QED  BY <1>2, <2>2, RowOfIntent DEF PInv
<1>4. CASE intents[i].acked
  <2>1. k \in OfIntent(i)
    BY <1>2, <1>3, <1>4 DEF PInv, IntentsProgress
  <2>2. KeyTaken(ConfirmedKey(k))
    BY <1>2, <1>4, <2>1 DEF PInv, AckedOnlyWhenCredited
  <2>. QED  BY <2>2, ContractKeepsKeys
<1>5. ASSUME ~intents[i].acked,
             NEW h \in Hooks, LookupTopup(h) \/ CreditTopup(h),
             hooks[h].via = "stripe", hooks[h].intent = i
      PROVE  KeyTaken(ConfirmedKey(k))'
  <2>1. intents[i].status = "succeeded" /\ HookKnows(hooks[h])
    BY <1>5 DEF LookupTopup, CreditTopup, PostCredit, PInv, HooksKnow, HookKnows
  <2>2. k \in OfIntent(i) /\ k = intents[i].key
    BY <1>3, <2>1
  <2>3. CASE LookupTopup(h)
    <3>1. \A j \in OfIntent(i) : topups[j].status = "confirmed"
      BY <1>5, <2>1, <2>3 DEF LookupTopup, HookKnows
    <3>2. intents' = intents
      BY <1>5, <2>2, <2>3, <3>1 DEF LookupTopup
    <3>. QED  BY <1>1, <1>5, <3>2
  <2>4. CASE CreditTopup(h)
    <3>1. PICK req : req = CreditRequest(h, hooks[h].key)
      OBVIOUS
    <3>2. hooks[h].key = k
      <4>1. hooks[h].key \in OfIntent(i)
        BY <1>5, <2>1, <2>4 DEF CreditTopup, PostCredit, HookKnows
      <4>. QED  BY <1>2, <2>2, <4>1, RowOfIntent DEF PInv
    <3>3. WriteEvent("payments", req) /\ Accepts("payments", req)
      BY <1>1, <1>5, <2>4, <3>1 DEF CreditTopup, PostCredit
    <3>4. req.idempotency_key = ConfirmedKey(k)
      BY <3>1, <3>2 DEF CreditRequest, WriteRequest
    <3>. QED  BY <3>3, <3>4, AcceptedIsBooked
  <2>. QED  BY <1>5, <2>3, <2>4
<1>6. IntentMoved(i)
  BY <1>2, IntentsMoved
<1>7. intents[i] \in Intent
  BY <1>2, IntentsAreNumbered DEF PInv, PaymentsTypeOK
<1>8. ASSUME ~intents[i].acked
      PROVE  \E h \in Hooks : /\ LookupTopup(h) \/ CreditTopup(h)
                            /\ hooks[h].via = "stripe" /\ hooks[h].intent = i
  <2>1. intents'[i] # intents[i] /\ intents'[i].acked # intents[i].acked
    BY <1>1, <1>8
  <2>. QED  BY <1>6, <1>7, <2>1 DEF IntentMoved, Intent
<1>. QED  BY <1>4, <1>5, <1>8

\* The goroutines of topup_pending and the failures.
LEMMA OthersTyped ==
    ASSUME PInv, [Next]_vars
    PROVE  /\ pending' \subseteq [key : TopupKeys, user : Users, nc : Nat]
           /\ faults' \in 0 .. MaxFaults
<1>0. /\ pending \subseteq [key : TopupKeys, user : Users, nc : Nat]
      /\ faults \in 0 .. MaxFaults
      /\ MaxFaults \in Nat
  BY PaymentsAssumption DEF PInv, PaymentsTypeOK
<1>1. CASE pending' = pending /\ faults' = faults
  BY <1>0, <1>1
<1>2. ASSUME NEW r \in Slots, NEW k \in TopupKeys, NEW u \in Users, NEW a \in Amounts,
             CreateIntent(r, k, u, a) \/ CreateMockIntent(r, k, u, a)
      PROVE  /\ pending' \subseteq [key : TopupKeys, user : Users, nc : Nat]
             /\ faults' = faults
  <2>1. CHFToNC(a) \in Nat
    BY WorthIsCharged
  <2>. QED  BY <1>0, <1>2, <2>1 DEF CreateIntent, CreateMockIntent, HoldIntent
<1>3. ASSUME NEW p, PostPending(p)
      PROVE  pending' \subseteq pending /\ faults' = faults
  BY <1>3 DEF PostPending
<1>4. ASSUME NEW h \in Hooks, LoseCreditAnswer(h) \/ FailWebhook(h)
      PROVE  pending' = pending /\ faults' \in 0 .. MaxFaults
  BY <1>0, <1>4 DEF LoseCreditAnswer, PostCredit, FailWebhook
<1>. QED
  BY <1>0, <1>1, <1>2, <1>3, <1>4
     DEF Next, vars, pay_vars, Decline, Pay, ForgetKey, CreateTopup, AbandonIntent,
         ReceiveWebhook, ReceiveMockWebhook, LookupTopup, CreditTopup, PostCredit

\* At first there is nothing.
LEMMA InitHasPInv ==
    ASSUME Init
    PROVE  PInv
<1>1. PaymentsTypeOK
  <2>1. Free \in CreateSlot /\ Quiet \in Hook
    BY PaymentsAssumption DEF Free, Quiet, CreateSlot, Hook
  <2>2. intents \in Seq(Intent) /\ Len(intents) = 0
    BY EmptySeq DEF Init
  <2>. QED  BY <2>1, <2>2, PaymentsAssumption DEF Init, PaymentsTypeOK
<1>2. Intents = {}
  BY DEF Init, Intents
<1>3. \A k \in TopupKeys : ~Exists(k)
  BY DEF Init, Exists
<1>4. RowsFinite
  <2>1. {k \in TopupKeys : Exists(k)} = {}
    BY <1>3
  <2>. QED  BY <2>1, FS_EmptySet DEF RowsFinite
<1>. QED
  BY <1>1, <1>2, <1>3, <1>4
     DEF Init, Free, Quiet, PInv, UniqueIdempotencyKey, RowsHaveIntents, IntentsProgress,
         RequestsKnow, HooksKnow, HookKnows, CreditsMatchRows, AckedOnlyWhenCredited

\* Every step keeps the invariant.
LEMMA StepKeepsPInv ==
    ASSUME PInv, [Next]_vars
    PROVE  PInv'
<1>1. IntentsStep /\ RowsStep /\ LedgerStep /\ [LedgerAppend]_ledger_events
  BY IntentsStepped, RowsStepped, LedgerStepped
<1>2. IntentsKept
  BY <1>1, IntentsStayed DEF PInv
<1>3. UniqueIdempotencyKey'
  BY <1>1, ContractKeepsKeysUnique DEF PInv
<1>4. RowsHaveIntents' /\ RowsFinite' /\ IntentsProgress'
  BY <1>1, <1>2, RowsHaveIntentsKept, RowsFiniteKept, IntentsProgressKept DEF PInv
<1>5. RequestsKnow' /\ slots' \in [Slots -> CreateSlot]
  BY <1>2, RequestsKnowKept
<1>6. HooksKnow' /\ hooks' \in [Hooks -> Hook]
  BY <1>1, <1>2, HooksKnowKept
<1>7. CreditsMatchRows' /\ ledger_events' \subseteq LedgerRow(Keys)
  BY <1>1, CreditsMatchRowsKept
<1>8. AckedOnlyWhenCredited'
  BY <1>1, <1>2, AckedKept
<1>9. PaymentsTypeOK'
  BY <1>1, <1>2, <1>5, <1>6, <1>7, OthersTyped DEF PaymentsTypeOK, IntentsKept, RowsStep
<1>. QED  BY <1>3, <1>4, <1>5, <1>6, <1>7, <1>8, <1>9 DEF PInv

-----------------------------------------------------------------------------
\* Theorems

\* Every reachable state satisfies the inductive invariant.
THEOREM PaymentsInvariance == Spec => []PInv
<1>1. Init => PInv
  BY InitHasPInv
<1>2. PInv /\ [Next]_vars => PInv'
  BY StepKeepsPInv
<1>. QED  BY <1>1, <1>2, PTL DEF Spec

\* Type correctness.
THEOREM PaymentsTypeCorrect == Spec => []PaymentsTypeOK
<1>1. PInv => PaymentsTypeOK
  BY DEF PInv
<1>. QED  BY <1>1, PaymentsInvariance, PTL

\* A row that was paid for was made for its intent.
LEMMA PaidRow ==
    ASSUME PInv, NEW k \in TopupKeys, Exists(k), IsPaid(k)
    PROVE  LET i == topups[k].provider_intent_id IN
           /\ i \in Intents
           /\ intents[i].key = k
           /\ intents[i].user_id = topups[k].user_id
           /\ intents[i].amount = Charged[topups[k].amount_chf]
<1>1. topups[k].user_id \in Users /\ topups[k].provider_intent_id \in Intents
  BY DEF PInv, PaymentsTypeOK, Exists, TopupRow, IsPaid
<1>2. /\ topups[k].provider_intent_id \notin MockIds
      /\ MockId[<<topups[k].user_id, k>>] \in MockIds
  BY <1>1, IdsDiffer, MockAssumption DEF PInv, PaymentsTypeOK
<1>. QED  BY <1>1, <1>2 DEF PInv, RowsHaveIntents, MadeFor

\* A top-up is confirmed only when its intent was paid by the user it credits
\* and for its amount, although the row and the intent the caller was given may
\* come from different requests, or by the mock webhook.
THEOREM ConfirmedWasPaidOrMocked == Spec => []ConfirmedByPaymentOrMock
<1>1. PInv => ConfirmedByPaymentOrMock
  BY PaidRow DEF PInv, RowsHaveIntents, ConfirmedByPaymentOrMock
<1>. QED  BY <1>1, PaymentsInvariance, PTL

\* A webhook answered 200 has credited every top-up of the intent.
THEOREM AckedWasCredited == Spec => []AckedOnlyWhenCredited
<1>1. PInv => AckedOnlyWhenCredited
  BY DEF PInv
<1>. QED  BY <1>1, PaymentsInvariance, PTL

\* A credit names its top-up, which was paid or is one of the mock webhook's.
LEMMA CreditHasRow ==
    ASSUME PInv, NEW e \in Credits
    PROVE  LET k == TopupOf(e) IN
           /\ k \in TopupKeys /\ Exists(k) /\ e.idempotency_key = ConfirmedKey(k)
           /\ e.user_id = topups[k].user_id
           /\ IsPaid(k) \/ k \in mocked
           /\ topups[k].amount_chf \in Amounts
           /\ e.amount_nc \in Int
           /\ 100 * e.amount_nc <= topups[k].amount_chf
           /\ 100 * e.amount_nc <= Charged[topups[k].amount_chf]
<1>1. e \in ledger_events
  BY DEF Credits
<1>2. PICK k \in TopupKeys :
              /\ e.idempotency_key = ConfirmedKey(k)
              /\ Exists(k) /\ topups[k].status = "confirmed"
              /\ e.user_id = topups[k].user_id /\ e.amount_nc = topups[k].amount_nc
  BY <1>1 DEF PInv, CreditsMatchRows
<1>3. TopupOf(e) = k
  BY <1>2 DEF ConfirmedKey, TopupOf
<1>4. PICK a \in Amounts : a = topups[k].amount_chf
  BY <1>2 DEF PInv, PaymentsTypeOK, Exists, TopupRow
<1>5. e.amount_nc = CHFToNC(a) /\ (IsPaid(k) \/ k \in mocked)
  BY <1>2, <1>4 DEF PInv, RowsHaveIntents
<1>6. CHFToNC(a) \in Nat /\ 100 * CHFToNC(a) <= Charged[a] /\ 100 * CHFToNC(a) <= a
  BY WorthIsCharged
<1>. QED  BY <1>2, <1>3, <1>4, <1>5, <1>6

\* Two credits of one intent of Stripe are one.
LEMMA OneCreditOfIntent ==
    ASSUME PInv, NEW e \in Credits, NEW f \in Credits,
           IntentOf(e) = IntentOf(f), IntentOf(e) \in Intents
    PROVE  e = f
<1>1. PICK i \in Intents : i = IntentOf(e) /\ i = IntentOf(f)
  OBVIOUS
<1>2. PICK j, k : j = TopupOf(e) /\ k = TopupOf(f)
  OBVIOUS
<1>3. /\ j \in OfIntent(i) /\ e.idempotency_key = ConfirmedKey(j)
      /\ k \in OfIntent(i) /\ f.idempotency_key = ConfirmedKey(k)
  BY <1>1, <1>2, CreditHasRow DEF IntentOf, OfIntent
<1>4. j = k
  BY <1>3, RowOfIntent DEF PInv
<1>. QED  BY <1>3, <1>4 DEF Credits, PInv, UniqueIdempotencyKey

\* Behind every credit is a payment of its own, by the user credited and of at
\* least its worth, or the word of the mock webhook.
THEOREM CreditsAreBacked == Spec => []OneCreditPerPayment
<1>1. ASSUME PInv, NEW e \in Credits
      PROVE  \/ /\ TopupOf(e) \in mocked
                /\ 100 * e.amount_nc <= topups[TopupOf(e)].amount_chf
             \/ /\ IsPaid(TopupOf(e))
                /\ intents[IntentOf(e)].user_id = e.user_id
                /\ 100 * e.amount_nc <= intents[IntentOf(e)].amount
  BY <1>1, CreditHasRow, PaidRow DEF IntentOf
<1>2. PInv => OneCreditPerPayment
  BY <1>1, OneCreditOfIntent DEF OneCreditPerPayment
<1>. QED  BY <1>2, PaymentsInvariance, PTL

\* Summed over the ledger: what a user was credited is never more than what Stripe
\* collected from that user and the mock webhook vouched for.  Credits of paid
\* top-ups have different payments of the user behind them, each of at least the
\* credit's worth; the others are for different top-ups that the mock webhook
\* confirmed.
THEOREM CreditsAreCovered == Spec => []CreditsWithinPayments
<1>1. ASSUME PInv PROVE CreditsWithinPayments
  <2>. SUFFICES ASSUME NEW u \in Users
                PROVE  100 * GlobalBalance(u) <= Collected(u) + Vouched(u)
    BY DEF CreditsWithinPayments
  <2>1. PICK S, P, V : S = Spendable(u) /\ P = PaidIntents(u) /\ V = UnpaidTopups(u)
    OBVIOUS
  <2>2. PICK A : A = {e \in S : IsPaid(TopupOf(e))}
    OBVIOUS
  <2>. DEFINE amount == [e \in S |-> e.amount_nc]
              worth  == [e \in S |-> 100 * e.amount_nc]
              behind == [e \in S |-> IntentOf(e)]
              topup  == [e \in S |-> TopupOf(e)]
              paid   == [i \in P |-> intents[i].amount]
              vouch  == [k \in V |-> topups[k].amount_chf]
  <2>3. S \subseteq Credits /\ \A e \in S : e.user_id = u
    BY <1>1, <2>1 DEF Spendable, Credits, PInv, CreditsMatchRows
  <2>4. \A e \in S : /\ amount[e] \in Int /\ worth[e] \in Int
                     /\ worth[e] = 100 * amount[e]
    BY <1>1, <2>3, CreditHasRow
  <2>5. IsFiniteSet(P) /\ \A i \in P : paid[i] \in Int /\ paid[i] >= 0
    <3>1. /\ Len(intents) \in Nat /\ Intents = 1 .. Len(intents)
          /\ \A i \in Intents : intents[i] \in Intent
      BY <1>1, IntentsAreNumbered DEF PInv, PaymentsTypeOK
    <3>2. P \subseteq 1 .. Len(intents)
      BY <2>1, <3>1 DEF PaidIntents
    <3>3. IsFiniteSet(1 .. Len(intents))
      BY <3>1, FS_Interval
    <3>4. \A i \in P : intents[i].amount \in Nat
      BY <3>1, <3>2 DEF Intent
    <3>5. IsFiniteSet(P)
      BY <3>2, <3>3, FS_Subset
    <3>6. \A i \in P : paid[i] \in Int /\ paid[i] >= 0
      BY <3>4
    <3>. QED  BY <3>5, <3>6
  <2>6. IsFiniteSet(V) /\ \A k \in V : vouch[k] \in Int /\ vouch[k] >= 0
    <3>1. V \subseteq {k \in TopupKeys : Exists(k)}
      BY <1>1, <2>1 DEF UnpaidTopups, PInv, PaymentsTypeOK
    <3>2. \A k \in V : topups[k].amount_chf \in Nat
      BY <1>1, <3>1, PaymentsAssumption DEF PInv, PaymentsTypeOK, Exists, TopupRow
    <3>. QED  BY <1>1, <3>1, <3>2, FS_Subset DEF PInv, RowsFinite
  <2>7. /\ \A e \in A : behind[e] \in P /\ worth[e] \in Int /\ worth[e] <= paid[behind[e]]
        /\ \A e, f \in A : behind[e] = behind[f] => e = f
    <3>1. ASSUME NEW e \in A
          PROVE  /\ IntentOf(e) \in P
                 /\ 100 * e.amount_nc <= intents[IntentOf(e)].amount
      <4>1. e \in S /\ e \in Credits /\ e.user_id = u /\ IsPaid(TopupOf(e))
        BY <2>2, <2>3
      <4>. QED  BY <1>1, <2>1, <4>1, CreditHasRow, PaidRow DEF IntentOf, IsPaid, PaidIntents
    <3>2. \A e, f \in A : IntentOf(e) = IntentOf(f) => e = f
      BY <1>1, <2>1, <2>2, <2>3, <3>1, OneCreditOfIntent DEF PaidIntents
    <3>. QED  BY <2>2, <2>4, <3>1, <3>2
  <2>8. /\ \A e \in S \ A : topup[e] \in V /\ worth[e] \in Int /\ worth[e] <= vouch[topup[e]]
        /\ \A e, f \in S \ A : topup[e] = topup[f] => e = f
    <3>1. ASSUME NEW e \in S \ A
          PROVE  TopupOf(e) \in V /\ 100 * e.amount_nc <= topups[TopupOf(e)].amount_chf
      <4>1. e \in Credits /\ e.user_id = u /\ ~IsPaid(TopupOf(e))
        BY <2>2, <2>3
      <4>. QED  BY <1>1, <2>1, <4>1, CreditHasRow DEF UnpaidTopups
    <3>2. ASSUME NEW e \in S, NEW f \in S, TopupOf(e) = TopupOf(f) PROVE e = f
      <4>1. e \in ledger_events /\ f \in ledger_events
            /\ e.idempotency_key = f.idempotency_key
        BY <1>1, <2>3, <3>2, CreditHasRow DEF Credits
      <4>. QED  BY <1>1, <4>1 DEF PInv, UniqueIdempotencyKey
    <3>. QED  BY <2>2, <2>4, <3>1, <3>2
  <2>9. /\ GlobalBalance(u) = SumFunctionOnSet(amount, S)
        /\ Collected(u) = SumFunctionOnSet(paid, P)
        /\ Vouched(u) = SumFunctionOnSet(vouch, V)
    BY <2>1 DEF GlobalBalance, SumOfAmounts, Collected, Vouched
  <2>. HIDE DEF amount, worth, behind, topup, paid, vouch
  <2>10. IsFiniteSet(A) /\ SumFunctionOnSet(worth, A) <= SumFunctionOnSet(paid, P)
    BY <2>5, <2>7, SumInjected
  <2>11. IsFiniteSet(S \ A) /\ SumFunctionOnSet(worth, S \ A) <= SumFunctionOnSet(vouch, V)
    BY <2>6, <2>8, SumInjected
  <2>12. A \in SUBSET S /\ IsFiniteSet(S)
    <3>1. A \in SUBSET S /\ S = A \cup (S \ A)
      BY <2>2
    <3>. QED  BY <2>10, <2>11, <3>1, FS_Union
  <2>13. SumFunctionOnSet(worth, S)
            = SumFunctionOnSet(worth, A) + SumFunctionOnSet(worth, S \ A)
    BY <2>4, <2>12, SumSplit
  <2>14. SumFunctionOnSet(worth, S) = 100 * SumFunctionOnSet(amount, S)
    BY <2>4, <2>12, SumTimes
  <2>15. /\ SumFunctionOnSet(amount, S) \in Int
         /\ SumFunctionOnSet(worth, A) \in Int /\ SumFunctionOnSet(worth, S \ A) \in Int
         /\ SumFunctionOnSet(paid, P) \in Int /\ SumFunctionOnSet(vouch, V) \in Int
    BY <2>4, <2>5, <2>6, <2>7, <2>8, <2>10, <2>11, <2>12, SumType
  <2>. QED  BY <2>9, <2>10, <2>11, <2>13, <2>14, <2>15
<1>. QED  BY <1>1, PaymentsInvariance, PTL

\* No step changes what a row of payments.topups says or unconfirms it.
THEOREM TopupsNeverRewritten == Spec => TopupNeverRewritten
<1>. DEFINE Kept == \A k \in TopupKeys :
                       Exists(k) =>
                          /\ topups'[k] # NoTopup
                          /\ \A f \in {"user_id", "amount_chf", "amount_nc",
                                       "provider_intent_id"} :
                                topups'[k][f] = topups[k][f]
                          /\ topups[k].status = "confirmed" =>
                                topups'[k].status = "confirmed"
<1>1. ASSUME PInv, [Next]_vars PROVE Kept
  BY <1>1, RowsStepped, RowsStay DEF SameTopup, Exists
<1>2. PInv /\ [Next]_vars => [Kept]_topups
  BY <1>1
<1>. QED  BY <1>2, PaymentsInvariance, PTL DEF Spec, TopupNeverRewritten

\* The payments service keeps the contract of the ledger.
THEOREM PaymentsLedgerIsAppendOnly == Spec => LedgerContract
<1>1. PInv /\ [Next]_vars => [LedgerAppend]_ledger_events
  BY LedgerStepped
<1>. QED  BY <1>1, PaymentsInvariance, PTL DEF Spec, LedgerContract

=============================================================================
