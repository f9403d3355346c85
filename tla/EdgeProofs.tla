------------------------------ MODULE EdgeProofs ------------------------------
(***************************************************************************)
(* Theorems about Edge for any number of guests, keys, orders and frames   *)
(* at once, any batch size and any number of failures.                     *)
(***************************************************************************)
EXTENDS Edge, LedgerProofs

USE EdgeAssumption

-----------------------------------------------------------------------------
\* Rows

\* An edge row is an order of one of the tills.
LEMMA EdgeRowFields ==
    ASSUME NEW b \in Sales
    PROVE  /\ EdgeRow(b) \in EdgeRows
           /\ EdgeRow(b).event_type = "order_paid"
           /\ EdgeRow(b).idempotency_key = b.idempotency_key
           /\ EdgeRow(b).user_id = b.user_id
           /\ EdgeRow(b).amount_nc = -Total(b)
           /\ b \in Bodies /\ Total(b) \in Int \ {0}
BY TotalAssumption DEF EdgeRow, EdgeRows, Sales

\* What the cloud books of an edge row.
LEMMA CloudRowFields ==
    ASSUME NEW b \in Sales, NEW e, e = EdgeRow(b)
    PROVE  LET row == Row(AuthorisedWriter(e.event_type), CloudRequest(e))
           IN  /\ Entry(row) = Entry(e)
               /\ row.event_type = "order_paid" /\ row.venue_id = EdgeVenue
               /\ row.idempotency_key = e.idempotency_key
               /\ row \in LedgerRow(EdgeKeys)
<1>1. e.event_type = "order_paid" /\ e.user_id \in Users /\ e.idempotency_key \in EdgeKeys
  BY EdgeRowFields
<1>2. AuthorisedWriter(e.event_type) = "orders"
  BY <1>1 DEF AuthorisedWriter
<1>3. e.amount_nc \in Int \ {0}
  BY EdgeRowFields
<1>4. "order_paid" \in DOMAIN AuthorisedWriters
  BY DEF AuthorisedWriters
<1>. QED
  BY <1>1, <1>2, <1>3, <1>4 DEF Row, CloudRequest, WriteRequest, Entry, LedgerRow

\* The rows of the local ledger are orders of the tills.
LEMMA LocalRow ==
    ASSUME TypeOK, NEW n \in DOMAIN edge_events
    PROVE  \E b \in Sales : edge_events[n] = EdgeRow(b)
<1>1. edge_events \in Seq(EdgeRows) /\ DOMAIN edge_events = 1..Len(edge_events)
  BY DEF TypeOK
<1>2. edge_events[n] \in EdgeRows
  BY <1>1
<1>. QED  BY <1>2 DEF EdgeRows

-----------------------------------------------------------------------------
\* What a step does

\* To the local ledger: nothing, or one more row under a fresh key.
LocalStep ==
    \/ edge_events' = edge_events
    \/ \E b \in Sales : /\ ~EdgeKeyTaken(b.idempotency_key)
                        /\ edge_events' = Append(edge_events, EdgeRow(b))

\* To the cloud ledger: nothing, or the booking of one row of the edge.
CloudStep ==
    \/ ledger_events' = ledger_events
    \/ \E n \in DOMAIN edge_events :
          /\ ~KeyTaken(edge_events[n].idempotency_key)
          /\ edge_events' = edge_events
          /\ ledger_events' = ledger_events \cup
                {Row(AuthorisedWriter(edge_events[n].event_type), CloudRequest(edge_events[n]))}

\* A call of the sync service books its event or changes nothing.
LEMMA BookEventAppends ==
    ASSUME NEW e, BookEvent(e)
    PROVE  \/ ledger_events' = ledger_events
           \/ /\ ~KeyTaken(e.idempotency_key)
              /\ ledger_events' = ledger_events \cup
                    {Row(AuthorisedWriter(e.event_type), CloudRequest(e))}
<1>1. CloudRequest(e).idempotency_key = e.idempotency_key
  BY DEF CloudRequest, WriteRequest
<1>. QED  BY <1>1, WriteEventAppends DEF BookEvent

\* Every step is a local step and a cloud step, and keeps the ledger's contract.
LEMMA StepsDescribed ==
    ASSUME TypeOK, [Next]_vars
    PROVE  LocalStep /\ CloudStep /\ [LedgerAppend]_ledger_events
<1>1. ASSUME NEW r \in Slots, WriteOrder(r) PROVE LocalStep
  BY <1>1 DEF WriteOrder, LocalStep
<1>2. ASSUME NEW f \in FrameSlots, NEW n \in DOMAIN edge_events,
             IngestEvent(f, n) \/ LoseEvent(f, n)
      PROVE  LocalStep /\ CloudStep /\ [LedgerAppend]_ledger_events
  <2>1. edge_events' = edge_events
    BY <1>2 DEF IngestEvent, LoseEvent, edge_vars
  <2>2. BookEvent(edge_events[n]) \/ ledger_events' = ledger_events
    BY <1>2 DEF IngestEvent, LoseEvent
  <2>3. CloudStep
    BY <2>1, <2>2, BookEventAppends DEF CloudStep
  <2>4. [LedgerAppend]_ledger_events
    BY <2>2, WriteEventContract DEF BookEvent
  <2>. QED  BY <2>1, <2>3, <2>4 DEF LocalStep
<1>3. CASE edge_events' = edge_events /\ ledger_events' = ledger_events
  BY <1>3 DEF LocalStep, CloudStep
<1>4. ASSUME NEW r \in Slots, WriteOrder(r) PROVE ledger_events' = ledger_events
  BY <1>4 DEF WriteOrder
<1>. QED
  BY <1>1, <1>2, <1>3, <1>4
     DEF Next, vars, edge_vars, Maintain, CheckOrder, StartSync, Reply, DropFrame, MarkSynced,
         AbandonSync, CrashEdge, CloudStep

\* Rows of the local ledger stay as they are.
LEMMA LocalRowsStay ==
    ASSUME TypeOK, LocalStep
    PROVE  /\ edge_events' \in Seq(EdgeRows)
           /\ DOMAIN edge_events \subseteq DOMAIN edge_events'
           /\ \A n \in DOMAIN edge_events : edge_events'[n] = edge_events[n]
<1>0. edge_events \in Seq(EdgeRows)
  BY DEF TypeOK
<1>1. CASE edge_events' = edge_events
  BY <1>0, <1>1
<1>2. ASSUME NEW b \in Sales, edge_events' = Append(edge_events, EdgeRow(b))
      PROVE  /\ edge_events' \in Seq(EdgeRows)
             /\ DOMAIN edge_events \subseteq DOMAIN edge_events'
             /\ \A n \in DOMAIN edge_events : edge_events'[n] = edge_events[n]
  <2>1. PICK row \in EdgeRows : row = EdgeRow(b)
    BY EdgeRowFields
  <2>. QED  BY <1>0, <1>2, <2>1
<1>. QED  BY <1>1, <1>2 DEF LocalStep

\* What is booked stays booked.
LEMMA BookedStays ==
    ASSUME TypeOK, LocalStep, [LedgerAppend]_ledger_events,
           NEW n \in DOMAIN edge_events, Booked(n)
    PROVE  Booked(n)'
<1>1. edge_events'[n] = edge_events[n]
  BY LocalRowsStay
<1>2. ledger_events \subseteq ledger_events'
  BY DEF LedgerAppend
<1>. QED  BY <1>1, <1>2 DEF Booked

\* An event that the sync service reports as accepted is booked as it was
\* written, also if the ledger knew its key before.
LEMMA AcceptedIsBookedAsWritten ==
    ASSUME EInv, NEW n \in DOMAIN edge_events, edge_events' = edge_events,
           BookEvent(edge_events[n]), CloudAccepts(edge_events[n])
    PROVE  Booked(n)'
<1>. DEFINE e == edge_events[n]
            req == CloudRequest(e)
<1>1. PICK b \in Sales : e = EdgeRow(b)
  BY LocalRow DEF EInv
<1>2. WriteEvent(AuthorisedWriter(e.event_type), req)
      /\ Accepts(AuthorisedWriter(e.event_type), req)
  BY DEF BookEvent, CloudAccepts
<1>3. KeyTaken(req.idempotency_key)'
  BY <1>2, AcceptedIsBooked
<1>4. req.idempotency_key = e.idempotency_key
  BY DEF CloudRequest, WriteRequest
<1>5. PICK x \in ledger_events' : x.idempotency_key = e.idempotency_key
  BY <1>3, <1>4 DEF KeyTaken
<1>6. x = Row(AuthorisedWriter(e.event_type), req)
  <2>1. CASE x \in ledger_events
    <3>1. PICK m \in DOMAIN edge_events :
             x = Row(AuthorisedWriter(edge_events[m].event_type), CloudRequest(edge_events[m]))
      BY <2>1 DEF EInv, CloudFromEdge
    <3>2. PICK c \in Sales : edge_events[m] = EdgeRow(c)
      BY LocalRow DEF EInv
    <3>3. x.idempotency_key = edge_events[m].idempotency_key
      BY <3>1, <3>2, CloudRowFields
    <3>4. m = n
      BY <1>5, <3>3 DEF EInv, LocalKeysUnique
    <3>. QED  BY <3>1, <3>4
  <2>2. CASE x \notin ledger_events
    BY <2>2, BookEventAppends
  <2>. QED  BY <2>1, <2>2
<1>7. /\ Entry(x) = Entry(e)
      /\ x.event_type = "order_paid" /\ x.venue_id = EdgeVenue
  BY <1>1, <1>6, CloudRowFields
<1>. QED  BY <1>7 DEF Booked

-----------------------------------------------------------------------------
\* Overdrafts

\* The largest total, or 0 when none is positive.
LEMMA LargestTotal ==
    /\ MaxTotal \in Nat
    /\ \A b \in Bodies : /\ Total(b) \in Int /\ Total(b) <= Debt(b)
                         /\ Debt(b) \in Nat /\ Debt(b) <= MaxTotal
<1>1. PICK m \in Bodies : \A b \in Bodies : Total(b) <= Total(m)
  BY TotalAssumption
<1>2. \A b \in Bodies : Total(b) \in Int
  BY TotalAssumption
<1>3. \A b \in Bodies : Total(b) <= Debt(b) /\ Debt(b) \in Nat /\ Debt(b) <= Debt(m)
  BY <1>1, <1>2 DEF Debt
<1>4. PICK t : t = MaxTotal
  OBVIOUS
<1>5. t \in {Debt(b) : b \in Bodies} /\ \A b \in Bodies : Debt(b) <= t
  BY <1>3, <1>4 DEF MaxTotal
<1>. QED  BY <1>2, <1>3, <1>4, <1>5

\* The bound on the red is not above zero.
LEMMA BoundIsNegative ==
    /\ Cardinality(Slots) \in Nat \ {0}
    /\ (Cardinality(Slots) - 1) * MaxTotal \in Nat
<1>1. Cardinality(Slots) \in Nat /\ Cardinality(Slots) # 0
  BY FS_CardinalityType, FS_EmptySet
<1>2. PICK n \in Nat : n = Cardinality(Slots) - 1
  BY <1>1
<1>3. PICK m \in Nat : m = MaxTotal
  BY LargestTotal
<1>4. n * m \in Nat
  OBVIOUS
<1>. QED  BY <1>1, <1>2, <1>3, <1>4

\* A guest has finitely many rows.
LEMMA RowsAreFinite ==
    ASSUME TypeOK, NEW u
    PROVE  IsFiniteSet(RowsOf(u)) /\ RowsOf(u) \subseteq DOMAIN edge_events
<1>1. DOMAIN edge_events = 1..Len(edge_events) /\ Len(edge_events) \in Nat
  BY DEF TypeOK
<1>2. IsFiniteSet(1..Len(edge_events))
  BY <1>1, FS_Interval
<1>3. RowsOf(u) \subseteq DOMAIN edge_events
  BY DEF RowsOf
<1>. QED  BY <1>1, <1>2, <1>3, FS_Subset

\* The balance after a row.
LEMMA EdgeBalanceAppended ==
    ASSUME TypeOK, NEW b \in Sales, edge_events' = Append(edge_events, EdgeRow(b)),
           NEW u \in Users
    PROVE  EdgeBalance(u)' = EdgeBalance(u) - (IF b.user_id = u THEN Total(b) ELSE 0)
<1>1. PICK row \in EdgeRows :
         row = EdgeRow(b) /\ row.user_id = b.user_id /\ row.amount_nc = -Total(b)
  BY EdgeRowFields
<1>2. PICK new : new = Len(edge_events) + 1
  OBVIOUS
<1>3. /\ edge_events \in Seq(EdgeRows)
      /\ DOMAIN edge_events = 1..Len(edge_events) /\ Len(edge_events) \in Nat
  BY DEF TypeOK
<1>4. /\ DOMAIN edge_events' = DOMAIN edge_events \cup {new}
      /\ edge_events'[new] = row
      /\ new \notin DOMAIN edge_events
      /\ \A n \in DOMAIN edge_events : edge_events'[n] = edge_events[n]
  BY <1>1, <1>2, <1>3
<1>5. \A n \in DOMAIN edge_events : edge_events[n].amount_nc \in Int
  BY LocalRow, EdgeRowFields, TotalAssumption
<1>6. IsFiniteSet(RowsOf(u)) /\ RowsOf(u) \subseteq DOMAIN edge_events
  BY RowsAreFinite
<1>7. Total(b) \in Int /\ row.amount_nc \in Int
  BY <1>1, EdgeRowFields
<1>8. RowsOf(u)' = IF b.user_id = u THEN RowsOf(u) \cup {new} ELSE RowsOf(u)
  BY <1>1, <1>4 DEF RowsOf
<1>. DEFINE S == RowsOf(u)
            before == [n \in S |-> edge_events[n].amount_nc]
            after == [n \in RowsOf(u)' |-> edge_events'[n].amount_nc]
<1>9. \A n \in S : before[n] \in Int
  BY <1>5, <1>6
<1>10. \A n \in S : before[n] = after[n]
  BY <1>4, <1>6, <1>8
<1>11. b.user_id = u => after[new] = row.amount_nc
  BY <1>4, <1>8
<1>12. new \notin S
  BY <1>4, <1>6
<1>13. /\ EdgeBalance(u) = Credit[u] + SumFunctionOnSet(before, S)
       /\ EdgeBalance(u)' = Credit[u] + SumFunctionOnSet(after, RowsOf(u)')
  BY DEF EdgeBalance
<1>. HIDE DEF before, after
<1>14. SumFunctionOnSet(before, S) \in Int
  BY <1>6, <1>9, SumType
<1>15. SumFunctionOnSet(before, S) = SumFunctionOnSet(after, S)
  BY <1>6, <1>9, <1>10, SumSame
<1>16. ASSUME b.user_id = u
       PROVE  SumFunctionOnSet(after, S \cup {new}) = SumFunctionOnSet(after, S) + row.amount_nc
  <2>1. \A n \in S \cup {new} : after[n] \in Int
    BY <1>7, <1>9, <1>10, <1>11, <1>16
  <2>2. SumFunctionOnSet(after, S \cup {new}) = SumFunctionOnSet(after, S) + after[new]
    BY <1>6, <1>12, <2>1, SumAdd
  <2>. QED  BY <1>11, <1>16, <2>2
<1>17. Credit[u] \in Int
  BY EdgeAssumption
<1>18. CASE b.user_id = u
  <2>1. RowsOf(u)' = S \cup {new}
    BY <1>8, <1>18
  <2>. QED  BY <1>1, <1>7, <1>13, <1>14, <1>15, <1>16, <1>17, <1>18, <2>1
<1>19. CASE b.user_id # u
  BY <1>8, <1>13, <1>14, <1>15, <1>17, <1>19
<1>. QED  BY <1>18, <1>19

\* A balance is a number.
LEMMA EdgeBalanceType ==
    ASSUME TypeOK, NEW u \in Users
    PROVE  EdgeBalance(u) \in Int
<1>2. IsFiniteSet(RowsOf(u)) /\ RowsOf(u) \subseteq DOMAIN edge_events
  BY RowsAreFinite
<1>. DEFINE f == [n \in RowsOf(u) |-> edge_events[n].amount_nc]
<1>3. \A n \in RowsOf(u) : f[n] \in Int
  BY <1>2, LocalRow, EdgeRowFields, TotalAssumption
<1>4. EdgeBalance(u) = Credit[u] + SumFunctionOnSet(f, RowsOf(u))
  BY DEF EdgeBalance
<1>. HIDE DEF f
<1>5. SumFunctionOnSet(f, RowsOf(u)) \in Int
  BY <1>2, <1>3, SumType
<1>. QED  BY <1>4, <1>5, EdgeAssumption

\* What orders in progress come to.
LEMMA InProgressType ==
    ASSUME TypeOK, NEW u \in Users
    PROVE  /\ IsFiniteSet(Writing(u))
           /\ \A r \in Writing(u) : Debt(slots[r].body) \in Nat
           /\ InProgress(u) \in Nat
           /\ \A n \in Nat : Cardinality(Writing(u)) <= n => InProgress(u) <= n * MaxTotal
<1>1. IsFiniteSet(Writing(u))
  BY FS_Subset DEF Writing
<1>2. \A r \in Writing(u) : slots[r].body \in Bodies
  BY DEF TypeOK, Order, Idle, Writing
<1>. DEFINE f == [r \in Writing(u) |-> Debt(slots[r].body)]
<1>3. \A r \in Writing(u) : f[r] \in Nat /\ f[r] <= MaxTotal
  BY <1>2, LargestTotal
<1>4. InProgress(u) = SumFunctionOnSet(f, Writing(u))
  BY DEF InProgress
<1>5. \A r \in Writing(u) : Debt(slots[r].body) \in Nat
  BY <1>2, LargestTotal
<1>. HIDE DEF f
<1>6. SumFunctionOnSet(f, Writing(u)) \in Nat
  BY <1>1, <1>3, SumNat
<1>7. ASSUME NEW n \in Nat, Cardinality(Writing(u)) <= n
      PROVE  SumFunctionOnSet(f, Writing(u)) <= n * MaxTotal
  <2>1. \A r \in Writing(u) : f[r] \in Int /\ f[r] <= MaxTotal
    BY <1>3
  <2>. QED  BY <1>1, <1>7, <2>1, LargestTotal, SumBounded
<1>. QED  BY <1>1, <1>4, <1>5, <1>6, <1>7

\* One more order in progress.
LEMMA OrderBegins ==
    ASSUME TypeOK, NEW r \in Slots, NEW b \in Bodies, slots[r] = Idle,
           slots' = [slots EXCEPT ![r] = [pc |-> "write", body |-> b]],
           NEW u \in Users
    PROVE  InProgress(u)' = InProgress(u) + (IF b.user_id = u THEN Debt(b) ELSE 0)
<1>1. /\ slots'[r].pc = "write" /\ slots'[r].body = b
      /\ \A s \in Slots : s # r => slots'[s] = slots[s]
  BY DEF TypeOK
<1>2. r \notin Writing(u)
  BY DEF Writing, Idle
<1>3. Writing(u)' = IF b.user_id = u THEN Writing(u) \cup {r} ELSE Writing(u)
  BY <1>1, <1>2 DEF Writing
<1>. DEFINE S == Writing(u)
            before == [s \in S |-> Debt(slots[s].body)]
            after == [s \in Writing(u)' |-> Debt(slots'[s].body)]
<1>4. IsFiniteSet(S) /\ S \subseteq Slots
  BY InProgressType DEF Writing
<1>5. \A s \in S : before[s] \in Int
  BY InProgressType
<1>6. \A s \in S : before[s] = after[s]
  BY <1>1, <1>2, <1>3, <1>4
<1>7. b.user_id = u => after[r] = Debt(b)
  BY <1>1, <1>3
<1>8. Debt(b) \in Int
  BY LargestTotal
<1>9. /\ InProgress(u) = SumFunctionOnSet(before, S)
      /\ InProgress(u)' = SumFunctionOnSet(after, Writing(u)')
  BY DEF InProgress
<1>. HIDE DEF before, after
<1>10. SumFunctionOnSet(before, S) = SumFunctionOnSet(after, S)
  BY <1>4, <1>5, <1>6, SumSame
<1>11. SumFunctionOnSet(before, S) \in Int
  BY <1>4, <1>5, SumType
<1>12. CASE b.user_id = u
  <2>1. \A s \in S \cup {r} : after[s] \in Int
    BY <1>5, <1>6, <1>7, <1>8, <1>12
  <2>2. SumFunctionOnSet(after, S \cup {r}) = SumFunctionOnSet(after, S) + after[r]
    BY <1>2, <1>4, <2>1, SumAdd
  <2>. QED  BY <1>3, <1>7, <1>9, <1>10, <1>12, <2>2
<1>13. CASE b.user_id # u
  BY <1>3, <1>9, <1>10, <1>11, <1>13
<1>. QED  BY <1>12, <1>13

\* One order less.
LEMMA OrderEnds ==
    ASSUME TypeOK, NEW r \in Slots, slots[r].pc = "write",
           slots' = [slots EXCEPT ![r] = Idle],
           NEW u \in Users
    PROVE  /\ InProgress(u)' \in Int
           /\ InProgress(u) = InProgress(u)'
                 + (IF slots[r].body.user_id = u THEN Debt(slots[r].body) ELSE 0)
<1>1. slots'[r] = Idle /\ \A s \in Slots : s # r => slots'[s] = slots[s]
  BY DEF TypeOK
<1>2. r \notin Writing(u)'
  BY <1>1 DEF Writing, Idle
<1>3. Writing(u) =
         IF slots[r].body.user_id = u THEN Writing(u)' \cup {r} ELSE Writing(u)'
  BY <1>1, <1>2 DEF Writing
<1>. DEFINE S == Writing(u)'
            before == [s \in Writing(u) |-> Debt(slots[s].body)]
            after == [s \in S |-> Debt(slots'[s].body)]
<1>4. IsFiniteSet(Writing(u)) /\ S \subseteq Writing(u) /\ IsFiniteSet(S)
  BY <1>3, InProgressType, FS_Subset
<1>5. \A s \in Writing(u) : before[s] \in Int
  BY InProgressType
<1>6. \A s \in S : after[s] = before[s]
  <2>1. \A s \in S : s \in Slots /\ s # r
    BY <1>2 DEF Writing
  <2>. QED  BY <1>1, <1>4, <2>1
<1>7. slots[r].body.user_id = u => before[r] = Debt(slots[r].body)
  BY DEF Writing
<1>8. /\ InProgress(u) = SumFunctionOnSet(before, Writing(u))
      /\ InProgress(u)' = SumFunctionOnSet(after, S)
  BY DEF InProgress
<1>. HIDE DEF before, after
<1>9. \A s \in S : after[s] \in Int /\ after[s] = before[s]
  BY <1>4, <1>5, <1>6
<1>10. SumFunctionOnSet(after, S) = SumFunctionOnSet(before, S)
       /\ SumFunctionOnSet(after, S) \in Int
  BY <1>4, <1>9, SumSame, SumType
<1>11. CASE slots[r].body.user_id = u
  <2>1. Writing(u) = S \cup {r}
    BY <1>3, <1>11
  <2>2. SumFunctionOnSet(before, S \cup {r}) = SumFunctionOnSet(before, S) + before[r]
    BY <1>2, <1>4, <1>5, <2>1, SumAdd
  <2>. QED  BY <1>7, <1>8, <1>10, <1>11, <2>1, <2>2
<1>12. CASE slots[r].body.user_id # u
  BY <1>3, <1>8, <1>10, <1>12
<1>. QED  BY <1>11, <1>12

\* What a step does to orders and rows.
OrderSteps ==
    \/ edge_events' = edge_events /\ slots' = slots
    \/ edge_events' = edge_events /\ slots' = [r \in Slots |-> Idle]
    \/ \E r \in Slots : (\E b \in Bodies : CheckOrder(r, b)) \/ WriteOrder(r)

\* Every step is one of these.
LEMMA OrderStepsDescribed ==
    ASSUME [Next]_vars
    PROVE  OrderSteps
BY DEF OrderSteps, Next, vars, edge_vars, Maintain, StartSync, Reply, DropFrame,
       IngestEvent, LoseEvent, MarkSynced, AbandonSync, CrashEdge

\* An order that passes the check finds all that is in progress with the other
\* handlers; one that is written moves from what is in progress to the balance.
LEMMA OrdersCoveredKept ==
    ASSUME TypeOK, OrdersCovered, [Next]_vars
    PROVE  OrdersCovered'
<1>. SUFFICES ASSUME NEW u \in Users
              PROVE  EdgeBalance(u)' - InProgress(u)' >= -(Cardinality(Slots) - 1) * MaxTotal
  BY DEF OrdersCovered
<1>. DEFINE bound == (Cardinality(Slots) - 1) * MaxTotal
<1>0. /\ EdgeBalance(u) \in Int /\ InProgress(u) \in Nat
      /\ bound \in Nat
      /\ EdgeBalance(u) - InProgress(u) >= -bound
  BY EdgeBalanceType, InProgressType, BoundIsNegative DEF OrdersCovered
<1>1. edge_events' = edge_events => EdgeBalance(u)' = EdgeBalance(u)
  BY DEF EdgeBalance, RowsOf
<1>2. CASE edge_events' = edge_events /\ slots' = slots
  <2>1. InProgress(u)' = InProgress(u)
    BY <1>2 DEF InProgress, Writing
  <2>. QED  BY <1>0, <1>1, <1>2, <2>1
<1>3. CASE edge_events' = edge_events /\ slots' = [r \in Slots |-> Idle]
  <2>1. Writing(u)' = {}
    BY <1>3 DEF Writing, Idle
  <2>2. InProgress(u)' = 0
    BY <2>1, SumEmpty DEF InProgress
  <2>. QED  BY <1>0, <1>1, <1>3, <2>2
<1>4. ASSUME NEW r \in Slots, NEW b \in Bodies, CheckOrder(r, b)
      PROVE  EdgeBalance(u)' - InProgress(u)' >= -bound
  <2>1. /\ slots[r] = Idle /\ EdgeBalance(b.user_id) >= Total(b)
        /\ slots' = [slots EXCEPT ![r] = [pc |-> "write", body |-> b]]
        /\ edge_events' = edge_events
    BY <1>4 DEF CheckOrder, CanPay
  <2>2. InProgress(u)' = InProgress(u) + (IF b.user_id = u THEN Debt(b) ELSE 0)
    BY <2>1, OrderBegins
  <2>3. Total(b) \in Int /\ (Debt(b) = 0 \/ Debt(b) = Total(b)) /\ Debt(b) \in Nat
    BY LargestTotal DEF Debt
  <2>4. InProgress(u) <= bound
    <3>1. Writing(u) \subseteq Slots \ {r}
      BY <2>1 DEF Writing, Idle
    <3>2. IsFiniteSet(Slots \ {r}) /\ Cardinality(Slots \ {r}) = Cardinality(Slots) - 1
      BY FS_RemoveElement
    <3>3. Cardinality(Writing(u)) <= Cardinality(Slots) - 1
      BY <3>1, <3>2, FS_Subset
    <3>4. Cardinality(Slots) - 1 \in Nat
      BY BoundIsNegative
    <3>. QED  BY <3>3, <3>4, InProgressType
  <2>. HIDE DEF bound
  <2>5. CASE b.user_id = u
    BY <1>0, <1>1, <2>1, <2>2, <2>3, <2>4, <2>5
  <2>6. CASE b.user_id # u
    BY <1>0, <1>1, <2>1, <2>2, <2>6
  <2>. QED  BY <2>5, <2>6
<1>5. ASSUME NEW r \in Slots, WriteOrder(r)
      PROVE  EdgeBalance(u)' - InProgress(u)' >= -bound
  <2>. DEFINE b == slots[r].body
  <2>1. /\ slots[r].pc = "write" /\ slots' = [slots EXCEPT ![r] = Idle]
        /\ \/ edge_events' = edge_events
           \/ b \in Sales /\ edge_events' = Append(edge_events, EdgeRow(b))
    BY <1>5 DEF WriteOrder
  <2>2. b \in Bodies
    BY <2>1 DEF TypeOK, Order, Idle
  <2>3. Total(b) \in Int /\ Total(b) <= Debt(b) /\ Debt(b) \in Nat
    BY <2>2, LargestTotal
  <2>4. /\ InProgress(u)' \in Int
        /\ InProgress(u) = InProgress(u)' + (IF b.user_id = u THEN Debt(b) ELSE 0)
    BY <2>1, OrderEnds
  <2>5. EdgeBalance(u)' \in {EdgeBalance(u),
                             EdgeBalance(u) - (IF b.user_id = u THEN Total(b) ELSE 0)}
    BY <1>1, <2>1, <2>2, EdgeBalanceAppended
  <2>. HIDE DEF bound, b
  <2>6. CASE EdgeBalance(u)' = EdgeBalance(u)
    BY <1>0, <2>3, <2>4, <2>6
  <2>7. CASE EdgeBalance(u)' = EdgeBalance(u) - (IF b.user_id = u THEN Total(b) ELSE 0)
    BY <1>0, <2>3, <2>4, <2>7
  <2>. QED  BY <2>5, <2>6, <2>7
<1>. QED  BY <1>2, <1>3, <1>4, <1>5, OrderStepsDescribed DEF OrderSteps

\* At first nobody has spent anything.
LEMMA OrdersCoveredInit ==
    ASSUME Init
    PROVE  OrdersCovered
<1>. SUFFICES ASSUME NEW u \in Users
              PROVE  EdgeBalance(u) - InProgress(u) >= -(Cardinality(Slots) - 1) * MaxTotal
  BY DEF OrdersCovered
<1>1. RowsOf(u) = {} /\ Writing(u) = {}
  BY DEF Init, RowsOf, Writing, Idle
<1>2. EdgeBalance(u) = Credit[u] + 0 /\ InProgress(u) = 0
  BY <1>1, SumEmpty DEF EdgeBalance, InProgress
<1>3. Credit[u] \in Nat
  BY EdgeAssumption
<1>4. PICK bound \in Nat : bound = (Cardinality(Slots) - 1) * MaxTotal
  BY BoundIsNegative
<1>5. EdgeBalance(u) - InProgress(u) >= -bound
  BY <1>2, <1>3
<1>. QED  BY <1>4, <1>5

-----------------------------------------------------------------------------
\* The invariant

\* The copy of the catalog stays within what was created.
LEMMA CatalogKept ==
    ASSUME EInv, [Next]_vars
    PROVE  CatalogTypeOK' /\ CopyIsGenuine'
<1>0. CatalogTypeOK /\ CopyIsGenuine
  BY DEF EInv, TypeOK
<1>1. ASSUME NEW role \in UserRoles, NEW i \in Items, CreateItem(role, i) \/ DeleteItem(role, i)
      PROVE  CatalogTypeOK' /\ CopyIsGenuine'
  BY <1>0, <1>1 DEF CreateItem, DeleteItem, CatalogTypeOK, CopyIsGenuine
<1>2. CASE SyncCatalog
  BY <1>0, <1>2 DEF SyncCatalog, Offered, CatalogTypeOK, CopyIsGenuine
<1>3. CASE items' = items /\ local_items' = local_items
  BY <1>0, <1>3 DEF CatalogTypeOK, CopyIsGenuine
<1>. QED
  BY <1>1, <1>2, <1>3
     DEF Next, vars, Maintain, CatalogNext, CheckOrder, WriteOrder, StartSync, Reply, DropFrame,
         IngestEvent, LoseEvent, MarkSynced, AbandonSync, CrashEdge

\* No key is used twice on the edge.
LEMMA LocalKeysKept ==
    ASSUME EInv, LocalStep
    PROVE  LocalKeysUnique'
<1>0. edge_events \in Seq(EdgeRows) /\ LocalKeysUnique
  BY DEF EInv, TypeOK
<1>1. CASE edge_events' = edge_events
  BY <1>0, <1>1 DEF LocalKeysUnique
<1>2. ASSUME NEW b \in Sales, ~EdgeKeyTaken(b.idempotency_key),
             edge_events' = Append(edge_events, EdgeRow(b))
      PROVE  LocalKeysUnique'
  <2>1. PICK row \in EdgeRows : row = EdgeRow(b) /\ row.idempotency_key = b.idempotency_key
    BY EdgeRowFields
  <2>2. DOMAIN edge_events' = DOMAIN edge_events \cup {Len(edge_events) + 1}
        /\ edge_events'[Len(edge_events) + 1] = row
        /\ Len(edge_events) + 1 \notin DOMAIN edge_events
        /\ \A n \in DOMAIN edge_events : edge_events'[n] = edge_events[n]
    BY <1>0, <1>2, <2>1
  <2>. QED  BY <1>0, <1>2, <2>1, <2>2 DEF LocalKeysUnique, EdgeKeyTaken
<1>. QED  BY <1>1, <1>2 DEF LocalStep

\* The cloud gets rows of the edge only.
LEMMA CloudKept ==
    ASSUME EInv, LocalStep, CloudStep
    PROVE  CloudFromEdge'
<1>1. /\ DOMAIN edge_events \subseteq DOMAIN edge_events'
      /\ \A n \in DOMAIN edge_events : edge_events'[n] = edge_events[n]
  BY LocalRowsStay DEF EInv
<1>. DEFINE CloudRow(e) == Row(AuthorisedWriter(e.event_type), CloudRequest(e))
<1>2. \A e \in ledger_events : \E n \in DOMAIN edge_events : e = CloudRow(edge_events[n])
  BY DEF EInv, CloudFromEdge
<1>3. ledger_events' = ledger_events
      \/ \E n \in DOMAIN edge_events :
            ledger_events' = ledger_events \cup {CloudRow(edge_events[n])}
  BY DEF CloudStep
<1>4. SUFFICES \A e \in ledger_events' : \E n \in DOMAIN edge_events' : e = CloudRow(edge_events'[n])
  BY DEF CloudFromEdge, AuthorisedWriter, CloudRequest, Row, WriteRequest
<1>. HIDE DEF CloudRow
<1>. QED  BY <1>1, <1>2, <1>3

\* What the agent and the sync service may be at, over a set of rows.
AgentAt(rows) ==
    {Idle} \cup [pc : {"wait"}, frame : FrameSlots] \cup [pc : {"mark"}, rows : SUBSET rows]
FrameAt(rows) ==
    {Idle} \cup [pc : {"ingest"}, todo : SUBSET rows, ok : SUBSET rows]

\* More rows leave an agent and a frame what they are.
LEMMA MoreRows ==
    ASSUME NEW S, NEW T, S \subseteq T
    PROVE  AgentAt(S) \subseteq AgentAt(T) /\ FrameAt(S) \subseteq FrameAt(T)
BY DEF AgentAt, FrameAt

\* Orders in progress keep their type.
LEMMA OrdersKept ==
    ASSUME EInv, [Next]_vars
    PROVE  slots' \in [Slots -> Order]
<1>0. slots \in [Slots -> Order]
  BY DEF EInv, TypeOK
<1>. QED
  BY <1>0 DEF Next, vars, edge_vars, Maintain, CheckOrder, WriteOrder, StartSync, Reply, DropFrame,
         IngestEvent, LoseEvent, MarkSynced, AbandonSync, CrashEdge, Order, Idle

\* The sync variables keep their types and what they know.
SyncKept ==
    /\ synced' \subseteq DOMAIN edge_events
    /\ agent' \in AgentAt(DOMAIN edge_events)
    /\ frames' \in [FrameSlots -> FrameAt(DOMAIN edge_events)]
    /\ \A n \in synced' : Booked(n) \/ Booked(n)'
    /\ agent'.pc = "mark" => \A n \in agent'.rows : Booked(n) \/ Booked(n)'
    /\ \A f \in FrameSlots : frames'[f] # Idle => \A n \in frames'[f].ok : Booked(n) \/ Booked(n)'

\* Every step keeps them.
LEMMA SyncStepKept ==
    ASSUME EInv, [Next]_vars
    PROVE  SyncKept
<1>. DEFINE D == DOMAIN edge_events
<1>0. /\ synced \subseteq D
      /\ agent \in AgentAt(D)
      /\ frames \in [FrameSlots -> FrameAt(D)]
      /\ \A n \in synced : Booked(n)
      /\ agent.pc = "mark" => \A n \in agent.rows : Booked(n)
      /\ \A f \in FrameSlots : frames[f] # Idle => \A n \in frames[f].ok : Booked(n)
  BY DEF EInv, TypeOK, AgentAt, FrameAt, SyncedIsBooked, AnswersTrue
<1>1. ASSUME NEW f \in FrameSlots, StartSync(f) PROVE SyncKept
  <2>1. Batch \subseteq D
    BY DEF Batch, Pending
  <2>2. agent' = [pc |-> "wait", frame |-> f] /\ agent' \in AgentAt(D) /\ agent'.pc # "mark"
    BY <1>1 DEF StartSync, AgentAt
  <2>. DEFINE x == [pc |-> "ingest", todo |-> Batch, ok |-> {}]
  <2>3. x \in FrameAt(D) /\ x.ok = {}
    BY <2>1 DEF FrameAt
  <2>4. frames' = [frames EXCEPT ![f] = x] /\ synced' = synced
    BY <1>1 DEF StartSync
  <2>. HIDE DEF x
  <2>. QED  BY <1>0, <2>2, <2>3, <2>4 DEF SyncKept
<1>2. ASSUME NEW f \in FrameSlots, NEW n \in DOMAIN edge_events, IngestEvent(f, n)
      PROVE  SyncKept
  <2>1. frames[f] \in FrameAt(D) /\ frames[f].pc = "ingest"
    BY <1>0, <1>2 DEF IngestEvent
  <2>2. /\ frames[f] # Idle
        /\ frames[f].todo \subseteq D /\ frames[f].ok \subseteq D
    BY <2>1 DEF FrameAt, Idle
  <2>. DEFINE good == frames[f].ok \cup (IF CloudAccepts(edge_events[n]) THEN {n} ELSE {})
              x == [pc |-> "ingest", todo |-> frames[f].todo \ {n}, ok |-> good]
  <2>3. frames' = [frames EXCEPT ![f] = x] /\ synced' = synced /\ agent' = agent
    BY <1>2 DEF IngestEvent
  <2>4. x \in FrameAt(D) /\ x.ok = good
    BY <2>2 DEF FrameAt
  <2>5. \A m \in good : Booked(m) \/ Booked(m)'
    <3>1. CloudAccepts(edge_events[n]) => Booked(n)'
      BY <1>2, AcceptedIsBookedAsWritten DEF IngestEvent, edge_vars
    <3>. QED  BY <1>0, <2>2, <3>1
  <2>. HIDE DEF x, good
  <2>. QED  BY <1>0, <2>3, <2>4, <2>5 DEF SyncKept
<1>3. ASSUME NEW f \in FrameSlots, NEW n \in DOMAIN edge_events, LoseEvent(f, n)
      PROVE  SyncKept
  <2>1. frames[f] \in FrameAt(D) /\ frames[f].pc = "ingest"
    BY <1>0, <1>3 DEF LoseEvent
  <2>2. /\ frames[f] # Idle
        /\ frames[f].todo \subseteq D /\ frames[f].ok \subseteq D
    BY <2>1 DEF FrameAt, Idle
  <2>. DEFINE x == [pc |-> "ingest", todo |-> frames[f].todo \ {n}, ok |-> frames[f].ok]
  <2>3. frames' = [frames EXCEPT ![f] = x] /\ synced' = synced /\ agent' = agent
    BY <1>3 DEF LoseEvent
  <2>4. x \in FrameAt(D) /\ x.ok = frames[f].ok
    BY <2>2 DEF FrameAt
  <2>. HIDE DEF x
  <2>. QED  BY <1>0, <2>2, <2>3, <2>4 DEF SyncKept
<1>4. ASSUME NEW f \in FrameSlots, Reply(f) PROVE SyncKept
  <2>1. frames[f] \in FrameAt(D) /\ frames[f].pc = "ingest"
    BY <1>0, <1>4 DEF Reply
  <2>2. frames[f] # Idle /\ frames[f].ok \subseteq D
    BY <2>1 DEF FrameAt, Idle
  <2>. DEFINE a == [pc |-> "mark", rows |-> frames[f].ok]
  <2>3. a \in AgentAt(D) /\ a.rows = frames[f].ok
    BY <2>2 DEF AgentAt
  <2>4. agent' = agent \/ agent' = Idle \/ agent' = a
    BY <1>4 DEF Reply
  <2>5. Idle \in AgentAt(D) /\ Idle \in FrameAt(D) /\ Idle.pc # "mark"
    BY DEF AgentAt, FrameAt, Idle
  <2>6. frames' = [frames EXCEPT ![f] = Idle] /\ synced' = synced
    BY <1>4 DEF Reply
  <2>7. agent' \in AgentAt(D)
        /\ (agent'.pc = "mark" => \A n \in agent'.rows : Booked(n))
    <3>. HIDE DEF a
    <3>. QED  BY <1>0, <2>2, <2>3, <2>4, <2>5
  <2>. QED  BY <1>0, <2>5, <2>6, <2>7 DEF SyncKept
<1>5. CASE MarkSynced
  <2>1. agent.pc = "mark" /\ agent.rows \subseteq D
    BY <1>0, <1>5 DEF MarkSynced, AgentAt, Idle
  <2>2. Idle \in AgentAt(D) /\ Idle.pc # "mark"
    BY DEF AgentAt, Idle
  <2>3. synced' = synced \cup agent.rows /\ agent' = Idle /\ frames' = frames
    BY <1>5 DEF MarkSynced
  <2>. QED  BY <1>0, <2>1, <2>2, <2>3 DEF SyncKept
<1>6. CASE /\ synced' = synced
           /\ agent' \in {agent, Idle}
           /\ frames' = frames \/ \E f \in FrameSlots : frames' = [frames EXCEPT ![f] = Idle]
  <2>1. Idle \in AgentAt(D) /\ Idle \in FrameAt(D) /\ Idle.pc # "mark"
    BY DEF AgentAt, FrameAt, Idle
  <2>. QED  BY <1>0, <1>6, <2>1 DEF SyncKept
<1>7. ASSUME NEW f \in FrameSlots, DropFrame(f)
      PROVE  /\ synced' = synced
             /\ agent' \in {agent, Idle}
             /\ frames' = [frames EXCEPT ![f] = Idle]
  BY <1>7 DEF DropFrame
<1>8. CASE AbandonSync \/ CrashEdge
  BY <1>6, <1>8 DEF AbandonSync, CrashEdge
<1>9. CASE UNCHANGED sync_vars
  BY <1>6, <1>9 DEF sync_vars
<1>. QED
  BY <1>1, <1>2, <1>3, <1>4, <1>5, <1>6, <1>7, <1>8, <1>9
     DEF Next, vars, Maintain, CheckOrder, WriteOrder

\* The bound on failures keeps.
LEMMA FaultsKept ==
    ASSUME EInv, [Next]_vars
    PROVE  faults' \in 0..MaxFaults
<1>0. faults \in 0..MaxFaults /\ MaxFaults \in Nat
  BY DEF EInv, TypeOK
<1>1. faults' = faults \/ (faults < MaxFaults /\ faults' = faults + 1)
  BY DEF Next, vars, sync_vars, Maintain, CheckOrder, WriteOrder, StartSync, Reply, DropFrame,
         IngestEvent, LoseEvent, MarkSynced, AbandonSync, CrashEdge
<1>. QED  BY <1>0, <1>1

\* The invariant is preserved by every step.
LEMMA EInvKept ==
    ASSUME EInv, [Next]_vars
    PROVE  EInv'
<1>1. LocalStep /\ CloudStep /\ [LedgerAppend]_ledger_events
  BY StepsDescribed DEF EInv
<1>2. /\ edge_events' \in Seq(EdgeRows)
      /\ DOMAIN edge_events \subseteq DOMAIN edge_events'
  BY <1>1, LocalRowsStay DEF EInv
<1>3. SyncKept
  BY SyncStepKept
<1>4. \A n \in DOMAIN edge_events : Booked(n) => Booked(n)'
  BY <1>1, BookedStays DEF EInv
<1>5. TypeOK'
  <2>1. CatalogTypeOK' /\ slots' \in [Slots -> Order] /\ faults' \in 0..MaxFaults
    BY CatalogKept, OrdersKept, FaultsKept
  <2>2. /\ agent' \in AgentAt(DOMAIN edge_events')
        /\ frames' \in [FrameSlots -> FrameAt(DOMAIN edge_events')]
        /\ synced' \subseteq DOMAIN edge_events'
    BY <1>2, <1>3, MoreRows DEF SyncKept
  <2>. QED  BY <1>2, <2>1, <2>2 DEF TypeOK, AgentAt, FrameAt, EdgeRows, EdgeRow, Order, Idle
<1>6. SyncedIsBooked' /\ AnswersTrue'
  <2>1. \A n \in synced' : n \in DOMAIN edge_events /\ Booked(n)'
    BY <1>3, <1>4 DEF SyncKept
  <2>2. agent'.pc = "mark" => \A n \in agent'.rows : Booked(n)'
    <3>1. agent'.pc = "mark" => agent'.rows \subseteq DOMAIN edge_events
      BY <1>3 DEF SyncKept, AgentAt, Idle
    <3>. QED  BY <1>3, <1>4, <3>1 DEF SyncKept
  <2>3. \A f \in FrameSlots : frames'[f] # Idle => \A n \in frames'[f].ok : Booked(n)'
    <3>1. \A f \in FrameSlots : frames'[f] # Idle => frames'[f].ok \subseteq DOMAIN edge_events
      BY <1>3 DEF SyncKept, FrameAt
    <3>. QED  BY <1>3, <1>4, <3>1 DEF SyncKept
  <2>. QED  BY <2>1, <2>2, <2>3 DEF SyncedIsBooked, AnswersTrue, Idle
<1>7. UniqueIdempotencyKey'
  BY <1>1, ContractKeepsKeysUnique DEF EInv
<1>8. CopyIsGenuine' /\ LocalKeysUnique' /\ CloudFromEdge'
  BY <1>1, CatalogKept, LocalKeysKept, CloudKept
<1>9. OrdersCovered'
  BY OrdersCoveredKept DEF EInv
<1>. QED  BY <1>5, <1>6, <1>7, <1>8, <1>9 DEF EInv

\* The invariant holds at first.
LEMMA EInvInit ==
    ASSUME Init
    PROVE  EInv
<1>1. /\ ledger_events = {} /\ CatalogInit /\ edge_events = <<>> /\ synced = {}
      /\ slots = [r \in Slots |-> Idle] /\ agent = Idle
      /\ frames = [f \in FrameSlots |-> Idle] /\ faults = 0
  BY DEF Init
<1>2. CatalogTypeOK /\ CopyIsGenuine
  BY <1>1 DEF CatalogInit, CatalogTypeOK, CopyIsGenuine
<1>3. edge_events \in Seq(EdgeRows) /\ DOMAIN edge_events = {}
  BY <1>1
<1>4. agent.pc = "idle"
  BY <1>1 DEF Idle
<1>5. faults \in 0..MaxFaults
  BY <1>1
<1>6. TypeOK
  BY <1>1, <1>2, <1>3, <1>5 DEF TypeOK, Order
<1>. QED
  BY <1>1, <1>2, <1>3, <1>4, <1>6, OrdersCoveredInit
     DEF EInv, UniqueIdempotencyKey, LocalKeysUnique, CloudFromEdge, SyncedIsBooked, AnswersTrue

\* The inductive invariant of the edge and the sync service.
THEOREM EdgeInvariance == Spec => []EInv
<1>. QED  BY EInvInit, EInvKept, PTL DEF Spec

\* An order is struck off only when the cloud has booked it as it was written,
\* whatever gets lost, crashes or overlaps.
THEOREM StruckOffIsBooked == Spec => []SyncedIsBooked
<1>1. EInv => SyncedIsBooked
  BY DEF EInv
<1>. QED  BY <1>1, EdgeInvariance, PTL

\* However many orders run at once, and whatever is retried or restarted, a guest
\* gets into the red by one order for each further handler at most.
THEOREM EdgeOverdraftIsBounded == Spec => []EdgeOverdraftBounded
<1>1. EInv => EdgeOverdraftBounded
  <2>. SUFFICES ASSUME EInv, NEW u \in Users
                PROVE  EdgeBalance(u) >= -(Cardinality(Slots) - 1) * MaxTotal
    BY DEF EdgeOverdraftBounded
  <2>1. EdgeBalance(u) - InProgress(u) >= -(Cardinality(Slots) - 1) * MaxTotal
    BY DEF EInv, OrdersCovered
  <2>2. EdgeBalance(u) \in Int /\ InProgress(u) \in Nat
    BY EdgeBalanceType, InProgressType DEF EInv
  <2>3. PICK bound \in Nat : bound = (Cardinality(Slots) - 1) * MaxTotal
    BY BoundIsNegative
  <2>4. EdgeBalance(u) >= -bound
    BY <2>1, <2>2, <2>3
  <2>. QED  BY <2>3, <2>4
<1>. QED  BY <1>1, EdgeInvariance, PTL

\* The edge and the sync service keep the contract of the ledger.
THEOREM EdgeLedgerIsAppendOnly == Spec => LedgerContract
<1>1. EInv /\ [Next]_vars => [LedgerAppend]_ledger_events
  BY StepsDescribed DEF EInv
<1>. QED  BY <1>1, EdgeInvariance, PTL DEF Spec, LedgerContract

-----------------------------------------------------------------------------
\* The refinement

\* The rows of the cloud are as the edge wrote them.
LEMMA CloudEntries ==
    ASSUME EInv, NEW e \in ledger_events
    PROVE  \E n \in DOMAIN edge_events :
              Entry(e) = Entry(edge_events[n]) /\ e.idempotency_key = edge_events[n].idempotency_key
<1>1. PICK n \in DOMAIN edge_events :
         e = Row(AuthorisedWriter(edge_events[n].event_type), CloudRequest(edge_events[n]))
  BY DEF EInv, CloudFromEdge
<1>2. PICK b \in Sales : edge_events[n] = EdgeRow(b)
  BY LocalRow DEF EInv
<1>. QED  BY <1>1, <1>2, CloudRowFields

\* Entries tell rows by their keys.
LEMMA EntryKey ==
    ASSUME NEW e
    PROVE  Entry(e).key = e.idempotency_key
BY DEF Entry

\* Every step is one of EdgeTransfer, or none.
LEMMA TransferStep ==
    ASSUME EInv, EInv', [Next]_vars
    PROVE  [Transfer!Next]_Transfer!vars
<1>. DEFINE written == {Entry(edge_events[n]) : n \in DOMAIN edge_events}
            booked == {Entry(e) : e \in ledger_events}
            struck == {Entry(edge_events[n]) : n \in synced}
<1>0. LocalStep /\ CloudStep /\ SyncKept
  BY StepsDescribed, SyncStepKept DEF EInv
<1>1. synced \subseteq DOMAIN edge_events /\ edge_events \in Seq(EdgeRows)
  BY DEF EInv, TypeOK
<1>2. ASSUME NEW b \in Sales, ~EdgeKeyTaken(b.idempotency_key),
             edge_events' = Append(edge_events, EdgeRow(b)),
             ledger_events' = ledger_events, synced' = synced
      PROVE  Transfer!Next
  <2>1. PICK row \in EdgeRows : row = EdgeRow(b) /\ row.idempotency_key = b.idempotency_key
    BY EdgeRowFields
  <2>2. /\ DOMAIN edge_events' = DOMAIN edge_events \cup {Len(edge_events) + 1}
        /\ edge_events'[Len(edge_events) + 1] = row
        /\ \A n \in DOMAIN edge_events : edge_events'[n] = edge_events[n]
    BY <1>1, <1>2, <2>1
  <2>3. written' = written \cup {Entry(row)}
    BY <2>2 DEF Entry
  <2>4. booked' = booked /\ struck' = struck
    BY <1>1, <1>2, <2>2 DEF Entry
  <2>5. \A x \in written : x.key # Entry(row).key
    BY <1>2, <2>1, EntryKey DEF EdgeKeyTaken
  <2>6. Transfer!Write(Entry(row))
    BY <2>3, <2>4, <2>5 DEF Transfer!Write
  <2>. QED  BY <2>6, <2>1 DEF Transfer!Next
<1>3. ASSUME NEW n \in DOMAIN edge_events, ~KeyTaken(edge_events[n].idempotency_key),
             edge_events' = edge_events, synced' = synced,
             ledger_events' = ledger_events \cup
                {Row(AuthorisedWriter(edge_events[n].event_type), CloudRequest(edge_events[n]))}
      PROVE  Transfer!Next
  <2>1. PICK b \in Sales : edge_events[n] = EdgeRow(b)
    BY LocalRow DEF EInv
  <2>2. booked' = booked \cup {Entry(edge_events[n])}
    <3>1. PICK row : row = Row(AuthorisedWriter(edge_events[n].event_type),
                               CloudRequest(edge_events[n]))
      OBVIOUS
    <3>2. Entry(row) = Entry(edge_events[n])
      BY <2>1, <3>1, CloudRowFields
    <3>3. booked' = {Entry(e) : e \in ledger_events'}
      BY DEF Entry
    <3>4. ledger_events' = ledger_events \cup {row}
      BY <1>3, <3>1
    <3>. QED  BY <3>2, <3>3, <3>4
  <2>3. written' = written /\ struck' = struck
    BY <1>3 DEF Entry
  <2>4. Entry(edge_events[n]) \notin booked
    BY <1>3, EntryKey DEF KeyTaken
  <2>5. Transfer!Book(Entry(edge_events[n]))
    BY <2>2, <2>3, <2>4 DEF Transfer!Book
  <2>6. edge_events[n] \in EdgeRows
    BY <2>1, EdgeRowFields
  <2>. QED  BY <2>5, <2>6 DEF Transfer!Next
<1>4. ASSUME edge_events' = edge_events, ledger_events' = ledger_events,
             agent.pc = "mark", synced' = synced \cup agent.rows
      PROVE  Transfer!Next
  <2>. DEFINE S == {Entry(edge_events[n]) : n \in agent.rows}
  <2>1. S \subseteq booked
    BY <1>4 DEF EInv, AnswersTrue, Booked
  <2>2. struck' = struck \cup S /\ written' = written /\ booked' = booked
    BY <1>4 DEF Entry
  <2>3. Transfer!Strike(S)
    BY <2>1, <2>2 DEF Transfer!Strike
  <2>. QED  BY <2>1, <2>3 DEF Transfer!Next
<1>5. ASSUME edge_events' = edge_events, ledger_events' = ledger_events, synced' = synced
      PROVE  UNCHANGED Transfer!vars
  BY <1>5 DEF Transfer!vars, Entry
<1>6. ASSUME NEW r \in Slots, WriteOrder(r)
      PROVE  ledger_events' = ledger_events /\ synced' = synced
  BY <1>6 DEF WriteOrder, sync_vars
<1>7. ASSUME NEW f \in FrameSlots, NEW n \in DOMAIN edge_events,
             IngestEvent(f, n) \/ LoseEvent(f, n)
      PROVE  edge_events' = edge_events /\ synced' = synced
  BY <1>7 DEF IngestEvent, LoseEvent, edge_vars
<1>8. CASE MarkSynced
  BY <1>4, <1>8 DEF MarkSynced, edge_vars
<1>9. \/ ledger_events' = ledger_events /\ synced' = synced
      \/ edge_events' = edge_events /\ synced' = synced
      \/ MarkSynced
  BY <1>6, <1>7 DEF Next, vars, edge_vars, sync_vars, Maintain, CheckOrder, StartSync, Reply,
     DropFrame, AbandonSync, CrashEdge
<1>10. CASE ledger_events' = ledger_events /\ synced' = synced
  BY <1>0, <1>2, <1>5, <1>10 DEF LocalStep
<1>11. CASE edge_events' = edge_events /\ synced' = synced
  BY <1>0, <1>3, <1>5, <1>11 DEF CloudStep
<1>. QED  BY <1>8, <1>9, <1>10, <1>11

\* The initial states map to the initial one.
LEMMA TransferInit ==
    ASSUME Init
    PROVE  Transfer!Init
BY DEF Init, Transfer!Init

\* The edge, the agent and the sync service implement EdgeTransfer: every order is
\* booked at most once and as it was written, and struck off only after that.
THEOREM ImplementsTransfer == Spec => TransferSpec
<1>1. EInv /\ EInv' /\ [Next]_vars => [Transfer!Next]_Transfer!vars
  BY TransferStep
<1>2. Init => Transfer!Init
  BY TransferInit
<1>. QED  BY <1>1, <1>2, EdgeInvariance, PTL DEF Spec, TransferSpec, Transfer!Spec

=============================================================================
