---------------------------- MODULE LedgerProofs -----------------------------
(***************************************************************************)
(* What POST /events does for every component that writes the ledger       *)
(* through it, whoever calls and whatever is sent.                         *)
(***************************************************************************)
EXTENDS Ledger, SumLemmas

\* POST /events leaves the ledger alone or appends one row under a fresh key.
LEMMA WriteEventAppends ==
    ASSUME NEW caller, NEW req, WriteEvent(caller, req)
    PROVE  \/ ledger_events' = ledger_events
           \/ /\ Accepts(caller, req)
              /\ ~KeyTaken(req.idempotency_key)
              /\ ledger_events' = ledger_events \cup {Row(caller, req)}
BY DEF WriteEvent, InsertEvent

\* After a POST /events that is answered 200 the key is on the ledger.
LEMMA AcceptedIsBooked ==
    ASSUME NEW caller, NEW req, WriteEvent(caller, req), Accepts(caller, req)
    PROVE  KeyTaken(req.idempotency_key)'
<1>1. CASE KeyTaken(req.idempotency_key) /\ ledger_events' = ledger_events
  BY <1>1 DEF KeyTaken
<1>2. CASE ledger_events' = ledger_events \cup {Row(caller, req)}
  <2>1. Row(caller, req).idempotency_key = req.idempotency_key
    BY DEF Row
  <2>. QED  BY <1>2, <2>1 DEF KeyTaken
<1>. QED  BY <1>1, <1>2 DEF WriteEvent, InsertEvent

\* Any call of POST /events keeps the contract of the ledger: no row is changed
\* or removed, and a new one has a fresh key and its rightful writer.
THEOREM WriteEventContract ==
    ASSUME NEW caller, NEW req, WriteEvent(caller, req)
    PROVE  [LedgerAppend]_ledger_events
<1>. DEFINE row == Row(caller, req)
<1>1. SUFFICES ASSUME Accepts(caller, req), ~KeyTaken(req.idempotency_key),
                      ledger_events' = ledger_events \cup {row}
               PROVE  LedgerAppend
  BY WriteEventAppends
<1>2. /\ row.idempotency_key = req.idempotency_key
      /\ row.event_type = req.event_type
      /\ row.written_by = caller
      /\ row.amount_nc = req.amount_nc
  BY DEF Row
<1>3. AuthorisedWriters[row.event_type] = row.written_by /\ row.amount_nc # 0
  BY <1>1, <1>2 DEF Accepts, Validate
<1>4. row \in ledger_events'
  BY <1>1
<1>. HIDE DEF row
<1>. QED  BY <1>1, <1>2, <1>3, <1>4 DEF LedgerAppend

\* Whatever keeps the contract keeps the keys unique.
LEMMA ContractKeepsKeysUnique ==
    ASSUME UniqueIdempotencyKey, [LedgerAppend]_ledger_events
    PROVE  UniqueIdempotencyKey'
BY DEF UniqueIdempotencyKey, LedgerAppend, KeyTaken

\* ... and the keys that are on the ledger.
LEMMA ContractKeepsKeys ==
    ASSUME [LedgerAppend]_ledger_events, NEW key, KeyTaken(key)
    PROVE  KeyTaken(key)'
BY DEF LedgerAppend, KeyTaken

-----------------------------------------------------------------------------
\* Balances

\* One more row adds its amount.
LEMMA OneMoreAmount ==
    ASSUME NEW S, IsFiniteSet(S), NEW row, row \notin S,
           \A e \in S \cup {row} : e.amount_nc \in Int
    PROVE  /\ SumOfAmounts(S) \in Int
           /\ SumOfAmounts(S \cup {row}) = SumOfAmounts(S) + row.amount_nc
<1>. DEFINE more == [e \in S \cup {row} |-> e.amount_nc]
            less == [e \in S |-> e.amount_nc]
<1>1. \A e \in S \cup {row} : more[e] \in Int
  OBVIOUS
<1>2. \A e \in S : less[e] \in Int /\ less[e] = more[e]
  OBVIOUS
<1>3. more[row] = row.amount_nc
  OBVIOUS
<1>. HIDE DEF more, less
<1>4. SumFunctionOnSet(more, S \cup {row}) = SumFunctionOnSet(more, S) + more[row]
  BY <1>1, SumAdd
<1>5. SumFunctionOnSet(less, S) = SumFunctionOnSet(more, S)
  BY <1>2, SumSame
<1>6. SumFunctionOnSet(less, S) \in Int
  BY <1>2, SumType
<1>. QED  BY <1>3, <1>4, <1>5, <1>6 DEF SumOfAmounts, more, less

\* A row counts for the balance of its user at its venue, unless its type is
\* excluded; without a venue it counts at all of them.
CountsFor(row, user, venue) ==
    /\ row.user_id = user
    /\ row.event_type \notin BalanceExcluded
    /\ row.venue_id \in {venue, NoVenue}

\* What a new row does to a balance.
LEMMA BalanceAppended ==
    ASSUME IsFiniteSet(ledger_events), NEW row, row \notin ledger_events,
           ledger_events' = ledger_events \cup {row},
           \A e \in ledger_events \cup {row} : e.amount_nc \in Int,
           NEW user, NEW venue
    PROVE  /\ VenueBalance(user, venue) \in Int
           /\ CountsFor(row, user, venue) =>
                VenueBalance(user, venue)' = VenueBalance(user, venue) + row.amount_nc
           /\ ~CountsFor(row, user, venue) =>
                VenueBalance(user, venue)' = VenueBalance(user, venue)
<1>1. PICK S : S = {e \in Spendable(user) : e.venue_id \in {venue, NoVenue}}
  OBVIOUS
<1>2. /\ S \subseteq ledger_events /\ IsFiniteSet(S) /\ row \notin S
      /\ \A e \in S \cup {row} : e.amount_nc \in Int
  BY <1>1, FS_Subset DEF Spendable
<1>3. /\ SumOfAmounts(S) \in Int
      /\ SumOfAmounts(S \cup {row}) = SumOfAmounts(S) + row.amount_nc
  BY <1>2, OneMoreAmount
<1>4. PICK T : T = {e \in Spendable(user) : e.venue_id \in {venue, NoVenue}}'
  OBVIOUS
<1>5. /\ CountsFor(row, user, venue) => T = S \cup {row}
      /\ ~CountsFor(row, user, venue) => T = S
  BY <1>1, <1>4 DEF Spendable, CountsFor
<1>6. /\ VenueBalance(user, venue) = SumOfAmounts(S)
      /\ VenueBalance(user, venue)' = SumOfAmounts(T)
  BY <1>1, <1>4 DEF VenueBalance, SumOfAmounts
<1>. QED  BY <1>3, <1>5, <1>6

=============================================================================
