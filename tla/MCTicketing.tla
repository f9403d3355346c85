----------------------------- MODULE MCTicketing -----------------------------
(***************************************************************************)
(* Instances of Ticketing for TLC.                                         *)
(***************************************************************************)
EXTENDS Ticketing, TLC

CONSTANTS g1, g2, v1, k1, k2, k3, e1

Purchase(u, e, price, key) ==
    [user_id |-> u, event_id |-> e, venue_id |-> v1, price_nc |-> price,
     idempotency_key |-> key]

\* k1 is used as it should be, k2 by two guests, k3 for an event that is none.
MCBodies == {Purchase(g1, e1, 1, k1), Purchase(g1, e1, 2, k2), Purchase(g2, e1, 1, k2),
             Purchase(g2, BadEvent, 1, k3)}

SlotSymmetry == Permutations(Slots)

=============================================================================
