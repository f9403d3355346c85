------------------------------ MODULE MCOrders ------------------------------
(***************************************************************************)
(* Instances of Orders for TLC.                                            *)
(***************************************************************************)
EXTENDS Orders, TLC

CONSTANTS g1, g2, v1, v2, s1, bar, boss

MCRoleOf == (bar :> "bartender") @@ (boss :> "venue_admin")

Body(v, s, staff, total) ==
    [venue_id |-> v, guest_session_id |-> s, staff_user_id |-> staff,
     total_nc |-> total]

\* One venue, one session, two prices.
OneVenueBodies == {Body(v1, s1, bar, 1), Body(v1, s1, bar, 2)}

\* Two venues.
TwoVenueBodies == {Body(v1, s1, bar, 2), Body(v2, s1, bar, 2)}

OneBody == {Body(v1, s1, bar, 2)}

\* Enough for one order of two.
OneTopup == {[id |-> 1, user_id |-> g1, amount_nc |-> 2]}

TopupEach == {[id |-> 1, user_id |-> g1, amount_nc |-> 2],
              [id |-> 2, user_id |-> g2, amount_nc |-> 2]}

TwoTopups == {[id |-> 1, user_id |-> g1, amount_nc |-> 2],
              [id |-> 2, user_id |-> g1, amount_nc |-> 1]}

SlotSymmetry == Permutations(Slots)
BothSymmetry == SlotSymmetry \cup Permutations(OrderIds)

=============================================================================
