----------------------------- MODULE MCPayments -----------------------------
(***************************************************************************)
(* Instances of Payments for TLC.                                          *)
(***************************************************************************)
EXTENDS Payments, TLC

CONSTANTS g1, g2, m1, m2

\* 19.99 * 100 is 1998.99... in binary floating point.
MCCharged == [a \in Amounts |-> IF a = 1999 THEN 1998 ELSE a]

\* Keys of one user with the same first characters.
MCMockId == [x \in Users \X TopupKeys |-> IF x[1] = g1 THEN m1 ELSE m2]

\* The users with their ids at the mock provider.
SwapUsers == [x \in {g1, g2, m1, m2} |->
                 CASE x = g1 -> g2 [] x = g2 -> g1 [] x = m1 -> m2 [] x = m2 -> m1]

AllSymmetry == {SwapUsers} \cup Permutations(Hooks) \cup Permutations(Slots) \cup Permutations(TopupKeys)

=============================================================================
