-------------------------------- MODULE MCEdge --------------------------------
(***************************************************************************)
(* An instance of Edge for TLC.                                            *)
(***************************************************************************)
EXTENDS Edge

CONSTANTS g1, g2, k1, k2, k3, beer

Order1(u, quantity, device, key) ==
    [user_id |-> u, items |-> [i \in {beer} |-> quantity], device_id |-> device,
     idempotency_key |-> key]

\* k1 is used by two guests, one of them with a negative quantity, and the ledger
\* cannot take the device of k2.
MCBodies ==
    {Order1(g1, 1, "uuid", k1), Order1(g2, -1, "none", k1), Order1(g1, 2, "text", k2),
     Order1(g1, 2, "none", k3)}

MCPrice == [i \in {beer} |-> 1]
MCCredit == [u \in {g1, g2} |-> IF u = g1 THEN 2 ELSE 1]

=============================================================================
