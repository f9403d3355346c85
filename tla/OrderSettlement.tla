-------------------------- MODULE OrderSettlement ---------------------------
(***************************************************************************)
(* What the orders service promises of the money behind each order,        *)
(* without requests, ledger rows or retries: an order is charged at most   *)
(* once and to one payer, it is settled only after it was charged, and     *)
(* once void it stays void.  It also states what is not promised: a void   *)
(* order may have been charged without ever being settled.                 *)
(***************************************************************************)
CONSTANTS Orders, Payers, Nobody

VARIABLES
    phase,   \* phase[o] is "none", "open", "settled" or "void"
    payer    \* payer[o] is the user charged for o, or Nobody

vars == <<phase, payer>>

Init ==
    /\ phase = [o \in Orders |-> "none"]
    /\ payer = [o \in Orders |-> Nobody]

Open(o) ==
    /\ phase[o] = "none"
    /\ phase' = [phase EXCEPT ![o] = "open"]
    /\ UNCHANGED payer

Charge(o, u) ==
    /\ phase[o] \in {"open", "void"}
    /\ payer[o] = Nobody
    /\ payer' = [payer EXCEPT ![o] = u]
    /\ UNCHANGED phase

Settle(o) ==
    /\ phase[o] = "open"
    /\ payer[o] # Nobody
    /\ phase' = [phase EXCEPT ![o] = "settled"]
    /\ UNCHANGED payer

Void(o) ==
    /\ phase[o] \in {"open", "settled"}
    /\ phase' = [phase EXCEPT ![o] = "void"]
    /\ UNCHANGED payer

Next ==
    \E o \in Orders :
        \/ Open(o)
        \/ \E u \in Payers : Charge(o, u)
        \/ Settle(o)
        \/ Void(o)

Spec == Init /\ [][Next]_vars

=============================================================================
