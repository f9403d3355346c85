----------------------------- MODULE EdgeTransfer -----------------------------
(***************************************************************************)
(* What an edge node and the cloud promise each other, without frames,     *)
(* batches or retries: an order is written on the edge under a fresh key,  *)
(* it is booked in the cloud at most once and as it was written, and the   *)
(* edge strikes it off only when it is booked.  That everything is booked  *)
(* in the end is not part of this promise.                                 *)
(***************************************************************************)
CONSTANT Entries   \* entries that may be written, each with a .key

VARIABLES
    written,    \* on the edge
    booked,     \* in the cloud
    struck      \* off the list of what is to be sent

vars == <<written, booked, struck>>

Init == written = {} /\ booked = {} /\ struck = {}

Write(e) ==
    /\ \A f \in written : f.key # e.key
    /\ written' = written \cup {e}
    /\ UNCHANGED <<booked, struck>>

Book(e) ==
    /\ e \in written \ booked
    /\ booked' = booked \cup {e}
    /\ UNCHANGED <<written, struck>>

Strike(S) ==
    /\ S \subseteq booked
    /\ struck' = struck \cup S
    /\ UNCHANGED <<written, booked>>

Next ==
    \/ \E e \in Entries : Write(e) \/ Book(e)
    \/ \E S \in SUBSET booked : Strike(S)

Spec == Init /\ [][Next]_vars

=============================================================================
