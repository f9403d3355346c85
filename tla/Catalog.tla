------------------------------- MODULE Catalog --------------------------------
(***************************************************************************)
(* The items of one venue in the catalog service, and the copy of them on  *)
(* the venue's edge node.                                                  *)
(*                                                                         *)
(* An item's price is set when it is created: PATCH answers 501.  The copy *)
(* gets active items only and the code never removes one from it, so that  *)
(* it is a set.  Names, stock and display order decide nothing.            *)
(***************************************************************************)
EXTENDS Integers

CONSTANTS
    Items,   \* items of the venue, those not created yet included
    Price    \* price_nc of each

ASSUME CatalogAssumption == Price \in [Items -> Nat \ {0}]

VARIABLES
    items,        \* items[i] is "none", "active" or "deleted"
    local_items   \* rows of catalog_items on the edge

catalog_vars == <<items, local_items>>

UserRoles == {"guest", "venue_admin", "bartender", "door_staff", "nitecore"}
ItemManagers == {"venue_admin", "nitecore"}

CatalogInit ==
    /\ items = [i \in Items |-> "none"]
    /\ local_items = {}

CreateItem(role, i) ==
    /\ role \in ItemManagers
    /\ items[i] = "none"
    /\ items' = [items EXCEPT ![i] = "active"]
    /\ UNCHANGED local_items

\* Deleting an item once more is answered like the first time.
DeleteItem(role, i) ==
    /\ role \in ItemManagers
    /\ items[i] \in {"active", "deleted"}
    /\ items' = [items EXCEPT ![i] = "deleted"]
    /\ UNCHANGED local_items

\* What GET /venues/{venue_id}/items lists.
Offered == {i \in Items : items[i] = "active"}

\* The fetch and the upsert in one step: what is deleted in between is in the
\* copy all the same, as if it were deleted afterwards.
SyncCatalog ==
    /\ local_items' = local_items \cup Offered
    /\ UNCHANGED items

\* GetItem of the edge, which does not look at is_active.
KnownLocally(i) == i \in local_items

CatalogNext ==
    \/ \E role \in UserRoles, i \in Items : CreateItem(role, i) \/ DeleteItem(role, i)
    \/ SyncCatalog

CatalogTypeOK ==
    /\ items \in [Items -> {"none", "active", "deleted"}]
    /\ local_items \subseteq Items

\* The edge sells nothing that was never in the catalog.
CopyIsGenuine == \A i \in local_items : items[i] # "none"

=============================================================================
