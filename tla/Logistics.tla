------------------------------ MODULE Logistics ------------------------------
(***************************************************************************)
(* Orders and the other warehouse writers over one battery table, and what *)
(* must hold of it.  "~stale" restricts a property to histories in which   *)
(* every commit so far acted on a copy that was still current; "torn" are  *)
(* the batteries an unlocked writer has changed.                           *)
(***************************************************************************)
EXTENDS Orders, Warehouse

vars == <<stockVars, orderVars, warehouseVars>>

Init ==
  /\ battery \in [Batteries -> {[status |-> "absent", loc |-> w] : w \in Warehouses}
                                 \cup {[status |-> "available", loc |-> w] : w \in Warehouses}]
  /\ shelfOf = [b \in Batteries |-> None]
  /\ torn = {}
  /\ OrdersInit /\ WarehouseInit

Next ==
  \/ OrdersNext /\ UNCHANGED warehouseVars
  \/ WarehouseNext /\ UNCHANGED <<source, driver, req, stale>>

Spec == Init /\ [][Next]_vars

(* Every table holds rows of its own kind. *)
TypeOK ==
  /\ StockTypeOK
  /\ order \in [Orders -> OrderRows]
  /\ items \in [Orders -> SUBSET Batteries]
  /\ source \in [Orders -> [Batteries -> Places \cup {"customer", None}]]
  /\ driver \in [Drivers -> {"available", "busy"}]
  /\ req \in [Clerks -> Requests \cup {Idle}]
  /\ stale \in BOOLEAN
  /\ manifest \in [Manifests -> [status : ManifestStatuses, item : [Batteries -> ItemStatuses \cup {None}]]]
  /\ repair \in Repairs \cup {None}

(* However requests overlap, the batteries of an order in transit are       *)
(* deployed and in transit: _sync_batteries_for_order_status writes them    *)
(* under the battery locks, and every other checked writer is refused while *)
(* the order is active.                                                     *)
TransitCustody ==
  \A o \in Orders : order[o].status = "in_transit" =>
    \A b \in items[o] \ torn : battery[b] = [status |-> "deployed", loc |-> "transit"]

(* However requests overlap, a battery on the road belongs to an order that *)
(* is still active, so some clerk can still deliver, fail or cancel it.     *)
TransitHasOrder ==
  \A b \in Batteries \ torn : battery[b].loc = "transit" => InActiveOrder(b, {})

(* While no commit was stale, the batteries of a delivery order that waits  *)
(* for dispatch are set aside in stock, and no other delivery order has     *)
(* them: _reserve_order_batteries and the active-order check.               *)
ReservedForOrder ==
  ~stale => \A o \in Orders :
    order[o].kind = "delivery" /\ order[o].status \in {"pending", "assigned"} =>
      /\ \A b \in items[o] \ torn : battery[b].status = "reserved" /\ battery[b].loc \in Places
      /\ \A c \in Orders \ {o} : order[c].kind = "delivery" /\ order[c].status \in Active
                                   => items[c] \cap items[o] = {}

(* While no commit was stale, a driver carries at most one active order and *)
(* is busy exactly while carrying one (assign_driver, the dispatch checks   *)
(* and _release_driver_if_idle together).                                   *)
DriverCommitted ==
  ~stale => \A d \in Drivers :
    LET carried == {o \in Orders : order[o].driver = d /\ order[o].status \in Active}
    IN  Cardinality(carried) <= 1 /\ (driver[d] = "busy" <=> carried # {})

(* A manifest is Received or Processed only when every item was accounted   *)
(* for, whatever sequence of partial receipts and corrections led there     *)
(* (_compute_manifest_status and _assert_manifest_receivable).              *)
ManifestComplete ==
  \A m \in Manifests : manifest[m].status \in {"Received", "Processed"} =>
    \A b \in Batteries : manifest[m].item[b] \notin {"pending", "missing"}
=============================================================================
