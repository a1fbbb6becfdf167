---------------------------- MODULE BatteryStock ----------------------------
(***************************************************************************)
(* The battery and order tables of the logistics side and the one helper   *)
(* through which its handlers move batteries,                              *)
(* src/app/services/battery_consistency.py:apply_battery_transition.       *)
(* Serial numbers are model values (normalisation makes them canonical),   *)
(* the lifecycle-event log is left out except for the "dispatched" events, *)
(* which the Orders module keeps because a release reads them back.        *)
(***************************************************************************)
EXTENDS Naturals, FiniteSets

CONSTANTS Batteries, Orders, Warehouses, Stations, Shelves,
          WarehouseOf,   \* the warehouse a shelf's rack stands in
          Capacity,      \* Shelf.capacity
          None           \* SQL NULL

ASSUME StockAssumption ==
  /\ WarehouseOf \in [Shelves -> Warehouses]
  /\ Capacity \in [Shelves -> Nat]
  /\ Warehouses \cap Stations = {} /\ (Warehouses \cup Stations) \cap Shelves = {}
  /\ {"transit", "customer"} \cap (Warehouses \cup Stations \cup Shelves \cup {None}) = {}
  /\ None \notin Warehouses \cup Stations \cup Shelves

VARIABLES
  battery,   \* battery rows: status and canonical location
  shelfOf,   \* ShelfBattery: the shelf a row assigns the battery to, or None
  order,     \* order rows; status "absent" is a row that does not exist
  items,     \* OrderBattery: the batteries indexed under an order
  torn       \* ghost: batteries some writer changed without holding the row
             \* lock and the active-order check at the same time

stockVars == <<battery, shelfOf, torn>>

Places == Warehouses \cup Stations \cup Shelves
Locations == Places \cup {"transit", "customer"}
BatteryStatuses == {"absent", "available", "ready", "reserved", "deployed",
                    "maintenance", "retired"}

\* ACTIVE_ORDER_NORMALIZED_STATUSES: the raw statuses that lock a battery.
Active == {"pending", "assigned", "in_transit"}

\* assert_batteries_not_in_active_orders, negated, for one battery.
InActiveOrder(b, except) ==
  \E o \in Orders \ except : b \in items[o] /\ order[o].status \in Active

\* The rows the shelf s would hold once the batteries of `to` have moved; the
\* count is only taken when a battery without a row on s arrives there.
RoomOn(s, to) ==
  LET arriving == {b \in DOMAIN to : to[b].loc = s /\ shelfOf[b] # s}
      present  == {b \in Batteries : shelfOf[b] = s}
  IN  arriving = {} \/ Cardinality(present) + Cardinality(arriving) <= Capacity[s]

\* apply_battery_transition without assert_battery_not_locked.
CanMoveUnchecked(to, except) == \A s \in Shelves : RoomOn(s, to)

\* What apply_battery_transition asserts before it writes, for a transaction
\* that moves every battery in DOMAIN to (a function to status and location)
\* on behalf of the orders in except.
CanMove(to, except) ==
  /\ \A b \in DOMAIN to :
       /\ battery[b].status = "retired" => to[b].status = "retired"
       /\ to[b].loc = "transit" => to[b].status = "deployed"
       /\ ~InActiveOrder(b, except)
  /\ \A s \in Shelves : RoomOn(s, to)

\* apply_battery_transition that leaves the old shelf row behind.
MoveKeepingShelfRow(to) ==
  /\ battery' = [b \in Batteries |-> IF b \in DOMAIN to THEN to[b] ELSE battery[b]]
  /\ UNCHANGED shelfOf

\* What apply_battery_transition writes: status, location and the shelf row.
Move(to) ==
  /\ battery' = [b \in Batteries |-> IF b \in DOMAIN to THEN to[b] ELSE battery[b]]
  /\ shelfOf' = [b \in Batteries |->
                   IF b \notin DOMAIN to THEN shelfOf[b]
                   ELSE IF to[b].loc \in Shelves THEN to[b].loc ELSE None]

StockTypeOK ==
  /\ battery \in [Batteries -> [status : BatteryStatuses, loc : Locations]]
  /\ shelfOf \in [Batteries -> Shelves \cup {None}]
  /\ torn \subseteq Batteries

(* A battery that only checked writers have touched has a shelf row exactly *)
(* when its location is that shelf (assert_battery_shelf_state_consistent   *)
(* is what the dispatch path relies on; apply_battery_transition must keep  *)
(* the two tables in step through every move).                              *)
ShelfAgrees ==
  \A b \in Batteries \ torn :
    shelfOf[b] = IF battery[b].loc \in Shelves THEN battery[b].loc ELSE None
=============================================================================
