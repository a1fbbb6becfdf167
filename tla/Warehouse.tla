----------------------------- MODULE Warehouse ------------------------------
(***************************************************************************)
(* The other writers of the battery table that the logistics orders share: *)
(* inbound manifests (src/app/api/v1/manifests.py), shelf assignment       *)
(* (api/v1/warehouse_structure.py), maintenance (services/                 *)
(* maintenance_service.py), inventory transfers (services/                 *)
(* inventory_service.py) and the manual status routes (api/v1/batteries.py)*)
(* Manifest and shelf handlers lock the rows they change and are one step; *)
(* maintenance reads and checks first and writes later; transfers and the  *)
(* manual routes check nothing.                                            *)
(***************************************************************************)
EXTENDS BatteryStock

CONSTANTS Manifests,
          Serviced    \* bound: the batteries that the unlocked writers touch

ASSUME ServicedAssumption == Serviced \subseteq Batteries

VARIABLES
  manifest,   \* manifest rows with their item statuses (None: not an item)
  repair      \* the maintenance transaction in flight, or None

warehouseVars == <<manifest, repair>>
tables == <<order, items>>

ItemStatuses == {"pending", "scanned", "missing", "damaged", "extra"}
ManifestStatuses == {"absent", "In Transit", "In Progress", "Received", "Processed"}
NoManifest == [status |-> "absent", item |-> [b \in Batteries |-> None]]
Repairs == [to : {"maintenance", "ready"},
            seen : UNION {[S -> [status : BatteryStatuses, loc : Locations]] : S \in SUBSET Batteries}]

\* _compute_manifest_status that only looks for pending items.
ComputeStatusPendingOnly(item) ==
  IF \E b \in Batteries : item[b] = "pending" THEN "In Progress" ELSE "Received"

\* _compute_manifest_status over the manifest's items.
ComputeStatus(item) ==
  IF \E b \in Batteries : item[b] \in {"pending", "missing"} THEN "In Progress" ELSE "Received"

\* create_manifest: any item already past "pending" starts it In Progress.
CreateManifest(m, S, item) ==
  /\ manifest[m].status = "absent"
  /\ S # {} /\ item \in [S -> ItemStatuses \ {"extra"}]
  /\ \E st \in {"In Transit", "In Progress"} :
       /\ (\E b \in S : item[b] # "pending") => st = "In Progress"
       /\ manifest' = [manifest EXCEPT ![m] = [status |-> st,
            item |-> [b \in Batteries |-> IF b \in S THEN item[b] ELSE None]]]
  /\ UNCHANGED <<repair, tables, stockVars>>

\* receive_manifest: one transaction for the whole list of item updates; a
\* battery that does not exist yet is created at the receiving warehouse.
ReceiveManifest(m, w, upd) ==
  LET S == DOMAIN upd
      old == manifest[m].item
      here == {b \in S : upd[b] \in {"scanned", "damaged", "extra"}}
      to == [b \in here |-> [status |-> IF upd[b] = "damaged" THEN "maintenance" ELSE "available", loc |-> w]]
      new == [b \in Batteries |-> IF b \in S THEN upd[b] ELSE old[b]]
  IN
  /\ manifest[m].status \in {"In Transit", "In Progress", "Received"}
  /\ S # {}
  /\ \A b \in S : /\ old[b] = None => upd[b] = "extra"
                  /\ old[b] # None /\ upd[b] = "extra" => old[b] = "extra"
  /\ CanMove(to, {})
  /\ Move(to)
  /\ manifest' = [manifest EXCEPT ![m] = [status |-> ComputeStatus(new), item |-> new]]
  /\ UNCHANGED <<repair, tables, torn>>

\* process_manifest: only from Received, with no discrepancy left.
ProcessManifest(m) ==
  /\ manifest[m].status = "Received"
  /\ \A b \in Batteries : manifest[m].item[b] \notin {"pending", "missing"}
  /\ manifest' = [manifest EXCEPT ![m].status = "Processed"]
  /\ UNCHANGED <<repair, tables, stockVars>>

\* assign_battery_to_shelf: within one warehouse, under both row locks.
AssignToShelf(b, s) ==
  LET to == [x \in {b} |-> [status |-> battery[b].status, loc |-> s]] IN
  /\ battery[b].status \in {"available", "ready", "maintenance"}
  /\ \/ battery[b].loc = WarehouseOf[s]
     \/ battery[b].loc \in Shelves \ {s} /\ WarehouseOf[battery[b].loc] = WarehouseOf[s]
  /\ CanMove(to, {})
  /\ Move(to)
  /\ UNCHANGED <<warehouseVars, tables, torn>>

\* auto_generate_schedules (every battery found due) and record_maintenance
\* (one battery) up to the last check: no row is locked, and one battery
\* that fails a check fails the whole sweep.
BeginRepair(S, to) ==
  /\ repair = None /\ S # {}
  /\ \A b \in S : /\ battery[b].status \notin {"absent", "retired"}
                  /\ to = "maintenance" => battery[b].status # "maintenance"
                  /\ ~InActiveOrder(b, {})
  /\ to = "ready" => Cardinality(S) = 1
  /\ repair' = [to |-> to, seen |-> [b \in S |-> battery[b]]]
  /\ UNCHANGED <<manifest, tables, stockVars>>

\* The flush and commit: the status column only, the location was not changed.
CommitRepair ==
  LET S == DOMAIN repair.seen IN
  /\ repair # None
  /\ battery' = [b \in Batteries |->
                   IF b \in S /\ repair.seen[b].status # repair.to
                   THEN [battery[b] EXCEPT !.status = repair.to] ELSE battery[b]]
  /\ torn' = torn \cup {b \in S : battery[b] # repair.seen[b] \/ InActiveOrder(b, {})}
  /\ repair' = None
  /\ UNCHANGED <<manifest, tables, shelfOf>>

\* InventoryService.confirm_receipt: the battery is set down at the transfer's
\* destination whatever it was doing; orders and shelf rows are not consulted.
ConfirmReceipt(b, place) ==
  /\ battery[b].status # "absent"
  /\ battery' = [battery EXCEPT ![b] = [status |-> "available", loc |-> place]]
  /\ torn' = torn \cup (IF InActiveOrder(b, {}) \/ shelfOf[b] # None THEN {b} ELSE {})
  /\ UNCHANGED <<warehouseVars, tables, shelfOf>>

\* BatteryService.update_status behind PUT /batteries/{id}/status and DELETE.
UpdateStatus(b, st) ==
  /\ battery[b].status # "absent"
  /\ battery' = [battery EXCEPT ![b].status = st]
  /\ torn' = torn \cup (IF InActiveOrder(b, {}) THEN {b} ELSE {})
  /\ UNCHANGED <<warehouseVars, tables, shelfOf>>

WarehouseInit ==
  /\ manifest = [m \in Manifests |-> NoManifest]
  /\ repair = None

ItemUpdates == UNION {[S -> ItemStatuses] : S \in SUBSET Batteries}

WarehouseNext ==
  \/ \E m \in Manifests :
       \/ \E upd \in ItemUpdates : CreateManifest(m, DOMAIN upd, upd)
       \/ \E upd \in ItemUpdates, w \in Warehouses : ReceiveManifest(m, w, upd)
       \/ ProcessManifest(m)
  \/ \E b \in Batteries, s \in Shelves : AssignToShelf(b, s)
  \/ \E S \in SUBSET Serviced, to \in {"maintenance", "ready"} : BeginRepair(S, to)
  \/ CommitRepair
  \/ \E b \in Serviced, place \in Warehouses \cup Stations : ConfirmReceipt(b, place)
  \/ \E b \in Serviced, st \in {"available", "maintenance", "retired"} : UpdateStatus(b, st)
=============================================================================
