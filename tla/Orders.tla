------------------------------- MODULE Orders -------------------------------
(***************************************************************************)
(* Logistics orders (src/app/api/v1/orders.py): creation, status updates,  *)
(* proof of delivery, driver assignment and returns.                       *)
(*                                                                         *)
(* A handler reads the order row WITHOUT a lock, validates it, and writes  *)
(* later; it locks the battery rows (or, in assign_driver, the driver row) *)
(* before it writes.  A request is therefore up to three steps: Begin* (the*)
(* unlocked reads), CheckDriver (the unlocked driver check of a dispatch   *)
(* or of a retry) and Commit* (locks, checks under the locks, writes and   *)
(* commit), and other requests run in between.  The ORM writes only the    *)
(* columns a handler assigned, so a commit keeps what others wrote to the  *)
(* rest of the row.  CreateOrder locks all it depends on and is one step.  *)
(***************************************************************************)
EXTENDS BatteryStock

CONSTANTS Drivers, Clerks

\* An order without a driver has NULL in assigned_driver_id, which is no driver's id.
ASSUME DriverAssumption == None \notin Drivers

VARIABLES
  source,   \* "dispatched" lifecycle events: where an order last took a battery from
  driver,   \* DriverProfile.status
  req,      \* the request each clerk has in flight
  stale     \* ghost: some commit acted on a copy that was no longer current

orderVars == <<order, items, source, driver, req, stale>>
stateOfOrders == <<order, items, source, driver>>

Statuses == Active \cup {"absent", "delivered", "failed", "cancelled"}
OrderRows == [status : Statuses, kind : {"delivery", "return"},
              driver : Drivers \cup {None}, of : Orders \cup {None},
              dispatched : BOOLEAN]
Targets == {"in_transit", "delivered", "failed", "cancelled", "pending"}
Requests == [op : {"status", "pod", "assign", "return"}, o : Orders, arg : Targets \cup Drivers \cup Orders,
             snap : OrderRows, seen : {"available", "busy", None}, pc : {"driver", "commit"}]
Idle == [op |-> "idle"]

NoOrder == [status |-> "absent", kind |-> "delivery", driver |-> None,
            of |-> None, dispatched |-> FALSE]

Canonical(st) == IF st = "assigned" THEN "pending" ELSE st
Terminal == {"delivered", "failed", "cancelled"}

\* VALID_TRANSITIONS, over canonical statuses.
Allowed(st, new) ==
  CASE Canonical(st) = "pending"    -> new \in {"in_transit", "cancelled"}
    [] Canonical(st) = "in_transit" -> new \in {"delivered", "failed", "cancelled"}
    [] Canonical(st) = "failed"     -> new = "pending"
    [] OTHER -> FALSE

\* The driver's other active orders (ACTIVE_DRIVER_ORDER_STATUSES_DB).
OtherActive(d, o) ==
  {c \in Orders \ {o} : order[c].driver = d /\ order[c].status \in Active}

\* _release_driver_if_idle that forgets to release.
ReleaseIfIdleNever(dt, d, o) == dt

\* _release_driver_if_idle, as the new value of the driver table dt.
ReleaseIfIdle(dt, d, o) ==
  IF d # None /\ OtherActive(d, o) = {} THEN [dt EXCEPT ![d] = "available"] ELSE dt

SetDriver(dt, d, st) == IF d = None THEN dt ELSE [dt EXCEPT ![d] = st]

\* _resolve_release_location_for_order: the recorded dispatch source, else
\* where the battery stands, else the only active warehouse.
ReleaseLoc(b, o) ==
  IF source[o][b] # None THEN source[o][b]
  ELSE IF battery[b].loc # "transit" THEN battery[b].loc
  ELSE CHOOSE w \in Warehouses : TRUE

CanRelease(b, o) ==
  source[o][b] # None \/ battery[b].loc # "transit" \/ Cardinality(Warehouses) = 1

\* _resolve_return_delivery_warehouse_id: warehouse of this order's dispatch
\* source, of the original order's, of where the battery stands, or any.  A
\* station resolves, through its transfer history, to some warehouse.
WarehouseAt(l) ==
  CASE l \in Warehouses -> {l}
    [] l \in Shelves -> {WarehouseOf[l]}
    [] l \in Stations -> Warehouses
    [] OTHER -> {}
ReturnWarehouses(b, o) ==
  LET own  == WarehouseAt(source[o][b])
      orig == IF order[o].of = None THEN {} ELSE WarehouseAt(source[order[o].of][b])
      here == WarehouseAt(battery[b].loc)
  IN  IF own # {} THEN own ELSE IF orig # {} THEN orig
      ELSE IF here # {} THEN here ELSE Warehouses

\* Batteries of a failed order, or of a new one, that can be set aside.
Reservable(b) ==
  /\ battery[b].status \in {"available", "ready"}
  /\ battery[b].loc \in Places
  /\ battery[b].loc \in Shelves => shelfOf[b] = battery[b].loc

Reserved(S) == [b \in S |-> [status |-> "reserved", loc |-> battery[b].loc]]

-----------------------------------------------------------------------------
\* create_order: the driver and the batteries are locked before they are
\* checked; order, OrderBattery rows and outbox event commit together.
CreateOrder(o, S, d) ==
  /\ order[o].status = "absent" /\ S # {}
  /\ d # None => driver[d] = "available" /\ OtherActive(d, o) = {}
  /\ \A b \in S : Reservable(b)
  /\ CanMove(Reserved(S), {})
  /\ Move(Reserved(S))
  /\ order' = [order EXCEPT ![o] = [NoOrder EXCEPT
                 !.status = IF d = None THEN "pending" ELSE "assigned", !.driver = d]]
  /\ items' = [items EXCEPT ![o] = S]
  /\ driver' = SetDriver(driver, d, "busy")
  /\ UNCHANGED <<source, req, stale, torn>>

Begin(p, r) ==
  /\ req[p] = Idle
  /\ req' = [req EXCEPT ![p] = r]
  /\ UNCHANGED <<stateOfOrders, stale, stockVars>>

\* update_order_status up to its first write: the unlocked read and
\* _validate_status_transition.  mark_in_transit and mark_failed are this
\* handler with a fixed status.
BeginStatus(p, o, new) ==
  LET needsDriver == new = "in_transit" \/ (new = "pending" /\ order[o].driver # None) IN
  /\ order[o].status # "absent" /\ Allowed(order[o].status, new)
  /\ new = "in_transit" => order[o].driver # None
  /\ Begin(p, [op |-> "status", o |-> o, arg |-> new, snap |-> order[o], seen |-> None,
               pc |-> IF needsDriver THEN "driver" ELSE "commit"])

\* _assert_driver_available_for_order(allow_busy=True), without a lock.
CheckDriver(p) ==
  /\ req[p] # Idle /\ req[p].pc = "driver"
  /\ OtherActive(req[p].snap.driver, req[p].o) = {}
  /\ req' = [req EXCEPT ![p].pc = "commit"]
  /\ UNCHANGED <<stateOfOrders, stale, stockVars>>

\* submit_proof_of_delivery up to its first write.
BeginPod(p, o) ==
  /\ \/ order[o].status = "in_transit"
     \/ order[o].status = "assigned" /\ order[o].driver # None
     \/ order[o].status = "pending" /\ order[o].driver # None /\ order[o].dispatched
  /\ Begin(p, [op |-> "pod", o |-> o, arg |-> "delivered", snap |-> order[o], seen |-> None, pc |-> "commit"])

\* assign_driver up to the driver lock: the order and the driver row as read.
BeginAssign(p, o, d) ==
  /\ order[o].status \notin Terminal \cup {"absent"}
  /\ Begin(p, [op |-> "assign", o |-> o, arg |-> d, snap |-> order[o], seen |-> driver[d], pc |-> "commit"])

\* initiate_return up to its insert: original delivered, no open return of it.
OpenReturns(o) ==
  {r \in Orders : order[r].kind = "return" /\ order[r].of = o /\ order[r].status \in Active}
BeginReturn(p, r, o) ==
  /\ order[r].status = "absent" /\ order[o].status = "delivered" /\ OpenReturns(o) = {}
  /\ Begin(p, [op |-> "return", o |-> r, arg |-> o, snap |-> order[o], seen |-> None, pc |-> "commit"])

\* _sync_batteries_for_order_status that leaves the batteries of a dispatch
\* (a failure, a retry) as they are.
SyncTargetSkipping(o, skipped, new, W) ==
  [b \in items[o] |->
     CASE new = skipped -> battery[b]
       [] new = "in_transit" -> [status |-> "deployed", loc |-> "transit"]
       [] new = "delivered" /\ order[o].kind = "return" -> [status |-> "available", loc |-> W[b]]
       [] new = "delivered" -> [status |-> "deployed", loc |-> "customer"]
       [] new = "pending" -> [status |-> "reserved", loc |-> battery[b].loc]
       [] OTHER -> [status |-> "available", loc |-> ReleaseLoc(b, o)]]
SyncTargetNoDispatch(o, new, W) == SyncTargetSkipping(o, "in_transit", new, W)
SyncTargetNoFailure(o, new, W) == SyncTargetSkipping(o, "failed", new, W)
SyncTargetNoRetry(o, new, W) == SyncTargetSkipping(o, "pending", new, W)

\* _sync_batteries_for_order_status: what the new status does to the order's
\* batteries, as the function CanMove and Move take.  W picks a warehouse for
\* each returned battery.
SyncTarget(o, new, W) ==
  [b \in items[o] |->
     CASE new = "in_transit" -> [status |-> "deployed", loc |-> "transit"]
       [] new = "delivered" /\ order[o].kind = "return" -> [status |-> "available", loc |-> W[b]]
       [] new = "delivered" -> [status |-> "deployed", loc |-> "customer"]
       [] new = "pending" -> [status |-> "reserved", loc |-> battery[b].loc]
       [] OTHER -> [status |-> "available", loc |-> ReleaseLoc(b, o)]]

\* The checks of the branch for the new status, under the battery locks.
SyncAllowed(o, new) ==
  \A b \in items[o] :
    /\ battery[b].status # "absent"
    /\ new = "in_transit" => /\ battery[b].loc \in Places \cup {"customer"}
                             /\ battery[b].loc \in Shelves => shelfOf[b] = battery[b].loc
    /\ new = "pending" => Reservable(b)
    /\ new \in {"failed", "cancelled"} => CanRelease(b, o)

\* update_order_status and submit_proof_of_delivery from the first write to
\* the commit: status and dispatch date, batteries, driver.
CommitStatus(p) ==
  LET r == req[p]  o == r.o  new == r.arg  d == r.snap.driver IN
  /\ r # Idle /\ r.op \in {"status", "pod"} /\ r.pc = "commit"
  /\ SyncAllowed(o, new)
  /\ \E W \in [items[o] -> Warehouses] :
       /\ \A b \in items[o] : new = "delivered" /\ order[o].kind = "return" => W[b] \in ReturnWarehouses(b, o)
       /\ CanMove(SyncTarget(o, new, W), {o})
       /\ Move(SyncTarget(o, new, W))
  /\ order' = [order EXCEPT ![o].status = new,
                            ![o].dispatched = @ \/ new = "in_transit" \/ r.op = "pod"]
  /\ source' = IF new = "in_transit"
               THEN [source EXCEPT ![o] = [b \in Batteries |->
                       IF b \in items[o] THEN battery[b].loc ELSE source[o][b]]]
               ELSE source
  /\ driver' = CASE new \in {"in_transit", "pending"} -> SetDriver(driver, d, "busy")
                 [] OTHER -> ReleaseIfIdle(driver, d, o)
  /\ stale' = (stale \/ order[o] # r.snap
                     \/ (new \in {"in_transit", "pending"} /\ d # None /\ OtherActive(d, o) # {}))
  /\ req' = [req EXCEPT ![p] = Idle]
  /\ UNCHANGED <<items, torn>>

\* _mark_order_assigned_if_pending, on the copy the handler read.
MarkAssigned(r) == IF r.snap.status = "pending" THEN "assigned" ELSE order[r.o].status

\* assign_driver to the driver the order already has.
CommitAssignSame(p) ==
  LET r == req[p] IN
  /\ r # Idle /\ r.op = "assign" /\ r.snap.driver = r.arg
  /\ order' = [order EXCEPT ![r.o].status = MarkAssigned(r)]
  /\ stale' = (stale \/ order[r.o] # r.snap)
  /\ req' = [req EXCEPT ![p] = Idle]
  /\ UNCHANGED <<items, source, driver, stockVars>>

\* assign_driver from the driver lock to the commit.  A pending order that
\* holds the driver gives it up to another pending order; the final guard
\* refuses while any other active order holds it.  The look-up of that order
\* locks nothing, but the driver's row is locked before it: a handler that
\* dispatches, ends or hands on an order of the driver writes the driver's row
\* too (_set_driver_status), so it commits before the look-up or after this.
CommitAssign(p) ==
  LET r == req[p]  o == r.o  d == r.arg  prev == r.snap.driver
      held == OtherActive(d, o)
      freed == {c \in held : Canonical(r.snap.status) = "pending" /\ Canonical(order[c].status) = "pending"}
  IN
  /\ r # Idle /\ r.op = "assign" /\ prev # d
  /\ r.seen = "available"
  /\ held = freed /\ Cardinality(held) <= 1
  /\ order' = [c \in Orders |->
                 CASE c = o -> [order[o] EXCEPT !.driver = d, !.status = MarkAssigned(r)]
                   [] c \in held -> [order[c] EXCEPT !.driver = None, !.status = Canonical(@)]
                   [] OTHER -> order[c]]
  /\ driver' = ReleaseIfIdle([driver EXCEPT ![d] = "busy"], prev, o)
  /\ stale' = (stale \/ order[o] # r.snap \/ driver[d] # r.seen)
  /\ req' = [req EXCEPT ![p] = Idle]
  /\ UNCHANGED <<items, source, stockVars>>

\* initiate_return: the insert.  The batteries are neither locked nor checked.
CommitReturn(p) ==
  LET r == req[p] IN
  /\ r # Idle /\ r.op = "return"
  /\ order[r.o].status = "absent"
  /\ order' = [order EXCEPT ![r.o] = [NoOrder EXCEPT
                 !.status = "pending", !.kind = "return", !.of = r.arg]]
  /\ items' = [items EXCEPT ![r.o] = items[r.arg]]
  /\ stale' = (stale \/ order[r.arg] # r.snap \/ OpenReturns(r.arg) # {})
  /\ req' = [req EXCEPT ![p] = Idle]
  /\ UNCHANGED <<source, driver, stockVars>>

\* A check under the locks fails, or the client is gone: rollback.
Abandon(p) ==
  /\ req[p] # Idle
  /\ req' = [req EXCEPT ![p] = Idle]
  /\ UNCHANGED <<stateOfOrders, stale, stockVars>>

OrdersInit ==
  /\ order = [o \in Orders |-> NoOrder]
  /\ items = [o \in Orders |-> {}]
  /\ source = [o \in Orders |-> [b \in Batteries |-> None]]
  /\ driver = [d \in Drivers |-> "available"]
  /\ req = [p \in Clerks |-> Idle]
  /\ stale = FALSE

OrdersNext ==
  \/ \E o \in Orders, S \in SUBSET Batteries, d \in Drivers \cup {None} : CreateOrder(o, S, d)
  \/ \E p \in Clerks :
       \/ \E o \in Orders, new \in Targets : BeginStatus(p, o, new)
       \/ \E o \in Orders : BeginPod(p, o)
       \/ \E o \in Orders, d \in Drivers : BeginAssign(p, o, d)
       \/ \E r, o \in Orders : BeginReturn(p, r, o)
       \/ CheckDriver(p) \/ CommitStatus(p) \/ CommitAssignSame(p) \/ CommitAssign(p)
       \/ CommitReturn(p) \/ Abandon(p)
=============================================================================
