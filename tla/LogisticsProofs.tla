-------------------------- MODULE LogisticsProofs --------------------------
(***************************************************************************)
(* Proofs about Logistics, for any number of orders, batteries, drivers,   *)
(* clerks, shelves and manifests.                                          *)
(***************************************************************************)
EXTENDS Logistics, FiniteSetTheorems, TLAPS

BatteryRows == [status : BatteryStatuses, loc : Locations]

\* The argument of a request fits its operation.
ArgFits(r) ==
  /\ r.op \in {"status", "pod"} => r.arg \in Targets
  /\ r.op = "assign" => r.arg \in Drivers
  /\ r.op = "return" => r.arg \in Orders

ArgsFit == \A p \in Clerks : req[p] # Idle => ArgFits(req[p])

Typed == TypeOK /\ ArgsFit

-----------------------------------------------------------------------------
(* Places and moves.                                                       *)

LEMMA PlaceFacts ==
  /\ Warehouses \subseteq Places /\ Stations \subseteq Places /\ Shelves \subseteq Places
  /\ Places \subseteq Locations /\ "transit" \in Locations /\ "customer" \in Locations
  /\ "transit" \notin Places /\ None \notin Shelves /\ "transit" # None
  /\ (Warehouses \cup Stations) \cap Shelves = {}
  /\ "customer" \notin Shelves /\ "transit" \notin Shelves
BY StockAssumption DEF Places, Locations

LEMMA OnlyWarehouse == Cardinality(Warehouses) = 1 => (CHOOSE w \in Warehouses : TRUE) \in Warehouses
<1> SUFFICES ASSUME Cardinality(Warehouses) = 1 PROVE \E w \in Warehouses : TRUE
  OBVIOUS
<1>1. Warehouses # {}
  BY FS_EmptySet
<1> QED  BY <1>1

\* apply_battery_transition writes the batteries it was given and their shelf
\* rows, and nothing else.
LEMMA MoveWrites ==
  ASSUME StockTypeOK, NEW to, DOMAIN to \subseteq Batteries, \A b \in DOMAIN to : to[b] \in BatteryRows, Move(to)
  PROVE  /\ battery' \in [Batteries -> BatteryRows]
         /\ shelfOf' \in [Batteries -> Shelves \cup {None}]
         /\ \A b \in DOMAIN to : battery'[b] = to[b]
         /\ \A b \in Batteries \ DOMAIN to : battery'[b] = battery[b] /\ shelfOf'[b] = shelfOf[b]
         /\ \A b \in DOMAIN to : shelfOf'[b] = IF battery'[b].loc \in Shelves THEN battery'[b].loc ELSE None
<1>1. battery \in [Batteries -> BatteryRows] /\ shelfOf \in [Batteries -> Shelves \cup {None}]
  BY DEF StockTypeOK, BatteryRows
<1>2. /\ \A b \in DOMAIN to : battery'[b] = to[b]
      /\ \A b \in Batteries \ DOMAIN to : battery'[b] = battery[b] /\ shelfOf'[b] = shelfOf[b]
      /\ \A b \in DOMAIN to : shelfOf'[b] = IF to[b].loc \in Shelves THEN to[b].loc ELSE None
  BY DEF Move
<1>3. battery' \in [Batteries -> BatteryRows]
  BY <1>1 DEF Move
<1>4. shelfOf' \in [Batteries -> Shelves \cup {None}]
  BY <1>1 DEF Move
<1> QED  BY <1>2, <1>3, <1>4

LEMMA ReservedRows ==
  ASSUME StockTypeOK, NEW S \in SUBSET Batteries
  PROVE  /\ DOMAIN Reserved(S) = S /\ \A b \in S : Reserved(S)[b] \in BatteryRows /\ Reserved(S)[b].loc = battery[b].loc
BY DEF StockTypeOK, Reserved, BatteryRows, BatteryStatuses

\* What a status change does to the batteries of its order.
LEMMA SyncRows ==
  ASSUME TypeOK, NEW o \in Orders, NEW new \in Targets, NEW W \in [items[o] -> Warehouses], SyncAllowed(o, new)
  PROVE  /\ DOMAIN SyncTarget(o, new, W) = items[o]
         /\ \A b \in items[o] : SyncTarget(o, new, W)[b] \in BatteryRows
         /\ new = "in_transit" => \A b \in items[o] : SyncTarget(o, new, W)[b] = [status |-> "deployed", loc |-> "transit"]
         /\ new # "in_transit" => \A b \in items[o] : SyncTarget(o, new, W)[b].loc # "transit"
         /\ new = "pending" => \A b \in items[o] : SyncTarget(o, new, W)[b].status = "reserved" /\ SyncTarget(o, new, W)[b].loc \in Places
<1>1. DOMAIN SyncTarget(o, new, W) = items[o]
  BY DEF SyncTarget
<1>2. ASSUME NEW b \in items[o]
      PROVE  /\ SyncTarget(o, new, W)[b] \in BatteryRows
             /\ new = "in_transit" => SyncTarget(o, new, W)[b] = [status |-> "deployed", loc |-> "transit"]
             /\ new # "in_transit" => SyncTarget(o, new, W)[b].loc # "transit"
             /\ new = "pending" => SyncTarget(o, new, W)[b].status = "reserved" /\ SyncTarget(o, new, W)[b].loc \in Places
  <2>1. b \in Batteries /\ battery[b] \in BatteryRows /\ source[o][b] \in Places \cup {"customer", None} /\ W[b] \in Warehouses
    BY <1>2 DEF TypeOK, StockTypeOK, BatteryRows
  <2>2. CASE new = "in_transit"
    <3>1. SyncTarget(o, new, W)[b] = [status |-> "deployed", loc |-> "transit"]
      BY <1>2, <2>2 DEF SyncTarget
    <3> QED  BY <2>2, <3>1, PlaceFacts DEF BatteryRows, BatteryStatuses
  <2>3. CASE new = "delivered"
    <3>1. \/ SyncTarget(o, new, W)[b] = [status |-> "available", loc |-> W[b]]
          \/ SyncTarget(o, new, W)[b] = [status |-> "deployed", loc |-> "customer"]
      BY <1>2, <2>3 DEF SyncTarget
    <3>2. "customer" # "transit"
      OBVIOUS
    <3> QED  BY <2>1, <2>3, <3>1, <3>2, PlaceFacts DEF BatteryRows, BatteryStatuses
  <2>4. CASE new = "pending"
    <3>1. SyncTarget(o, new, W)[b] = [status |-> "reserved", loc |-> battery[b].loc]
      BY <1>2, <2>4 DEF SyncTarget
    <3>2. battery[b].loc \in Places
      BY <1>2, <2>4 DEF SyncAllowed, Reservable
    <3> QED  BY <2>4, <3>1, <3>2, PlaceFacts DEF BatteryRows, BatteryStatuses
  <2>5. CASE new \in {"failed", "cancelled"}
    <3>1. SyncTarget(o, new, W)[b] = [status |-> "available", loc |-> ReleaseLoc(b, o)]
      BY <1>2, <2>5 DEF SyncTarget
    <3>2. ReleaseLoc(b, o) \in Locations /\ ReleaseLoc(b, o) # "transit"
      <4>1. CanRelease(b, o)
        BY <1>2, <2>5 DEF SyncAllowed
      <4>2. CASE source[o][b] # None
        BY <2>1, <4>2, PlaceFacts DEF ReleaseLoc
      <4>3. CASE source[o][b] = None /\ battery[b].loc # "transit"
        BY <2>1, <4>3 DEF ReleaseLoc, BatteryRows
      <4>4. CASE source[o][b] = None /\ battery[b].loc = "transit"
        BY <4>1, <4>4, OnlyWarehouse, PlaceFacts DEF ReleaseLoc, CanRelease
      <4> QED  BY <4>2, <4>3, <4>4
    <3> QED  BY <2>5, <3>1, <3>2 DEF BatteryRows, BatteryStatuses
  <2> QED  BY <2>2, <2>3, <2>4, <2>5 DEF Targets
<1> QED  BY <1>1, <1>2

-----------------------------------------------------------------------------
(* Types.                                                                  *)

LEMMA TypedInit == Init => Typed
<1> SUFFICES ASSUME Init PROVE Typed
  OBVIOUS
<1>1. StockTypeOK
  BY PlaceFacts DEF Init, StockTypeOK, BatteryStatuses
<1>2. NoOrder \in OrderRows
  BY DEF NoOrder, OrderRows, Statuses
<1>3. /\ order \in [Orders -> OrderRows] /\ items \in [Orders -> SUBSET Batteries]
      /\ source \in [Orders -> [Batteries -> Places \cup {"customer", None}]]
      /\ driver \in [Drivers -> {"available", "busy"}] /\ req \in [Clerks -> Requests \cup {Idle}] /\ stale \in BOOLEAN
  BY <1>2 DEF Init, OrdersInit
<1>4. manifest \in [Manifests -> [status : ManifestStatuses, item : [Batteries -> ItemStatuses \cup {None}]]] /\ repair \in Repairs \cup {None}
  BY DEF Init, WarehouseInit, NoManifest, ManifestStatuses
<1>5. ArgsFit
  BY DEF Init, OrdersInit, ArgsFit
<1> QED  BY <1>1, <1>3, <1>4, <1>5 DEF Typed, TypeOK

\* The driver table after a release or an assignment.
LEMMA DriverTable ==
  ASSUME NEW dt \in [Drivers -> {"available", "busy"}], NEW d \in Drivers \cup {None}, NEW o
  PROVE  /\ ReleaseIfIdle(dt, d, o) \in [Drivers -> {"available", "busy"}]
         /\ SetDriver(dt, d, "busy") \in [Drivers -> {"available", "busy"}]
BY DEF ReleaseIfIdle, SetDriver

\* A request in flight.
LEMMA RequestFacts ==
  ASSUME Typed, NEW p \in Clerks, req[p] # Idle
  PROVE  /\ req[p] \in Requests /\ req[p].o \in Orders /\ req[p].snap \in OrderRows
         /\ req[p].snap.driver \in Drivers \cup {None} /\ ArgFits(req[p])
BY DEF Typed, TypeOK, ArgsFit, Requests, OrderRows

\* Finishing a request, and beginning one that fits.
LEMMA RequestStep ==
  ASSUME Typed, NEW p \in Clerks
  PROVE  /\ req' = [req EXCEPT ![p] = Idle] => req' \in [Clerks -> Requests \cup {Idle}] /\ ArgsFit'
         /\ \A r \in Requests : ArgFits(r) /\ req' = [req EXCEPT ![p] = r]
              => req' \in [Clerks -> Requests \cup {Idle}] /\ ArgsFit'
         /\ req' = req => ArgsFit'
<1>1. req \in [Clerks -> Requests \cup {Idle}] /\ \A c \in Clerks : req[c] # Idle => ArgFits(req[c])
  BY DEF Typed, TypeOK, ArgsFit
<1>2. ASSUME NEW r \in Requests \cup {Idle}, req' = [req EXCEPT ![p] = r], r # Idle => ArgFits(r)
      PROVE  req' \in [Clerks -> Requests \cup {Idle}] /\ ArgsFit'
  <2>1. \A c \in Clerks : req'[c] = IF c = p THEN r ELSE req[c]
    BY <1>1, <1>2
  <2>2. ASSUME NEW c \in Clerks, req'[c] # Idle PROVE ArgFits(req[c])'
    BY <1>1, <1>2, <2>1, <2>2 DEF ArgFits
  <2> QED  BY <1>1, <1>2, <2>2 DEF ArgsFit
<1>3. ASSUME req' = req PROVE ArgsFit'
  BY <1>1, <1>3 DEF ArgsFit, ArgFits
<1> QED  BY <1>2, <1>3

LEMMA CreateTyped ==
  ASSUME Typed, NEW o \in Orders, NEW S \in SUBSET Batteries, NEW d \in Drivers \cup {None}, CreateOrder(o, S, d),
         UNCHANGED warehouseVars
  PROVE  Typed'
<1>1. StockTypeOK
  BY DEF Typed, TypeOK
<1>2. StockTypeOK'
  <2>1. battery' \in [Batteries -> BatteryRows] /\ shelfOf' \in [Batteries -> Shelves \cup {None}]
    BY <1>1, ReservedRows, MoveWrites DEF CreateOrder
  <2> QED  BY <1>1, <2>1 DEF StockTypeOK, CreateOrder, BatteryRows
<1>3. [NoOrder EXCEPT !.status = IF d = None THEN "pending" ELSE "assigned", !.driver = d] \in OrderRows
  BY DEF NoOrder, OrderRows, Statuses, Active
<1>4. order' \in [Orders -> OrderRows] /\ items' \in [Orders -> SUBSET Batteries]
  BY <1>3 DEF CreateOrder, Typed, TypeOK
<1>5. driver' \in [Drivers -> {"available", "busy"}]
  BY DriverTable DEF CreateOrder, Typed, TypeOK
<1>6. ArgsFit'
  BY DEF CreateOrder, Typed, ArgsFit, ArgFits
<1> QED  BY <1>2, <1>4, <1>5, <1>6 DEF CreateOrder, Typed, TypeOK, warehouseVars

LEMMA BeginTyped ==
  ASSUME Typed, NEW p \in Clerks, UNCHANGED warehouseVars,
         \/ \E o \in Orders, new \in Targets : BeginStatus(p, o, new)
         \/ \E o \in Orders : BeginPod(p, o)
         \/ \E o \in Orders, d \in Drivers : BeginAssign(p, o, d)
         \/ \E r, o \in Orders : BeginReturn(p, r, o)
         \/ CheckDriver(p) \/ Abandon(p)
  PROVE  Typed'
<1>1. ASSUME UNCHANGED <<stateOfOrders, stale, stockVars>>, req' \in [Clerks -> Requests \cup {Idle}], ArgsFit'
      PROVE  Typed'
  BY <1>1 DEF Typed, TypeOK, StockTypeOK, stateOfOrders, stockVars, warehouseVars
<1>2. ASSUME NEW r \in Requests, ArgFits(r), Begin(p, r) PROVE Typed'
  BY <1>1, <1>2, RequestStep DEF Begin
<1>3. order \in [Orders -> OrderRows] /\ driver \in [Drivers -> {"available", "busy"}]
  BY DEF Typed, TypeOK
<1>4. ASSUME NEW o \in Orders, NEW new \in Targets, BeginStatus(p, o, new) PROVE Typed'
  <2>1. PICK pc \in {"driver", "commit"} :
          Begin(p, [op |-> "status", o |-> o, arg |-> new, snap |-> order[o], seen |-> None, pc |-> pc])
    BY <1>4 DEF BeginStatus
  <2> QED  BY <1>2, <1>3, <2>1 DEF Requests, ArgFits
<1>5. ASSUME NEW o \in Orders, BeginPod(p, o) PROVE Typed'
  <2>1. "delivered" \in Targets
    BY DEF Targets
  <2> QED  BY <1>2, <1>3, <1>5, <2>1 DEF BeginPod, Requests, ArgFits
<1>6. ASSUME NEW o \in Orders, NEW d \in Drivers, BeginAssign(p, o, d) PROVE Typed'
  BY <1>2, <1>3, <1>6 DEF BeginAssign, Requests, ArgFits
<1>7. ASSUME NEW r \in Orders, NEW o \in Orders, BeginReturn(p, r, o) PROVE Typed'
  BY <1>2, <1>3, <1>7 DEF BeginReturn, Requests, ArgFits
<1>8. CASE CheckDriver(p)
  <2>1. req[p] \in Requests /\ ArgFits(req[p])
    BY <1>8, RequestFacts DEF CheckDriver
  <2>2. [req[p] EXCEPT !.pc = "commit"] \in Requests /\ ArgFits([req[p] EXCEPT !.pc = "commit"])
    BY <2>1 DEF Requests, ArgFits
  <2>3. req' = [req EXCEPT ![p] = [req[p] EXCEPT !.pc = "commit"]]
    BY <1>8 DEF CheckDriver
  <2> QED  BY <1>1, <1>8, <2>2, <2>3, RequestStep DEF CheckDriver
<1>9. CASE Abandon(p)
  BY <1>1, <1>9, RequestStep DEF Abandon
<1> QED  BY <1>4, <1>5, <1>6, <1>7, <1>8, <1>9

\* What committing a status change leaves behind.
StatusCommitted(o, new) ==
  /\ StockTypeOK' /\ torn' = torn /\ items' = items
  /\ order' \in [Orders -> OrderRows] /\ order'[o].status = new
  /\ \A c \in Orders \ {o} : order'[c] = order[c]
  /\ \A b \in items[o] : /\ ~InActiveOrder(b, {o})
                         /\ new = "in_transit" => battery'[b] = [status |-> "deployed", loc |-> "transit"]
                         /\ new # "in_transit" => battery'[b].loc # "transit"
                         /\ new = "pending" => battery'[b].status = "reserved" /\ battery'[b].loc \in Places
                         /\ shelfOf'[b] = IF battery'[b].loc \in Shelves THEN battery'[b].loc ELSE None
  /\ \A b \in Batteries \ items[o] : battery'[b] = battery[b] /\ shelfOf'[b] = shelfOf[b]

LEMMA StatusCommit ==
  ASSUME Typed, NEW p \in Clerks, CommitStatus(p)
  PROVE  req[p].o \in Orders /\ req[p].arg \in Targets /\ StatusCommitted(req[p].o, req[p].arg)
<1> DEFINE o == req[p].o
           new == req[p].arg
<1>1. req[p] # Idle
  BY DEF CommitStatus
<1>2. o \in Orders /\ new \in Targets /\ TypeOK
  BY <1>1, RequestFacts DEF CommitStatus, ArgFits, Typed
<1>3. PICK W \in [items[o] -> Warehouses] : CanMove(SyncTarget(o, new, W), {o}) /\ Move(SyncTarget(o, new, W))
  BY DEF CommitStatus
<1>4. SyncAllowed(o, new) /\ torn' = torn /\ items' = items
  BY DEF CommitStatus
<1>5. order' = [order EXCEPT ![o].status = new, ![o].dispatched = @ \/ new = "in_transit" \/ req[p].op = "pod"]
  BY DEF CommitStatus
<1> DEFINE to == SyncTarget(o, new, W)
<1> HIDE DEF o, new
<1>6. /\ DOMAIN to = items[o] /\ items[o] \subseteq Batteries /\ \A b \in items[o] : to[b] \in BatteryRows
      /\ new = "in_transit" => \A b \in items[o] : to[b] = [status |-> "deployed", loc |-> "transit"]
      /\ new # "in_transit" => \A b \in items[o] : to[b].loc # "transit"
      /\ new = "pending" => \A b \in items[o] : to[b].status = "reserved" /\ to[b].loc \in Places
  BY <1>2, <1>3, <1>4, SyncRows DEF TypeOK
<1>7. CanMove(to, {o}) /\ Move(to) /\ StockTypeOK
  BY <1>2, <1>3 DEF TypeOK
<1> HIDE DEF to
<1>8. /\ battery' \in [Batteries -> BatteryRows] /\ shelfOf' \in [Batteries -> Shelves \cup {None}]
      /\ \A b \in items[o] : battery'[b] = to[b]
      /\ \A b \in Batteries \ items[o] : battery'[b] = battery[b] /\ shelfOf'[b] = shelfOf[b]
      /\ \A b \in items[o] : shelfOf'[b] = IF battery'[b].loc \in Shelves THEN battery'[b].loc ELSE None
  BY <1>6, <1>7, MoveWrites
<1>9. \A b \in items[o] : ~InActiveOrder(b, {o})
  BY <1>6, <1>7 DEF CanMove
<1>10. StockTypeOK'
  BY <1>4, <1>7, <1>8 DEF StockTypeOK, BatteryRows
<1>11. new \in Statuses
  BY <1>2 DEF Targets, Statuses, Active
<1>12. order' \in [Orders -> OrderRows] /\ order'[o].status = new /\ \A c \in Orders \ {o} : order'[c] = order[c]
  <2>1. order \in [Orders -> OrderRows]
    BY <1>2 DEF TypeOK
  <2> QED  BY <1>2, <1>5, <1>11, <2>1 DEF OrderRows
<1>13. StatusCommitted(o, new)
  BY <1>4, <1>6, <1>8, <1>9, <1>10, <1>12 DEF StatusCommitted
<1> QED  BY <1>2, <1>13 DEF o, new

LEMMA StatusTyped ==
  ASSUME Typed, NEW p \in Clerks, CommitStatus(p), UNCHANGED warehouseVars
  PROVE  Typed'
<1> DEFINE o == req[p].o
           new == req[p].arg
<1>1. req[p] # Idle
  BY DEF CommitStatus
<1>2. o \in Orders /\ new \in Targets /\ StatusCommitted(o, new)
  BY StatusCommit
<1>3. source' \in [Orders -> [Batteries -> Places \cup {"customer", None}]]
  <2>1. source \in [Orders -> [Batteries -> Places \cup {"customer", None}]]
    BY DEF Typed, TypeOK
  <2>2. new = "in_transit" => \A b \in items[o] : battery[b].loc \in Places \cup {"customer"}
    BY DEF CommitStatus, SyncAllowed
  <2>3. source' = IF new = "in_transit"
                  THEN [source EXCEPT ![o] = [b \in Batteries |-> IF b \in items[o] THEN battery[b].loc ELSE source[o][b]]]
                  ELSE source
    BY DEF CommitStatus
  <2> HIDE DEF o, new
  <2> QED  BY <1>2, <2>1, <2>2, <2>3
<1>4. driver' \in [Drivers -> {"available", "busy"}]
  <2>1. driver \in [Drivers -> {"available", "busy"}] /\ req[p].snap.driver \in Drivers \cup {None}
    BY <1>1, RequestFacts DEF Typed, TypeOK
  <2>2. driver' = SetDriver(driver, req[p].snap.driver, "busy") \/ driver' = ReleaseIfIdle(driver, req[p].snap.driver, o)
    BY DEF CommitStatus
  <2> QED  BY <2>1, <2>2, DriverTable
<1>5. stale' \in BOOLEAN
  BY DEF CommitStatus
<1>6. req' \in [Clerks -> Requests \cup {Idle}] /\ ArgsFit'
  BY RequestStep DEF CommitStatus
<1> HIDE DEF o, new
<1> QED  BY <1>2, <1>3, <1>4, <1>5, <1>6 DEF StatusCommitted, Typed, TypeOK, warehouseVars

\* What an assignment does to the orders: it neither ends nor dispatches one.
LEMMA Assigned ==
  ASSUME Typed, NEW p \in Clerks, CommitAssignSame(p) \/ CommitAssign(p)
  PROVE  /\ order' \in [Orders -> OrderRows] /\ items' = items /\ UNCHANGED stockVars
         /\ \A c \in Orders : order[c].status \in Active => order'[c].status \in Active
         /\ \A c \in Orders : order'[c].status = "in_transit" => order[c].status = "in_transit"
<1> DEFINE r == req[p]
<1>1. r # Idle /\ r.op = "assign" /\ items' = items /\ UNCHANGED stockVars
  BY DEF CommitAssignSame, CommitAssign
<1>2. r.o \in Orders /\ r.arg \in Drivers /\ order \in [Orders -> OrderRows]
  BY <1>1, RequestFacts DEF ArgFits, Typed, TypeOK
<1>3. MarkAssigned(r) \in {"assigned", order[r.o].status}
  BY DEF MarkAssigned
<1>4. CASE CommitAssignSame(p)
  <2>1. order' = [order EXCEPT ![r.o].status = MarkAssigned(r)]
    BY <1>4 DEF CommitAssignSame
  <2>2. order' \in [Orders -> OrderRows]
    BY <1>2, <1>3, <2>1 DEF OrderRows, Statuses, Active
  <2>3. \A c \in Orders : order'[c].status \in {"assigned", order[c].status}
    <3>1. order'[r.o].status = MarkAssigned(r)
      BY <1>2, <2>1 DEF OrderRows
    <3>2. \A c \in Orders : c # r.o => order'[c] = order[c]
      BY <1>2, <2>1
    <3> QED  BY <1>3, <3>1, <3>2
  <2> QED  BY <1>1, <2>2, <2>3 DEF Active
<1>5. CASE CommitAssign(p)
  <2> DEFINE held == OtherActive(r.arg, r.o)
  <2>1. order' = [c \in Orders |->
                   CASE c = r.o -> [order[r.o] EXCEPT !.driver = r.arg, !.status = MarkAssigned(r)]
                     [] c \in held -> [order[c] EXCEPT !.driver = None, !.status = Canonical(@)]
                     [] OTHER -> order[c]]
    BY <1>5 DEF CommitAssign
  <2>2. \A c \in Orders : order[c] \in OrderRows /\ Canonical(order[c].status) \in {"pending", order[c].status}
    BY <1>2 DEF Canonical
  <2>3. r.o \notin held /\ \A c \in held : Canonical(order[c].status) = "pending"
    BY <1>5 DEF CommitAssign, OtherActive
  <2> HIDE DEF held, r
  <2>4. \A c \in Orders : order'[c] \in OrderRows /\ order'[c].status \in {"assigned", "pending", order[c].status}
    <3>1. [order[r.o] EXCEPT !.driver = r.arg, !.status = MarkAssigned(r)] \in OrderRows
      BY <1>2, <1>3 DEF OrderRows, Statuses, Active
    <3>2. \A c \in held : [order[c] EXCEPT !.driver = None, !.status = Canonical(@)] \in OrderRows \/ c \notin Orders
      BY <2>2, <2>3 DEF OrderRows, Statuses, Active
    <3>3. ASSUME NEW c \in Orders PROVE order'[c] \in OrderRows /\ order'[c].status \in {"assigned", "pending", order[c].status}
      <4>1. CASE c = r.o
        <5>1. order'[c] = [order[c] EXCEPT !.driver = r.arg, !.status = MarkAssigned(r)]
          BY <2>1, <2>3, <4>1
        <5>2. order'[c].status = MarkAssigned(r)
          BY <2>2, <5>1 DEF OrderRows
        <5> QED  BY <1>3, <3>1, <4>1, <5>1, <5>2
      <4>2. CASE c # r.o /\ c \in held
        BY <2>1, <2>2, <2>3, <3>2, <4>2 DEF OrderRows
      <4>3. CASE c # r.o /\ c \notin held
        BY <2>1, <2>2, <4>3
      <4> QED  BY <4>1, <4>2, <4>3
    <3> QED  BY <3>3
  <2>5. order' \in [Orders -> OrderRows]
    BY <2>1, <2>4
  <2> QED  BY <1>1, <2>4, <2>5 DEF Active
<1> QED  BY <1>4, <1>5

LEMMA AssignTyped ==
  ASSUME Typed, NEW p \in Clerks, CommitAssignSame(p) \/ CommitAssign(p), UNCHANGED warehouseVars
  PROVE  Typed'
<1>1. req[p] # Idle /\ req[p].op = "assign" /\ source' = source /\ req' = [req EXCEPT ![p] = Idle] /\ stale' \in BOOLEAN
  BY DEF CommitAssignSame, CommitAssign
<1>2. req[p].arg \in Drivers /\ req[p].snap.driver \in Drivers \cup {None}
  BY <1>1, RequestFacts DEF ArgFits
<1>3. driver' \in [Drivers -> {"available", "busy"}]
  <2>1. driver \in [Drivers -> {"available", "busy"}]
    BY DEF Typed, TypeOK
  <2>2. PICK dt \in [Drivers -> {"available", "busy"}] : dt = [driver EXCEPT ![req[p].arg] = "busy"]
    BY <1>2, <2>1
  <2>3. driver' = driver \/ driver' = ReleaseIfIdle(dt, req[p].snap.driver, req[p].o)
    BY <2>2 DEF CommitAssignSame, CommitAssign
  <2>4. ReleaseIfIdle(dt, req[p].snap.driver, req[p].o) \in [Drivers -> {"available", "busy"}]
    BY <1>2, DriverTable
  <2> QED  BY <2>1, <2>3, <2>4
<1>4. req' \in [Clerks -> Requests \cup {Idle}] /\ ArgsFit'
  BY <1>1, RequestStep
<1> QED  BY <1>1, <1>3, <1>4, Assigned DEF Typed, TypeOK, StockTypeOK, stockVars, warehouseVars

LEMMA ReturnTyped ==
  ASSUME Typed, NEW p \in Clerks, CommitReturn(p), UNCHANGED warehouseVars
  PROVE  Typed' /\ \E r \in Orders : /\ order[r].status = "absent" /\ order'[r].status = "pending"
                                     /\ \A c \in Orders \ {r} : order'[c] = order[c] /\ items'[c] = items[c]
<1> DEFINE r == req[p].o
           of == req[p].arg
<1>1. req[p] # Idle /\ req[p].op = "return" /\ order[r].status = "absent"
  BY DEF CommitReturn
<1>2. r \in Orders /\ of \in Orders
  BY <1>1, RequestFacts DEF ArgFits
<1>3. PICK new : /\ new = [NoOrder EXCEPT !.status = "pending", !.kind = "return", !.of = of]
                 /\ order' = [order EXCEPT ![r] = new]
  BY DEF CommitReturn
<1>4. /\ items' = [items EXCEPT ![r] = items[of]] /\ stale' \in BOOLEAN
      /\ req' = [req EXCEPT ![p] = Idle] /\ UNCHANGED <<source, driver, stockVars>>
  BY DEF CommitReturn
<1> HIDE DEF r, of
<1>5. new \in OrderRows /\ new.status = "pending"
  BY <1>2, <1>3 DEF NoOrder, OrderRows, Statuses, Active
<1>6. order' \in [Orders -> OrderRows] /\ items' \in [Orders -> SUBSET Batteries]
  BY <1>2, <1>3, <1>4, <1>5 DEF Typed, TypeOK
<1>7. order'[r].status = "pending" /\ \A c \in Orders \ {r} : order'[c] = order[c] /\ items'[c] = items[c]
  BY <1>2, <1>3, <1>4, <1>5 DEF Typed, TypeOK
<1>8. Typed'
  BY <1>4, <1>6, RequestStep DEF Typed, TypeOK, StockTypeOK, stockVars, warehouseVars
<1> QED  BY <1>1, <1>2, <1>7, <1>8 DEF r

-----------------------------------------------------------------------------
(* The other writers of the battery table.                                 *)

\* A step that moves no battery of an active order, sends none on the road, and
\* keeps shelf rows and locations together, unless it marks the battery torn.
Guarded ==
  /\ torn \subseteq torn'
  /\ \A b \in Batteries \ torn' :
       /\ battery'[b] = battery[b] \/ ~InActiveOrder(b, {})
       /\ battery'[b].loc = "transit" => battery[b].loc = "transit"
       /\ \/ battery'[b].loc = battery[b].loc /\ shelfOf'[b] = shelfOf[b]
          \/ shelfOf'[b] = IF battery'[b].loc \in Shelves THEN battery'[b].loc ELSE None

\* A checked move to places off the road is guarded.
LEMMA MoveGuarded ==
  ASSUME StockTypeOK, NEW to, DOMAIN to \subseteq Batteries, \A b \in DOMAIN to : to[b] \in BatteryRows,
         \A b \in DOMAIN to : to[b].loc = "transit" => battery[b].loc = "transit",
         CanMove(to, {}), Move(to), torn' = torn
  PROVE  StockTypeOK' /\ Guarded
<1>1. /\ battery' \in [Batteries -> BatteryRows] /\ shelfOf' \in [Batteries -> Shelves \cup {None}]
      /\ \A b \in DOMAIN to : battery'[b] = to[b]
      /\ \A b \in Batteries \ DOMAIN to : battery'[b] = battery[b] /\ shelfOf'[b] = shelfOf[b]
      /\ \A b \in DOMAIN to : shelfOf'[b] = IF battery'[b].loc \in Shelves THEN battery'[b].loc ELSE None
  BY MoveWrites
<1>2. \A b \in DOMAIN to : ~InActiveOrder(b, {})
  BY DEF CanMove
<1>3. StockTypeOK'
  BY <1>1 DEF StockTypeOK, BatteryRows
<1> QED  BY <1>1, <1>2, <1>3 DEF Guarded

LEMMA StillGuarded == UNCHANGED stockVars => Guarded
BY DEF stockVars, Guarded

LEMMA CreateGuarded ==
  ASSUME Typed, NEW o \in Orders, NEW S \in SUBSET Batteries, NEW d \in Drivers \cup {None}, CreateOrder(o, S, d)
  PROVE  Guarded
<1>1. StockTypeOK /\ CanMove(Reserved(S), {}) /\ Move(Reserved(S)) /\ torn' = torn
  BY DEF Typed, TypeOK, CreateOrder
<1>2. DOMAIN Reserved(S) = S /\ \A b \in S : Reserved(S)[b] \in BatteryRows /\ Reserved(S)[b].loc = battery[b].loc
  BY <1>1, ReservedRows
<1> QED  BY <1>1, <1>2, MoveGuarded

\* Every step of the warehouse side is well typed, guarded, and leaves the
\* orders alone.
LEMMA WarehouseStep ==
  ASSUME Typed, WarehouseNext, UNCHANGED <<source, driver, req, stale>>
  PROVE  Typed' /\ Guarded /\ UNCHANGED <<order, items>>
<1>1. StockTypeOK /\ battery \in [Batteries -> BatteryRows] /\ shelfOf \in [Batteries -> Shelves \cup {None}] /\ torn \subseteq Batteries
  BY DEF Typed, TypeOK, StockTypeOK, BatteryRows
<1> DEFINE ManifestRows == [status : ManifestStatuses, item : [Batteries -> ItemStatuses \cup {None}]]
<1>2. manifest \in [Manifests -> ManifestRows] /\ repair \in Repairs \cup {None}
  BY DEF Typed, TypeOK
<1>3. ArgsFit'
  BY DEF Typed, ArgsFit, ArgFits
<1>4. ASSUME StockTypeOK', manifest' \in [Manifests -> ManifestRows], repair' \in Repairs \cup {None}, UNCHANGED <<order, items>>
      PROVE  Typed'
  BY <1>3, <1>4 DEF Typed, TypeOK
<1>5. ASSUME UNCHANGED stockVars PROVE StockTypeOK' /\ Guarded
  BY <1>1, <1>5, StillGuarded DEF StockTypeOK, stockVars
<1>6. ASSUME NEW m \in Manifests, NEW upd \in ItemUpdates, CreateManifest(m, DOMAIN upd, upd)
      PROVE  Typed' /\ Guarded /\ UNCHANGED <<order, items>>
  <2>1. PICK st \in {"In Transit", "In Progress"} :
          manifest' = [manifest EXCEPT ![m] = [status |-> st, item |-> [b \in Batteries |-> IF b \in DOMAIN upd THEN upd[b] ELSE None]]]
    BY <1>6 DEF CreateManifest
  <2>2. \A b \in DOMAIN upd : upd[b] \in ItemStatuses
    BY DEF ItemUpdates
  <2>3. [status |-> st, item |-> [b \in Batteries |-> IF b \in DOMAIN upd THEN upd[b] ELSE None]] \in ManifestRows
    BY <2>2 DEF ManifestStatuses
  <2>4. manifest' \in [Manifests -> ManifestRows]
    BY <1>2, <2>1, <2>3
  <2> QED  BY <1>2, <1>4, <1>5, <1>6, <2>4 DEF CreateManifest, tables
<1>7. ASSUME NEW m \in Manifests, NEW upd \in ItemUpdates, NEW w \in Warehouses, ReceiveManifest(m, w, upd)
      PROVE  Typed' /\ Guarded /\ UNCHANGED <<order, items>>
  <2> DEFINE here == {b \in DOMAIN upd : upd[b] \in {"scanned", "damaged", "extra"}}
             to == [b \in here |-> [status |-> IF upd[b] = "damaged" THEN "maintenance" ELSE "available", loc |-> w]]
             new == [b \in Batteries |-> IF b \in DOMAIN upd THEN upd[b] ELSE manifest[m].item[b]]
  <2>1. DOMAIN upd \subseteq Batteries /\ \A b \in DOMAIN upd : upd[b] \in ItemStatuses
    BY DEF ItemUpdates
  <2>2. CanMove(to, {}) /\ Move(to) /\ torn' = torn
    BY <1>7 DEF ReceiveManifest
  <2>3. DOMAIN to \subseteq Batteries /\ \A b \in DOMAIN to : to[b] \in BatteryRows /\ to[b].loc # "transit"
    BY <2>1, PlaceFacts DEF BatteryRows, BatteryStatuses
  <2>4. StockTypeOK' /\ Guarded
    <3> HIDE DEF to
    <3> QED  BY <1>1, <2>2, <2>3, MoveGuarded
  <2>5. manifest' = [manifest EXCEPT ![m] = [status |-> ComputeStatus(new), item |-> new]]
    BY <1>7 DEF ReceiveManifest
  <2>6. new \in [Batteries -> ItemStatuses \cup {None}]
    BY <1>2, <2>1
  <2>7. ComputeStatus(new) \in ManifestStatuses
    BY DEF ComputeStatus, ManifestStatuses
  <2>8. manifest' \in [Manifests -> ManifestRows]
    <3> HIDE DEF new
    <3> QED  BY <1>2, <2>5, <2>6, <2>7
  <2> QED  BY <1>2, <1>4, <1>7, <2>4, <2>8 DEF ReceiveManifest, tables
<1>8. ASSUME NEW m \in Manifests, ProcessManifest(m)
      PROVE  Typed' /\ Guarded /\ UNCHANGED <<order, items>>
  <2>1. manifest' \in [Manifests -> ManifestRows]
    BY <1>2, <1>8 DEF ProcessManifest, ManifestStatuses
  <2> QED  BY <1>2, <1>4, <1>5, <1>8, <2>1 DEF ProcessManifest, tables
<1>9. ASSUME NEW b \in Batteries, NEW s \in Shelves, AssignToShelf(b, s)
      PROVE  Typed' /\ Guarded /\ UNCHANGED <<order, items>>
  <2> DEFINE to == [x \in {b} |-> [status |-> battery[b].status, loc |-> s]]
  <2>1. CanMove(to, {}) /\ Move(to) /\ torn' = torn
    BY <1>9 DEF AssignToShelf
  <2>2. DOMAIN to \subseteq Batteries /\ \A x \in DOMAIN to : to[x] \in BatteryRows /\ to[x].loc # "transit"
    BY <1>1, PlaceFacts DEF BatteryRows
  <2>3. StockTypeOK' /\ Guarded
    <3> HIDE DEF to
    <3> QED  BY <1>1, <2>1, <2>2, MoveGuarded
  <2> QED  BY <1>2, <1>4, <1>9, <2>3 DEF AssignToShelf, tables, warehouseVars
<1>10. ASSUME NEW S \in SUBSET Serviced, NEW to \in {"maintenance", "ready"}, BeginRepair(S, to)
       PROVE  Typed' /\ Guarded /\ UNCHANGED <<order, items>>
  <2>1. [b \in S |-> battery[b]] \in UNION {[T -> BatteryRows] : T \in SUBSET Batteries}
    <3>1. S \in SUBSET Batteries /\ [b \in S |-> battery[b]] \in [S -> BatteryRows]
      BY <1>1, ServicedAssumption
    <3> QED  BY <3>1
  <2>2. repair' \in Repairs
    BY <1>10, <2>1 DEF BeginRepair, Repairs, BatteryRows
  <2> QED  BY <1>2, <1>4, <1>5, <1>10, <2>2 DEF BeginRepair, tables
<1>11. ASSUME CommitRepair
       PROVE  Typed' /\ Guarded /\ UNCHANGED <<order, items>>
  <2> DEFINE S == DOMAIN repair.seen
  <2>1. repair \in Repairs /\ S \subseteq Batteries /\ repair.to \in {"maintenance", "ready"}
    BY <1>2, <1>11 DEF CommitRepair, Repairs
  <2>2. battery' = [b \in Batteries |-> IF b \in S /\ repair.seen[b].status # repair.to
                                        THEN [battery[b] EXCEPT !.status = repair.to] ELSE battery[b]]
    BY <1>11 DEF CommitRepair
  <2>3. torn' = torn \cup {b \in S : battery[b] # repair.seen[b] \/ InActiveOrder(b, {})} /\ shelfOf' = shelfOf
    BY <1>11 DEF CommitRepair
  <2> HIDE DEF S
  <2>4. \A b \in Batteries : /\ battery'[b] \in BatteryRows /\ battery'[b].loc = battery[b].loc
                             /\ b \notin S => battery'[b] = battery[b]
    BY <1>1, <2>1, <2>2 DEF BatteryRows, BatteryStatuses
  <2>5. StockTypeOK'
    BY <1>1, <2>1, <2>2, <2>3, <2>4 DEF StockTypeOK, BatteryRows
  <2>6. Guarded
    BY <2>3, <2>4 DEF Guarded
  <2> QED  BY <1>2, <1>4, <1>11, <2>5, <2>6 DEF CommitRepair, tables
<1>12. ASSUME NEW b \in Serviced, NEW place \in Warehouses \cup Stations, ConfirmReceipt(b, place)
       PROVE  Typed' /\ Guarded /\ UNCHANGED <<order, items>>
  <2>1. b \in Batteries /\ place \in Locations /\ place \notin Shelves /\ place # "transit"
    BY ServicedAssumption, PlaceFacts
  <2>2. /\ battery' = [battery EXCEPT ![b] = [status |-> "available", loc |-> place]] /\ shelfOf' = shelfOf
        /\ torn' = torn \cup (IF InActiveOrder(b, {}) \/ shelfOf[b] # None THEN {b} ELSE {})
    BY <1>12 DEF ConfirmReceipt
  <2>3. StockTypeOK'
    BY <1>1, <2>1, <2>2 DEF StockTypeOK, BatteryRows, BatteryStatuses
  <2>4. battery'[b].loc = place /\ \A x \in Batteries : x # b => battery'[x] = battery[x]
    BY <1>1, <2>1, <2>2
  <2>5. Guarded
    BY <2>1, <2>2, <2>4 DEF Guarded
  <2> QED  BY <1>2, <1>4, <1>12, <2>3, <2>5 DEF ConfirmReceipt, tables, warehouseVars
<1>13. ASSUME NEW b \in Serviced, NEW st \in {"available", "maintenance", "retired"}, UpdateStatus(b, st)
       PROVE  Typed' /\ Guarded /\ UNCHANGED <<order, items>>
  <2>1. /\ b \in Batteries /\ battery' = [battery EXCEPT ![b].status = st] /\ shelfOf' = shelfOf
        /\ torn' = torn \cup (IF InActiveOrder(b, {}) THEN {b} ELSE {})
    BY <1>13, ServicedAssumption DEF UpdateStatus
  <2>2. StockTypeOK'
    BY <1>1, <2>1 DEF StockTypeOK, BatteryRows, BatteryStatuses
  <2>3. battery'[b].loc = battery[b].loc /\ \A x \in Batteries : x # b => battery'[x] = battery[x]
    BY <1>1, <2>1 DEF BatteryRows
  <2>4. Guarded
    BY <2>1, <2>3 DEF Guarded
  <2> QED  BY <1>2, <1>4, <1>13, <2>2, <2>4 DEF UpdateStatus, tables, warehouseVars
<1> HIDE DEF ManifestRows
<1> QED  BY <1>6, <1>7, <1>8, <1>9, <1>10, <1>11, <1>12, <1>13 DEF WarehouseNext

LEMMA TypedNext == Typed /\ [Next]_vars => Typed'
<1> SUFFICES ASSUME Typed, [Next]_vars PROVE Typed'
  OBVIOUS
<1>1. CASE OrdersNext /\ UNCHANGED warehouseVars
  BY <1>1, CreateTyped, BeginTyped, StatusTyped, AssignTyped, ReturnTyped DEF OrdersNext
<1>2. CASE WarehouseNext /\ UNCHANGED <<source, driver, req, stale>>
  BY <1>2, WarehouseStep
<1>3. CASE UNCHANGED vars
  BY <1>3 DEF vars, stockVars, orderVars, warehouseVars, Typed, TypeOK, StockTypeOK, ArgsFit, ArgFits
<1> QED  BY <1>1, <1>2, <1>3 DEF Next

LEMMA TypedAlways == Spec => []Typed
BY TypedInit, TypedNext, PTL DEF Spec

\* Every table holds rows of its own kind, however requests overlap: a released
\* battery always has a place to go back to, and no dispatch records a battery
\* as taken from the road.
THEOREM LogisticsTypeCorrect == Spec => []TypeOK
<1>1. Typed => TypeOK
  BY DEF Typed
<1> QED  BY <1>1, TypedAlways, PTL

-----------------------------------------------------------------------------
(* Custody of the batteries.                                               *)

Custody == TransitCustody /\ TransitHasOrder /\ ShelfAgrees

\* Active orders keep their batteries and stay active.
OrdersKept == \A o \in Orders : order[o].status \in Active => order'[o].status \in Active /\ items'[o] = items[o]

\* No order begins its journey.
NoneDispatched == \A o \in Orders : order'[o].status = "in_transit" => order[o].status = "in_transit"

LEMMA GuardedKeepsCustody ==
  ASSUME Typed, Typed', Custody, Guarded, OrdersKept, NoneDispatched
  PROVE  Custody'
<1>1. TransitCustody'
  <2> SUFFICES ASSUME NEW o \in Orders, order'[o].status = "in_transit", NEW b \in items'[o] \ torn'
               PROVE  battery'[b] = [status |-> "deployed", loc |-> "transit"]
    BY DEF TransitCustody
  <2>1. order[o].status = "in_transit" /\ "in_transit" \in Active
    BY DEF NoneDispatched, Active
  <2>2. b \in items[o] /\ b \in Batteries /\ b \notin torn
    BY <2>1 DEF OrdersKept, Guarded, Typed, TypeOK
  <2>3. InActiveOrder(b, {})
    BY <2>1, <2>2 DEF InActiveOrder
  <2> QED  BY <2>1, <2>2, <2>3 DEF Guarded, Custody, TransitCustody
<1>2. TransitHasOrder'
  <2> SUFFICES ASSUME NEW b \in Batteries \ torn', battery'[b].loc = "transit" PROVE InActiveOrder(b, {})'
    BY DEF TransitHasOrder
  <2>1. InActiveOrder(b, {})
    BY DEF Guarded, Custody, TransitHasOrder
  <2>2. PICK o \in Orders : b \in items[o] /\ order[o].status \in Active
    BY <2>1 DEF InActiveOrder
  <2> QED  BY <2>2 DEF OrdersKept, InActiveOrder
<1>3. ShelfAgrees'
  BY DEF Guarded, Custody, ShelfAgrees
<1> QED  BY <1>1, <1>2, <1>3 DEF Custody

LEMMA StatusKeepsCustody ==
  ASSUME Typed, Typed', Custody, NEW p \in Clerks, CommitStatus(p)
  PROVE  Custody'
<1>1. PICK o \in Orders, new \in Targets : StatusCommitted(o, new)
  BY StatusCommit
<1>2. torn' = torn /\ items' = items /\ order'[o].status = new /\ \A c \in Orders \ {o} : order'[c] = order[c]
  BY <1>1 DEF StatusCommitted
<1>3. \A c \in Orders \ {o} : order[c].status \in Active => items[c] \cap items[o] = {}
  BY <1>1 DEF StatusCommitted, InActiveOrder
<1>4. TransitCustody'
  <2> SUFFICES ASSUME NEW c \in Orders, order'[c].status = "in_transit", NEW b \in items[c] \ torn
               PROVE  battery'[b] = [status |-> "deployed", loc |-> "transit"]
    BY <1>2 DEF TransitCustody
  <2>1. CASE c = o
    BY <1>1, <1>2, <2>1 DEF StatusCommitted
  <2>2. CASE c # o
    <3>1. order[c].status = "in_transit" /\ b \in Batteries \ items[o]
      BY <1>2, <1>3, <2>2 DEF Active, Typed, TypeOK
    <3> QED  BY <1>1, <3>1 DEF StatusCommitted, Custody, TransitCustody
  <2> QED  BY <2>1, <2>2
<1>5. TransitHasOrder'
  <2> SUFFICES ASSUME NEW b \in Batteries \ torn, battery'[b].loc = "transit" PROVE InActiveOrder(b, {})'
    BY <1>2 DEF TransitHasOrder
  <2>1. CASE b \in items[o]
    <3>1. new = "in_transit"
      BY <1>1, <2>1 DEF StatusCommitted
    <3> QED  BY <1>2, <2>1, <3>1 DEF InActiveOrder, Active
  <2>2. CASE b \notin items[o]
    <3>1. battery[b].loc = "transit"
      BY <1>1, <2>2 DEF StatusCommitted
    <3>2. PICK c \in Orders : b \in items[c] /\ order[c].status \in Active
      BY <3>1 DEF Custody, TransitHasOrder, InActiveOrder
    <3> QED  BY <1>2, <2>2, <3>2 DEF InActiveOrder
  <2> QED  BY <2>1, <2>2
<1>6. ShelfAgrees'
  BY <1>1 DEF StatusCommitted, Custody, ShelfAgrees
<1> QED  BY <1>4, <1>5, <1>6 DEF Custody

LEMMA CustodyNext == Typed /\ Typed' /\ Custody /\ [Next]_vars => Custody'
<1> SUFFICES ASSUME Typed, Typed', Custody, [Next]_vars PROVE Custody'
  OBVIOUS
<1>1. ASSUME UNCHANGED <<order, items>> PROVE OrdersKept /\ NoneDispatched
  BY <1>1 DEF OrdersKept, NoneDispatched
<1>2. ASSUME NEW o \in Orders, NEW S \in SUBSET Batteries, NEW d \in Drivers \cup {None}, CreateOrder(o, S, d) PROVE Custody'
  <2>1. order[o].status = "absent" /\ "absent" \notin Active
    BY <1>2 DEF CreateOrder, Active
  <2>2. order'[o].status # "in_transit" /\ \A c \in Orders \ {o} : order'[c] = order[c] /\ items'[c] = items[c]
    BY <1>2 DEF CreateOrder, NoOrder, Typed, TypeOK
  <2>3. OrdersKept /\ NoneDispatched
    BY <2>1, <2>2 DEF OrdersKept, NoneDispatched
  <2> QED  BY <1>2, <2>3, CreateGuarded, GuardedKeepsCustody
<1>3. ASSUME NEW p \in Clerks,
             \/ \E o \in Orders, new \in Targets : BeginStatus(p, o, new)
             \/ \E o \in Orders : BeginPod(p, o)
             \/ \E o \in Orders, d \in Drivers : BeginAssign(p, o, d)
             \/ \E r, o \in Orders : BeginReturn(p, r, o)
             \/ CheckDriver(p) \/ Abandon(p)
      PROVE  Custody'
  <2>1. UNCHANGED <<order, items>> /\ UNCHANGED stockVars
    BY <1>3 DEF BeginStatus, BeginPod, BeginAssign, BeginReturn, Begin, CheckDriver, Abandon, stateOfOrders
  <2> QED  BY <1>1, <2>1, StillGuarded, GuardedKeepsCustody
<1>4. ASSUME NEW p \in Clerks, CommitAssignSame(p) \/ CommitAssign(p) PROVE Custody'
  <2>1. OrdersKept /\ NoneDispatched /\ UNCHANGED stockVars
    BY <1>4, Assigned DEF OrdersKept, NoneDispatched
  <2> QED  BY <2>1, StillGuarded, GuardedKeepsCustody
<1>5. ASSUME NEW p \in Clerks, CommitReturn(p), UNCHANGED warehouseVars PROVE Custody'
  <2>1. PICK r \in Orders : /\ order[r].status = "absent" /\ order'[r].status = "pending"
                            /\ \A c \in Orders \ {r} : order'[c] = order[c] /\ items'[c] = items[c]
    BY <1>5, ReturnTyped
  <2>2. OrdersKept /\ NoneDispatched /\ UNCHANGED stockVars
    BY <1>5, <2>1 DEF OrdersKept, NoneDispatched, Active, CommitReturn
  <2> QED  BY <2>2, StillGuarded, GuardedKeepsCustody
<1>6. CASE OrdersNext /\ UNCHANGED warehouseVars
  BY <1>2, <1>3, <1>4, <1>5, <1>6, StatusKeepsCustody DEF OrdersNext
<1>7. CASE WarehouseNext /\ UNCHANGED <<source, driver, req, stale>>
  BY <1>1, <1>7, WarehouseStep, GuardedKeepsCustody
<1>8. CASE UNCHANGED vars
  BY <1>1, <1>8, StillGuarded, GuardedKeepsCustody DEF vars, orderVars
<1> QED  BY <1>6, <1>7, <1>8 DEF Next

LEMMA CustodyAlways == Spec => []Custody
<1>1. Init => Custody
  <2> SUFFICES ASSUME Init PROVE Custody
    OBVIOUS
  <2>1. \A o \in Orders : order[o].status = "absent"
    BY DEF Init, OrdersInit, NoOrder
  <2>2. \A b \in Batteries : battery[b].loc \in Warehouses /\ shelfOf[b] = None
    BY DEF Init
  <2>3. \A w \in Warehouses : w \notin Shelves /\ w # "transit"
    BY PlaceFacts
  <2> QED  BY <2>1, <2>2, <2>3 DEF Custody, TransitCustody, TransitHasOrder, ShelfAgrees
<1> QED  BY <1>1, TypedAlways, CustodyNext, PTL DEF Spec

\* However requests overlap and whatever copies they act on, the batteries of an
\* order in transit are deployed and on the road, unless a writer that takes no
\* order into account has touched them.
THEOREM TransitIsKept == Spec => []TransitCustody
<1>1. Custody => TransitCustody
  BY DEF Custody
<1> QED  BY <1>1, CustodyAlways, PTL

\* No such battery is stranded: while it is on the road an active order has it.
THEOREM NoneStrandedOnTheRoad == Spec => []TransitHasOrder
<1>1. Custody => TransitHasOrder
  BY DEF Custody
<1> QED  BY <1>1, CustodyAlways, PTL

\* Shelf rows and battery locations never disagree under checked writers.
THEOREM ShelvesAgree == Spec => []ShelfAgrees
<1>1. Custody => ShelfAgrees
  BY DEF Custody
<1> QED  BY <1>1, CustodyAlways, PTL

\* No sequence of receipts lets a manifest be received or processed while one of
\* its items is pending or missing.
THEOREM ManifestsComplete == Spec => []ManifestComplete
<1>1. Init => ManifestComplete
  BY DEF Init, WarehouseInit, NoManifest, ManifestComplete
<1>2. Typed /\ ManifestComplete /\ [Next]_vars => ManifestComplete'
  <2> SUFFICES ASSUME Typed, ManifestComplete, [Next]_vars PROVE ManifestComplete'
    OBVIOUS
  <2>1. manifest \in [Manifests -> [status : ManifestStatuses, item : [Batteries -> ItemStatuses \cup {None}]]]
    BY DEF Typed, TypeOK
  <2>2. ASSUME NEW m \in Manifests, NEW row, manifest' = [manifest EXCEPT ![m] = row],
               row.status \in {"Received", "Processed"} => \A b \in Batteries : row.item[b] \notin {"pending", "missing"}
        PROVE  ManifestComplete'
    BY <2>1, <2>2 DEF ManifestComplete
  <2>3. ASSUME NEW m \in Manifests, NEW upd \in ItemUpdates, CreateManifest(m, DOMAIN upd, upd) PROVE ManifestComplete'
    <3>1. PICK st \in {"In Transit", "In Progress"} :
            manifest' = [manifest EXCEPT ![m] = [status |-> st, item |-> [b \in Batteries |-> IF b \in DOMAIN upd THEN upd[b] ELSE None]]]
      BY <2>3 DEF CreateManifest
    <3> QED  BY <2>2, <3>1
  <2>4. ASSUME NEW m \in Manifests, NEW upd \in ItemUpdates, NEW w \in Warehouses, ReceiveManifest(m, w, upd) PROVE ManifestComplete'
    <3> DEFINE new == [b \in Batteries |-> IF b \in DOMAIN upd THEN upd[b] ELSE manifest[m].item[b]]
    <3>1. manifest' = [manifest EXCEPT ![m] = [status |-> ComputeStatus(new), item |-> new]]
      BY <2>4 DEF ReceiveManifest
    <3> HIDE DEF new
    <3>2. ComputeStatus(new) \in {"Received", "Processed"} => \A b \in Batteries : new[b] \notin {"pending", "missing"}
      BY DEF ComputeStatus
    <3> QED  BY <2>2, <3>1, <3>2
  <2>5. ASSUME NEW m \in Manifests, ProcessManifest(m) PROVE ManifestComplete'
    <3>1. manifest' = [manifest EXCEPT ![m] = [manifest[m] EXCEPT !.status = "Processed"]]
      BY <2>5 DEF ProcessManifest
    <3>2. [manifest[m] EXCEPT !.status = "Processed"].item = manifest[m].item
      BY <2>1
    <3> QED  BY <2>2, <2>5, <3>1, <3>2 DEF ProcessManifest
  <2>6. ASSUME manifest' = manifest PROVE ManifestComplete'
    BY <2>6 DEF ManifestComplete
  <2> QED  BY <2>3, <2>4, <2>5, <2>6 DEF Next, WarehouseNext, vars, warehouseVars, AssignToShelf, BeginRepair, CommitRepair,
                                        ConfirmReceipt, UpdateStatus
<1> QED  BY <1>1, <1>2, TypedAlways, PTL DEF Spec
-----------------------------------------------------------------------------
(* What is set aside for an order.                                         *)

Delivers(o) == order[o].kind = "delivery" /\ order[o].status \in Active
Waits(o) == Delivers(o) /\ order[o].status # "in_transit"

\* ReservedForOrder made inductive: no two delivery orders share a battery
\* while both are active, the ones in transit included.
SetAside ==
  ~stale => /\ \A o \in Orders : Waits(o) =>
                 \A b \in items[o] \ torn : battery[b].status = "reserved" /\ battery[b].loc \in Places
            /\ \A o, c \in Orders : o # c /\ Delivers(o) /\ Delivers(c) => items[o] \cap items[c] = {}

\* An assignment on a current copy: the order keeps its kind and stays active,
\* and what waits is what waited.
LEMMA AssignedFresh ==
  ASSUME Typed, NEW p \in Clerks, CommitAssignSame(p) \/ CommitAssign(p), ~stale'
  PROVE  /\ ~stale /\ order[req[p].o] = req[p].snap
         /\ \A c \in Orders : order'[c].kind = order[c].kind /\ Canonical(order'[c].status) = Canonical(order[c].status)
<1>1. req[p] # Idle /\ ~stale /\ order[req[p].o] = req[p].snap /\ req[p].op = "assign"
  BY DEF CommitAssignSame, CommitAssign
<1>2. PICK o \in Orders, d \in Drivers : o = req[p].o /\ d = req[p].arg
  BY <1>1, RequestFacts DEF ArgFits
<1>3. order \in [Orders -> OrderRows]
  BY DEF Typed, TypeOK
<1>4. PICK st : st = MarkAssigned(req[p])
  OBVIOUS
<1>5. Canonical(st) = Canonical(order[o].status)
  BY <1>1, <1>2, <1>4 DEF MarkAssigned, Canonical
<1>6. CASE CommitAssignSame(p)
  <2>1. order' = [order EXCEPT ![o].status = st]
    BY <1>2, <1>4, <1>6 DEF CommitAssignSame
  <2>2. order'[o].kind = order[o].kind /\ order'[o].status = st /\ \A c \in Orders \ {o} : order'[c] = order[c]
    BY <1>3, <2>1 DEF OrderRows
  <2> QED  BY <1>1, <1>5, <2>2
<1>7. CASE CommitAssign(p)
  <2>1. PICK held : /\ held = OtherActive(d, o) /\ held \subseteq Orders \ {o}
                    /\ order' = [c \in Orders |->
                         CASE c = o -> [order[o] EXCEPT !.driver = d, !.status = st]
                           [] c \in held -> [order[c] EXCEPT !.driver = None, !.status = Canonical(@)]
                           [] OTHER -> order[c]]
    BY <1>2, <1>4, <1>7 DEF CommitAssign, OtherActive
  <2>2. order'[o].kind = order[o].kind /\ order'[o].status = st
    BY <1>3, <2>1 DEF OrderRows
  <2>3. \A c \in held : order'[c].kind = order[c].kind /\ order'[c].status = Canonical(order[c].status)
    BY <1>3, <2>1 DEF OrderRows
  <2>4. \A c \in Orders : c # o /\ c \notin held => order'[c] = order[c]
    BY <2>1
  <2>5. \A s : Canonical(Canonical(s)) = Canonical(s)
    BY DEF Canonical
  <2> QED  BY <1>1, <1>5, <2>2, <2>3, <2>4, <2>5
<1> QED  BY <1>6, <1>7

\* A guarded step after which the same orders deliver, and none waits that did not.
LEMMA GuardedKeepsAside ==
  ASSUME Typed, SetAside, Guarded, items' = items, ~stale' => ~stale,
         \A o \in Orders : Delivers(o)' => Delivers(o),
         \A o \in Orders : Waits(o)' => Waits(o)
  PROVE  SetAside'
<1> SUFFICES ASSUME ~stale' PROVE SetAside'
  BY DEF SetAside
<1>1. ~stale
  OBVIOUS
<1>2. ASSUME NEW o \in Orders, Waits(o)', NEW b \in items'[o] \ torn'
      PROVE  battery'[b].status = "reserved" /\ battery'[b].loc \in Places
  <2>1. Waits(o) /\ b \in items[o] /\ b \notin torn /\ b \in Batteries /\ b \notin torn'
    BY <1>2 DEF Guarded, Typed, TypeOK
  <2>2. InActiveOrder(b, {})
    BY <2>1 DEF InActiveOrder, Waits, Delivers
  <2>3. battery'[b] = battery[b]
    BY <2>1, <2>2 DEF Guarded
  <2> QED  BY <1>1, <2>1, <2>3 DEF SetAside
<1>3. \A o, c \in Orders : o # c /\ Delivers(o)' /\ Delivers(c)' => items'[o] \cap items'[c] = {}
  BY <1>1 DEF SetAside
<1> QED  BY <1>2, <1>3 DEF SetAside

LEMMA CreateSetsAside ==
  ASSUME Typed, SetAside, NEW o \in Orders, NEW S \in SUBSET Batteries, NEW d \in Drivers \cup {None}, CreateOrder(o, S, d)
  PROVE  SetAside'
<1> SUFFICES ASSUME ~stale' PROVE SetAside'
  BY DEF SetAside
<1>1. /\ StockTypeOK /\ CanMove(Reserved(S), {}) /\ Move(Reserved(S)) /\ torn' = torn /\ ~stale
      /\ \A b \in S : battery[b].loc \in Places
  BY DEF Typed, TypeOK, CreateOrder, Reservable
<1>2. DOMAIN Reserved(S) = S /\ \A b \in S : Reserved(S)[b] \in BatteryRows /\ Reserved(S)[b] = [status |-> "reserved", loc |-> battery[b].loc]
  BY <1>1, ReservedRows DEF Reserved
<1>3. /\ \A b \in S : battery'[b] = [status |-> "reserved", loc |-> battery[b].loc]
      /\ \A b \in Batteries \ S : battery'[b] = battery[b]
  BY <1>1, <1>2, MoveWrites
<1>4. \A b \in S : ~InActiveOrder(b, {})
  BY <1>1, <1>2 DEF CanMove
<1>5. items'[o] = S /\ \A c \in Orders \ {o} : order'[c] = order[c] /\ items'[c] = items[c]
  BY DEF CreateOrder, Typed, TypeOK
<1>6. \A c \in Orders \ {o} : Delivers(c)' <=> Delivers(c)
  BY <1>5 DEF Delivers
<1>7. \A c \in Orders \ {o} : Delivers(c) => items[c] \cap S = {}
  BY <1>4 DEF Delivers, InActiveOrder
<1>8. ASSUME NEW c \in Orders, Waits(c)', NEW b \in items'[c] \ torn'
      PROVE  battery'[b].status = "reserved" /\ battery'[b].loc \in Places
  <2>1. CASE c = o
    <3>1. b \in S
      BY <1>5, <1>8, <2>1
    <3>2. battery'[b] = [status |-> "reserved", loc |-> battery[b].loc] /\ battery[b].loc \in Places
      BY <1>1, <1>3, <3>1
    <3> QED  BY <3>2
  <2>2. CASE c # o
    <3>1. Waits(c) /\ b \in items[c] \ torn /\ b \in Batteries \ S
      BY <1>1, <1>5, <1>6, <1>7, <1>8, <2>2 DEF Waits, Typed, TypeOK
    <3> QED  BY <1>1, <1>3, <3>1 DEF SetAside
  <2> QED  BY <2>1, <2>2
<1>9. ASSUME NEW c1 \in Orders, NEW c2 \in Orders, c1 # c2, Delivers(c1)', Delivers(c2)'
      PROVE  items'[c1] \cap items'[c2] = {}
  <2>1. CASE c1 # o /\ c2 # o
    BY <1>1, <1>5, <1>6, <1>9, <2>1 DEF SetAside
  <2>2. CASE c1 = o \/ c2 = o
    BY <1>5, <1>6, <1>7, <1>9, <2>2
  <2> QED  BY <2>1, <2>2
<1> QED  BY <1>8, <1>9 DEF SetAside

LEMMA StatusSetsAside ==
  ASSUME Typed, SetAside, NEW p \in Clerks, CommitStatus(p)
  PROVE  SetAside'
<1> SUFFICES ASSUME ~stale' PROVE SetAside'
  BY DEF SetAside
<1>1. ~stale
  BY DEF CommitStatus
<1>2. PICK o \in Orders, new \in Targets : StatusCommitted(o, new)
  BY StatusCommit
<1>3. torn' = torn /\ items' = items /\ order'[o].status = new /\ \A c \in Orders \ {o} : order'[c] = order[c]
  BY <1>2 DEF StatusCommitted
<1>4. \A c \in Orders \ {o} : order[c].status \in Active => items[c] \cap items[o] = {}
  BY <1>2 DEF StatusCommitted, InActiveOrder
<1>5. \A c \in Orders \ {o} : (Delivers(c)' <=> Delivers(c)) /\ (Waits(c)' <=> Waits(c))
  BY <1>3 DEF Delivers, Waits
<1>6. ASSUME NEW c \in Orders, Waits(c)', NEW b \in items'[c] \ torn'
      PROVE  battery'[b].status = "reserved" /\ battery'[b].loc \in Places
  <2>1. CASE c = o
    <3>1. new = "pending"
      BY <1>3, <1>6, <2>1 DEF Waits, Delivers, Active, Targets
    <3> QED  BY <1>2, <1>3, <1>6, <2>1, <3>1 DEF StatusCommitted
  <2>2. CASE c # o
    <3>1. Waits(c) /\ b \in items[c] \ torn /\ b \in Batteries \ items[o]
      BY <1>3, <1>4, <1>5, <1>6, <2>2 DEF Waits, Delivers, Typed, TypeOK
    <3> QED  BY <1>1, <1>2, <3>1 DEF SetAside, StatusCommitted
  <2> QED  BY <2>1, <2>2
<1>7. ASSUME NEW c1 \in Orders, NEW c2 \in Orders, c1 # c2, Delivers(c1)', Delivers(c2)'
      PROVE  items'[c1] \cap items'[c2] = {}
  <2>1. CASE c1 # o /\ c2 # o
    BY <1>1, <1>3, <1>5, <1>7, <2>1 DEF SetAside
  <2>2. CASE c1 = o \/ c2 = o
    BY <1>3, <1>4, <1>5, <1>7, <2>2 DEF Delivers
  <2> QED  BY <2>1, <2>2
<1> QED  BY <1>6, <1>7 DEF SetAside

LEMMA ReturnSetsAside ==
  ASSUME Typed, SetAside, NEW p \in Clerks, CommitReturn(p)
  PROVE  SetAside'
<1>1. PICK r \in Orders, of \in Orders : r = req[p].o /\ of = req[p].arg
  BY RequestFacts DEF ArgFits, CommitReturn
<1>2. /\ order' = [order EXCEPT ![r] = [NoOrder EXCEPT !.status = "pending", !.kind = "return", !.of = of]]
      /\ items' = [items EXCEPT ![r] = items[of]] /\ UNCHANGED stockVars /\ (~stale' => ~stale)
  BY <1>1 DEF CommitReturn
<1>3. order'[r].kind = "return" /\ \A c \in Orders \ {r} : order'[c] = order[c] /\ items'[c] = items[c]
  BY <1>2 DEF NoOrder, Typed, TypeOK
<1>4. \A c \in Orders : (Delivers(c)' => c # r /\ Delivers(c)) /\ (Waits(c)' => c # r /\ Waits(c))
  BY <1>3 DEF Delivers, Waits
<1> QED  BY <1>2, <1>3, <1>4 DEF SetAside, stockVars

LEMMA SetAsideNext == Typed /\ SetAside /\ [Next]_vars => SetAside'
<1> SUFFICES ASSUME Typed, SetAside, [Next]_vars PROVE SetAside'
  OBVIOUS
<1>1. ASSUME UNCHANGED <<order, items, stale>>, Guarded PROVE SetAside'
  BY <1>1, GuardedKeepsAside DEF Delivers, Waits
<1>2. ASSUME NEW p \in Clerks,
             \/ \E o \in Orders, new \in Targets : BeginStatus(p, o, new)
             \/ \E o \in Orders : BeginPod(p, o)
             \/ \E o \in Orders, d \in Drivers : BeginAssign(p, o, d)
             \/ \E r, o \in Orders : BeginReturn(p, r, o)
             \/ CheckDriver(p) \/ Abandon(p)
      PROVE  SetAside'
  <2>1. UNCHANGED <<order, items, stale>> /\ UNCHANGED stockVars
    BY <1>2 DEF BeginStatus, BeginPod, BeginAssign, BeginReturn, Begin, CheckDriver, Abandon, stateOfOrders
  <2> QED  BY <1>1, <2>1, StillGuarded
<1>3. ASSUME NEW p \in Clerks, CommitAssignSame(p) \/ CommitAssign(p) PROVE SetAside'
  <2>1. CASE stale'
    BY <2>1 DEF SetAside
  <2>2. CASE ~stale'
    <3>1. /\ ~stale
          /\ \A c \in Orders : order'[c].kind = order[c].kind /\ Canonical(order'[c].status) = Canonical(order[c].status)
      BY <1>3, <2>2, AssignedFresh
    <3>2. \A c \in Orders : (Delivers(c)' => Delivers(c)) /\ (Waits(c)' => Waits(c))
      BY <3>1 DEF Delivers, Waits, Canonical, Active
    <3>3. items' = items /\ Guarded
      BY <1>3, Assigned, StillGuarded
    <3> QED  BY <3>1, <3>2, <3>3, GuardedKeepsAside
  <2> QED  BY <2>1, <2>2
<1>4. CASE OrdersNext /\ UNCHANGED warehouseVars
  BY <1>2, <1>3, <1>4, CreateSetsAside, StatusSetsAside, ReturnSetsAside DEF OrdersNext
<1>5. CASE WarehouseNext /\ UNCHANGED <<source, driver, req, stale>>
  BY <1>1, <1>5, WarehouseStep
<1>6. CASE UNCHANGED vars
  BY <1>1, <1>6, StillGuarded DEF vars, orderVars
<1> QED  BY <1>4, <1>5, <1>6 DEF Next

\* While every commit acts on a current copy, the batteries of a delivery order
\* that waits are set aside for it alone, whatever the other clerks and the
\* warehouse do, retries of failed orders included.
THEOREM ReservedForOrders == Spec => []ReservedForOrder
<1>1. Init => SetAside
  BY DEF Init, OrdersInit, NoOrder, SetAside, Waits, Delivers, Active
<1>2. SetAside => ReservedForOrder
  <2>1. \A o \in Orders : order[o].kind = "delivery" /\ order[o].status \in {"pending", "assigned"} => Waits(o)
    BY DEF Waits, Delivers, Active
  <2> QED  BY <2>1 DEF SetAside, ReservedForOrder, Waits, Delivers
<1> QED  BY <1>1, <1>2, TypedAlways, SetAsideNext, PTL DEF Spec
-----------------------------------------------------------------------------
(* Drivers and the orders they carry.                                      *)

Carries(d, o) == order[o].driver = d /\ order[o].status \in Active

\* DriverCommitted without the set of carried orders.
Exclusive ==
  ~stale => \A d \in Drivers :
    /\ \A o, c \in Orders : Carries(d, o) /\ Carries(d, c) => o = c
    /\ driver[d] = "busy" <=> \E o \in Orders : Carries(d, o)

\* assign_driver refused an order that was over when it read the row.
AssignsActive == \A p \in Clerks : req[p] # Idle /\ req[p].op = "assign" => req[p].snap.status \in Active

Committed == Exclusive /\ AssignsActive

\* Requests: what begins is checked, and CheckDriver changes neither the
\* operation nor the copy.
LEMMA AssignsActiveNext == Typed /\ AssignsActive /\ [Next]_vars => AssignsActive'
<1> SUFFICES ASSUME Typed, AssignsActive, [Next]_vars PROVE AssignsActive'
  OBVIOUS
<1>1. req \in [Clerks -> Requests \cup {Idle}] /\ order \in [Orders -> OrderRows]
  BY DEF Typed, TypeOK
<1>2. ASSUME NEW p \in Clerks, NEW r, req' = [req EXCEPT ![p] = r], r # Idle /\ r.op = "assign" => r.snap.status \in Active
      PROVE  AssignsActive'
  <2>1. \A c \in Clerks : req'[c] = IF c = p THEN r ELSE req[c]
    BY <1>1, <1>2
  <2> QED  BY <1>2, <2>1 DEF AssignsActive
<1>3. ASSUME req' = req PROVE AssignsActive'
  BY <1>3 DEF AssignsActive
<1>4. ASSUME NEW p \in Clerks, req' = [req EXCEPT ![p] = Idle] PROVE AssignsActive'
  BY <1>2, <1>4
<1>5. ASSUME NEW p \in Clerks, NEW o \in Orders, NEW new \in Targets, BeginStatus(p, o, new) PROVE AssignsActive'
  <2>1. PICK pc : req' = [req EXCEPT ![p] = [op |-> "status", o |-> o, arg |-> new, snap |-> order[o], seen |-> None, pc |-> pc]]
    BY <1>5 DEF BeginStatus, Begin
  <2> QED  BY <1>2, <2>1
<1>6. ASSUME NEW p \in Clerks, NEW o \in Orders, BeginPod(p, o) PROVE AssignsActive'
  BY <1>2, <1>6 DEF BeginPod, Begin
<1>7. ASSUME NEW p \in Clerks, NEW o \in Orders, NEW d \in Drivers, BeginAssign(p, o, d) PROVE AssignsActive'
  <2>1. order[o].status \in Active
    BY <1>1, <1>7 DEF BeginAssign, Terminal, OrderRows, Statuses
  <2> QED  BY <1>2, <1>7, <2>1 DEF BeginAssign, Begin
<1>8. ASSUME NEW p \in Clerks, NEW r \in Orders, NEW o \in Orders, BeginReturn(p, r, o) PROVE AssignsActive'
  BY <1>2, <1>8 DEF BeginReturn, Begin
<1>9. ASSUME NEW p \in Clerks, CheckDriver(p) PROVE AssignsActive'
  <2>1. req[p] # Idle /\ req' = [req EXCEPT ![p] = [req[p] EXCEPT !.pc = "commit"]]
    BY <1>9 DEF CheckDriver
  <2>2. req[p] \in Requests
    BY <1>1, <2>1
  <2>3. PICK r : r = [req[p] EXCEPT !.pc = "commit"]
    OBVIOUS
  <2>4. r.op = req[p].op /\ r.snap = req[p].snap
    BY <2>2, <2>3 DEF Requests
  <2> QED  BY <1>2, <2>1, <2>3, <2>4 DEF AssignsActive
<1>10. CASE OrdersNext
  BY <1>3, <1>4, <1>5, <1>6, <1>7, <1>8, <1>9, <1>10 DEF OrdersNext, CreateOrder, CommitStatus, CommitAssignSame, CommitAssign,
                                                       CommitReturn, Abandon
<1>11. CASE UNCHANGED <<source, driver, req, stale>> \/ UNCHANGED vars
  BY <1>3, <1>11 DEF vars, orderVars
<1> QED  BY <1>10, <1>11 DEF Next

LEMMA CreateCommits ==
  ASSUME Typed, Exclusive, NEW o \in Orders, NEW S \in SUBSET Batteries, NEW d \in Drivers \cup {None}, CreateOrder(o, S, d)
  PROVE  Exclusive'
<1>1. /\ order[o].status = "absent" /\ stale' = stale /\ driver' = SetDriver(driver, d, "busy")
      /\ d # None => OtherActive(d, o) = {}
  BY DEF CreateOrder
<1>2. order'[o].driver = d /\ order'[o].status \in Active /\ \A c \in Orders \ {o} : order'[c] = order[c]
  BY DEF CreateOrder, NoOrder, Active, Typed, TypeOK
<1>3. driver \in [Drivers -> {"available", "busy"}]
  BY DEF Typed, TypeOK
<1>4. ASSUME NEW e \in Drivers, NEW c \in Orders PROVE Carries(e, c)' <=> (e = d /\ c = o) \/ Carries(e, c)
  BY <1>1, <1>2 DEF Carries, Active
<1>5. \A c \in Orders : d # None => ~Carries(d, c)
  BY <1>1 DEF Carries, OtherActive, Active
<1>6. \A e \in Drivers : driver'[e] = IF e = d THEN "busy" ELSE driver[e]
  BY <1>1, <1>3, DriverAssumption DEF SetDriver
<1> QED  BY <1>1, <1>4, <1>5, <1>6, DriverAssumption DEF Exclusive

LEMMA StatusCommits ==
  ASSUME Typed, Exclusive, NEW p \in Clerks, CommitStatus(p)
  PROVE  Exclusive'
<1> SUFFICES ASSUME ~stale' PROVE Exclusive'
  BY DEF Exclusive
<1>1. PICK o, new, d : o = req[p].o /\ new = req[p].arg /\ d = req[p].snap.driver
  OBVIOUS
<1>2. o \in Orders /\ new \in Targets /\ StatusCommitted(o, new) /\ d \in Drivers \cup {None}
  BY <1>1, StatusCommit, RequestFacts DEF CommitStatus
<1>3. /\ ~stale /\ order[o] = req[p].snap
      /\ new \in {"in_transit", "pending"} /\ d # None => OtherActive(d, o) = {}
  BY <1>1 DEF CommitStatus
<1>4. driver' = IF new \in {"in_transit", "pending"} THEN SetDriver(driver, d, "busy") ELSE ReleaseIfIdle(driver, d, o)
  BY <1>1 DEF CommitStatus
<1>5. order'[o].driver = d
  <2>1. order' = [order EXCEPT ![o].status = new, ![o].dispatched = @ \/ new = "in_transit" \/ req[p].op = "pod"]
    BY <1>1 DEF CommitStatus
  <2>2. order \in [Orders -> OrderRows] /\ order[o].driver = d
    BY <1>1, <1>3 DEF Typed, TypeOK
  <2> QED  BY <1>2, <2>1, <2>2 DEF OrderRows
<1>6. order'[o].status = new /\ \A c \in Orders \ {o} : order'[c] = order[c]
  BY <1>2 DEF StatusCommitted
<1>7. driver \in [Drivers -> {"available", "busy"}]
  BY DEF Typed, TypeOK
<1>8. \A e \in Drivers : e # d => (driver'[e] = driver[e] /\ \A c \in Orders : Carries(e, c)' <=> Carries(e, c))
  BY <1>1, <1>3, <1>4, <1>5, <1>6, <1>7 DEF SetDriver, ReleaseIfIdle, Carries
<1>9. CASE d \notin Drivers
  BY <1>3, <1>8, <1>9 DEF Exclusive
<1>10. CASE d \in Drivers /\ new \in {"in_transit", "pending"}
  <2>1. driver'[d] = "busy" /\ \A c \in Orders : Carries(d, c)' <=> c = o
    BY <1>3, <1>4, <1>5, <1>6, <1>7, <1>10, DriverAssumption DEF SetDriver, Carries, OtherActive, Active
  <2> QED  BY <1>2, <1>3, <1>8, <2>1 DEF Exclusive
<1>11. CASE d \in Drivers /\ new \notin {"in_transit", "pending"}
  <2>1. \A c \in Orders : Carries(d, c)' <=> c \in OtherActive(d, o)
    BY <1>2, <1>5, <1>6, <1>11 DEF Carries, OtherActive, Active, Targets
  <2>2. CASE OtherActive(d, o) = {}
    <3>1. driver'[d] = "available"
      BY <1>4, <1>7, <1>11, <2>2, DriverAssumption DEF ReleaseIfIdle
    <3> QED  BY <1>3, <1>8, <2>1, <2>2, <3>1 DEF Exclusive
  <2>3. CASE OtherActive(d, o) # {}
    <3>1. driver'[d] = driver[d]
      BY <1>4, <1>11, <2>3 DEF ReleaseIfIdle
    <3>2. \A c \in OtherActive(d, o) : c \in Orders /\ Carries(d, c)
      BY DEF OtherActive, Carries
    <3> QED  BY <1>3, <1>8, <1>11, <2>1, <2>3, <3>1, <3>2 DEF Exclusive
  <2> QED  BY <2>2, <2>3
<1> QED  BY <1>9, <1>10, <1>11

LEMMA AssignCommits ==
  ASSUME Typed, Committed, NEW p \in Clerks, CommitAssign(p)
  PROVE  Exclusive'
<1> SUFFICES ASSUME ~stale' PROVE Exclusive'
  BY DEF Exclusive
<1>1. PICK o, d, prev, st : o = req[p].o /\ d = req[p].arg /\ prev = req[p].snap.driver /\ st = MarkAssigned(req[p])
  OBVIOUS
<1>2. o \in Orders /\ d \in Drivers /\ prev \in Drivers \cup {None} /\ prev # d
  BY <1>1, RequestFacts DEF ArgFits, CommitAssign
<1>3. ~stale /\ order[o] = req[p].snap /\ driver[d] = "available"
  BY <1>1 DEF CommitAssign
<1>4. order[o].status \in Active /\ st \in Active /\ order[o].driver = prev
  <2>1. order[o].status \in Active
    BY <1>3 DEF Committed, AssignsActive, CommitAssign
  <2> QED  BY <1>1, <1>3, <2>1 DEF MarkAssigned, Active
<1>5. \A c \in Orders : ~Carries(d, c)
  BY <1>2, <1>3 DEF Committed, Exclusive
<1>6. OtherActive(d, o) = {}
  BY <1>5 DEF OtherActive, Carries
<1>7. order' = [c \in Orders |-> IF c = o THEN [order[o] EXCEPT !.driver = d, !.status = st] ELSE order[c]]
  <2>1. PICK held : /\ held = OtherActive(d, o)
                    /\ order' = [c \in Orders |->
                         CASE c = o -> [order[o] EXCEPT !.driver = d, !.status = st]
                           [] c \in held -> [order[c] EXCEPT !.driver = None, !.status = Canonical(@)]
                           [] OTHER -> order[c]]
    BY <1>1, <1>2 DEF CommitAssign, OtherActive
  <2> QED  BY <1>6, <2>1
<1>8. order'[o].driver = d /\ order'[o].status = st /\ \A c \in Orders \ {o} : order'[c] = order[c]
  <2>1. order \in [Orders -> OrderRows]
    BY DEF Typed, TypeOK
  <2> QED  BY <1>2, <1>7, <2>1 DEF OrderRows
<1>9. PICK dt : dt = [driver EXCEPT ![d] = "busy"] /\ driver' = ReleaseIfIdle(dt, prev, o)
  BY <1>1 DEF CommitAssign
<1>10. /\ dt \in [Drivers -> {"available", "busy"}] /\ dt[d] = "busy" /\ \A e \in Drivers : e # d => dt[e] = driver[e]
  BY <1>2, <1>9 DEF Typed, TypeOK
<1>11. /\ \A e \in Drivers : e # prev => driver'[e] = dt[e]
       /\ prev \in Drivers => driver'[prev] = IF OtherActive(prev, o) = {} THEN "available" ELSE driver[prev]
  BY <1>2, <1>9, <1>10, DriverAssumption DEF ReleaseIfIdle
<1>12. \A c \in Orders : Carries(d, c)' <=> c = o
  BY <1>2, <1>4, <1>5, <1>8 DEF Carries
<1>13. \A e \in Drivers : e # d /\ e # prev => \A c \in Orders : Carries(e, c)' <=> Carries(e, c)
  BY <1>2, <1>4, <1>8 DEF Carries
<1>14. \A c \in Orders : Carries(prev, c)' <=> c \in OtherActive(prev, o)
  BY <1>2, <1>8 DEF Carries, OtherActive
<1>15. \A c \in OtherActive(prev, o) : c \in Orders /\ Carries(prev, c)
  BY DEF OtherActive, Carries
<1>16. ASSUME NEW e \in Drivers
       PROVE  /\ \A c1, c2 \in Orders : Carries(e, c1)' /\ Carries(e, c2)' => c1 = c2
              /\ driver'[e] = "busy" <=> \E c \in Orders : Carries(e, c)'
  <2>1. CASE e = d
    BY <1>2, <1>10, <1>11, <1>12, <2>1
  <2>2. CASE e = prev
    <3>1. CASE OtherActive(prev, o) = {}
      BY <1>11, <1>14, <2>2, <3>1
    <3>2. CASE OtherActive(prev, o) # {}
      BY <1>3, <1>11, <1>14, <1>15, <2>2, <3>2 DEF Committed, Exclusive
    <3> QED  BY <3>1, <3>2
  <2>3. CASE e # d /\ e # prev
    BY <1>3, <1>10, <1>11, <1>13, <2>3 DEF Committed, Exclusive
  <2> QED  BY <2>1, <2>2, <2>3
<1> QED  BY <1>16 DEF Exclusive

LEMMA CommittedNext == Typed /\ Committed /\ [Next]_vars => Committed'
<1> SUFFICES ASSUME Typed, Committed, [Next]_vars PROVE Committed'
  OBVIOUS
<1>1. ASSUME driver' = driver, ~stale' => ~stale, \A c \in Orders, d \in Drivers : Carries(d, c)' <=> Carries(d, c)
      PROVE  Exclusive'
  BY <1>1 DEF Committed, Exclusive
<1>2. ASSUME UNCHANGED <<order, driver, stale>> PROVE Exclusive'
  BY <1>1, <1>2 DEF Carries
<1>3. ASSUME NEW p \in Clerks,
             \/ \E o \in Orders, new \in Targets : BeginStatus(p, o, new)
             \/ \E o \in Orders : BeginPod(p, o)
             \/ \E o \in Orders, d \in Drivers : BeginAssign(p, o, d)
             \/ \E r, o \in Orders : BeginReturn(p, r, o)
             \/ CheckDriver(p) \/ Abandon(p)
      PROVE  Exclusive'
  <2>1. UNCHANGED <<order, driver, stale>>
    BY <1>3 DEF BeginStatus, BeginPod, BeginAssign, BeginReturn, Begin, CheckDriver, Abandon, stateOfOrders
  <2> QED  BY <1>2, <2>1
<1>4. ASSUME NEW p \in Clerks, CommitAssignSame(p) PROVE Exclusive'
  <2>1. CASE stale'
    BY <2>1 DEF Exclusive
  <2>2. CASE ~stale'
    <3>1. ~stale /\ \A c \in Orders : Canonical(order'[c].status) = Canonical(order[c].status)
      BY <1>4, <2>2, AssignedFresh
    <3>2. \A c \in Orders : order'[c].driver = order[c].driver
      <4>1. PICK o, st : order' = [order EXCEPT ![o].status = st]
        BY <1>4 DEF CommitAssignSame
      <4>2. order \in [Orders -> OrderRows]
        BY DEF Typed, TypeOK
      <4> QED  BY <4>1, <4>2 DEF OrderRows
    <3>3. \A c \in Orders, d \in Drivers : Carries(d, c)' <=> Carries(d, c)
      BY <3>1, <3>2 DEF Carries, Canonical, Active
    <3> QED  BY <1>1, <1>4, <2>2, <3>1, <3>3 DEF CommitAssignSame
  <2> QED  BY <2>1, <2>2
<1>5. ASSUME NEW p \in Clerks, CommitReturn(p) PROVE Exclusive'
  <2>1. PICK r \in Orders : r = req[p].o
    BY <1>5, RequestFacts DEF CommitReturn
  <2>2. order[r].status = "absent" /\ driver' = driver /\ (~stale' => ~stale)
    BY <1>5, <2>1 DEF CommitReturn
  <2>3. order'[r].driver = None /\ \A c \in Orders \ {r} : order'[c] = order[c]
    BY <1>5, <2>1 DEF CommitReturn, NoOrder, Typed, TypeOK
  <2>4. \A c \in Orders, d \in Drivers : Carries(d, c)' <=> Carries(d, c)
    BY <2>2, <2>3, DriverAssumption DEF Carries, Active
  <2> QED  BY <2>2, <2>4 DEF Committed, Exclusive
<1>6. ASSUME OrdersNext PROVE Exclusive'
  BY <1>3, <1>4, <1>5, <1>6, CreateCommits, StatusCommits, AssignCommits DEF OrdersNext, Committed
<1>7. ASSUME WarehouseNext, UNCHANGED <<source, driver, req, stale>> PROVE Exclusive'
  BY <1>2, <1>7, WarehouseStep
<1>8. ASSUME UNCHANGED vars PROVE Exclusive'
  BY <1>2, <1>8 DEF vars, orderVars
<1>9. Exclusive'
  BY <1>6, <1>7, <1>8 DEF Next
<1> QED  BY <1>9, AssignsActiveNext DEF Committed

\* While every commit acts on a current copy, no driver carries two active
\* orders, and a driver is busy exactly while carrying one: the checks of
\* create_order, assign_driver and the dispatch, and every release, together.
THEOREM DriversCommitted == Spec => []DriverCommitted
<1>1. Init => Committed
  BY DEF Init, OrdersInit, NoOrder, Committed, Exclusive, AssignsActive, Carries, Active
<1>2. Committed => DriverCommitted
  <2> SUFFICES ASSUME Committed, ~stale, NEW d \in Drivers,
                      NEW carried, carried = {o \in Orders : Carries(d, o)}
               PROVE  Cardinality(carried) <= 1 /\ (driver[d] = "busy" <=> carried # {})
    BY DEF DriverCommitted, Carries
  <2>1. driver[d] = "busy" <=> carried # {}
    BY DEF Committed, Exclusive
  <2>2. CASE carried = {}
    BY <2>1, <2>2, FS_EmptySet
  <2>3. CASE carried # {}
    <3>1. PICK o \in Orders : carried = {o}
      BY <2>3 DEF Committed, Exclusive
    <3>2. Cardinality({o}) = 1
      BY FS_Singleton
    <3> QED  BY <2>1, <3>1, <3>2
  <2> QED  BY <2>2, <2>3
<1> QED  BY <1>1, <1>2, TypedAlways, CommittedNext, PTL DEF Spec
=============================================================================
