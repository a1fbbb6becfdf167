---------------------------- MODULE RentalProofs ----------------------------
(* Proofs about RentalService and, in the last part, RentalApi.            *)
EXTENDS RentalApi, TLAPS

\* Every step of the service keeps the types of the tables.
LEMMA TypeStep == TypeOK /\ [Next]_vars => TypeOK'
<1> SUFFICES ASSUME TypeOK, [Next]_vars PROVE TypeOK'
  OBVIOUS
<1> USE DEF TypeOK
<1>0. ASSUME NEW b \in Battery \cup {Null}, NEW s \in Station \cup {Null},
             NEW st \in {"available", "reserved", "deployed"},
             battery' = Placed(battery, b, st, s)
      PROVE  battery' \in [Battery -> BatteryRow]
  BY <1>0 DEF Placed, BatteryRow
<1>1. ASSUME NEW w \in Worker, NEW u \in User, NEW b \in Battery, NEW s \in Station,
             InitiateCleanup(w, u, b, s)
      PROVE  TypeOK'
  <2>1. rental' \in [Rental -> RentalRow]
    <3>1. \A row \in RentalRow : Cancelled(row) \in RentalRow
      BY DEF Cancelled, RentalRow, RentalStatus
    <3> QED  BY <1>1, <3>1 DEF InitiateCleanup, CleanupStale
  <2>2. battery' \in [Battery -> BatteryRow]
    <3>1. ASSUME NEW c \in Battery, \E r \in StaleOf(u) : rental[r].battery = c
          PROVE  StaleHome(u, c) \in Station \cup {Null}
      BY <3>1 DEF StaleOf, StaleHome, RentalRow
    <3> QED  BY <3>1, <1>1 DEF InitiateCleanup, CleanupStale, BatteryRow
  <2>3. req' \in [Worker -> ReqRow]
    BY <1>1 DEF InitiateCleanup, ReqRow
  <2> QED  BY <2>1, <2>2, <2>3, <1>1 DEF InitiateCleanup
<1>2. ASSUME NEW w \in Worker, InitiateCount(w) PROVE TypeOK'
  BY <1>2 DEF InitiateCount, ReqRow
<1>3. ASSUME NEW w \in Worker, NEW r \in Rental, NEW promo \in BOOLEAN, InitiateReserve(w, r, promo)
      PROVE  TypeOK'
  <2>1. req[w] \in ReqRow
    OBVIOUS
  <2>2. rental' \in [Rental -> RentalRow]
    BY <1>3, <2>1 DEF InitiateReserve, RentalRow, RentalStatus, ReqRow
  <2>3. battery' \in [Battery -> BatteryRow]
    BY <1>3, <1>0, <2>1 DEF InitiateReserve, ReqRow
  <2>4. req' \in [Worker -> ReqRow]
    BY <1>3 DEF InitiateReserve, ReqRow, Idle
  <2> QED  BY <1>3, <2>2, <2>3, <2>4 DEF InitiateReserve
<1>4. ASSUME NEW w \in Worker, InitiateRefuse(w) PROVE TypeOK'
  BY <1>4 DEF InitiateRefuse, Idle, ReqRow
<1>5. ASSUME NEW r \in Rental, PaymentWindowEnds(r) PROVE TypeOK'
  BY <1>5 DEF PaymentWindowEnds, RentalRow
<1>6. ASSUME NEW r \in Rental, NEW o \in Order, CreatePaymentOrder(r, o) PROVE TypeOK'
  BY <1>6 DEF CreatePaymentOrder, OrderRow
<1>7. ASSUME NEW r \in Rental, NEW o \in Order, CreatePaymentOrderLost(r, o) PROVE TypeOK'
  BY <1>7 DEF CreatePaymentOrderLost, OrderRow
<1>8. ASSUME NEW o \in Order, GatewayCapture(o) PROVE TypeOK'
  BY <1>8 DEF GatewayCapture, OrderRow
<1>9. ASSUME NEW r \in Rental, NEW s \in Station \cup {Null},
             NEW st \in {"available", "reserved", "deployed"},
             battery' = Placed(battery, rental[r].battery, st, s)
      PROVE  battery' \in [Battery -> BatteryRow]
  <2>1. rental[r].battery \in Battery \cup {Null}
    BY DEF RentalRow
  <2> QED  BY <1>0, <1>9, <2>1
<1>10. ASSUME NEW r \in Rental, NEW o \in Order, ConfirmVerified(r, o) PROVE TypeOK'
  <2>1. rental' \in [Rental -> RentalRow]
    BY <1>10 DEF ConfirmVerified, RentalRow, RentalStatus
  <2>2. order' \in [Order -> OrderRow]
    BY <1>10 DEF ConfirmVerified, OrderRow
  <2>3. battery' \in [Battery -> BatteryRow]
    BY <1>10, <1>9 DEF ConfirmVerified
  <2> QED  BY <2>1, <2>2, <2>3, <1>10 DEF ConfirmVerified
<1>11. ASSUME NEW r \in Rental, NEW s \in Station, ReturnBattery(r, s) PROVE TypeOK'
  <2>1. rental' \in [Rental -> RentalRow]
    BY <1>11 DEF ReturnBattery, RentalRow, RentalStatus
  <2>2. battery' \in [Battery -> BatteryRow]
    BY <1>11, <1>9 DEF ReturnBattery
  <2> QED  BY <2>1, <2>2, <1>11 DEF ReturnBattery
<1>12. ASSUME NEW r \in Rental, NEW s \in Station, NEW b \in Battery, ExecuteSwap(r, b, s)
       PROVE  TypeOK'
  <2>1. rental' \in [Rental -> RentalRow]
    BY <1>12 DEF ExecuteSwap, RentalRow
  <2>2. battery' \in [Battery -> BatteryRow]
    BY <1>12 DEF ExecuteSwap, Placed, BatteryRow
  <2> QED  BY <2>1, <2>2, <1>12 DEF ExecuteSwap
<1>13. CASE UNCHANGED vars
  BY <1>13 DEF vars
<1> QED
  BY <1>1, <1>2, <1>3, <1>4, <1>5, <1>6, <1>7, <1>8, <1>10, <1>11, <1>12, <1>13
  DEF Next, Initiate, Pay, Use

\* The initial rows have their types.
LEMMA TypeInit == Init => TypeOK
BY NullAssumption
DEF Init, TypeOK, NoRental, NoOrder, Idle, RentalRow, BatteryRow, OrderRow, ReqRow, RentalStatus

\* Every table keeps its type.
THEOREM TypeCorrect == Spec => []TypeOK
BY TypeInit, TypeStep, PTL DEF Spec

-----------------------------------------------------------------------------
(* Custody of the batteries.                                               *)

\* An initiate_rental call that is under way names a user, a battery and a station.
ReqNamed == \A w \in Worker : req[w].pc # "idle" => /\ req[w].user \in User
                                                    /\ req[w].battery \in Battery
                                                    /\ req[w].station \in Station

\* The inductive invariant: the four custody properties hold each other up.
Custody == /\ TypeOK /\ ReqNamed
           /\ HeldByOne /\ BatteryAgrees /\ NoPhantomBattery /\ ReservedForPending

\* A call under way keeps naming its user, battery and station.
LEMMA ReqNamedStep == TypeOK /\ ReqNamed /\ [Next]_vars => ReqNamed'
<1> SUFFICES ASSUME TypeOK, ReqNamed, [Next]_vars PROVE ReqNamed'
  OBVIOUS
<1> USE DEF ReqNamed
<1>1. ASSUME NEW w \in Worker, NEW u \in User, NEW b \in Battery, NEW s \in Station,
             InitiateCleanup(w, u, b, s)
      PROVE  ReqNamed'
  BY <1>1 DEF InitiateCleanup, TypeOK
<1>2. ASSUME NEW w \in Worker, InitiateCount(w) PROVE ReqNamed'
  BY <1>2 DEF InitiateCount, TypeOK, ReqRow
<1>3. ASSUME NEW w \in Worker, req' = [req EXCEPT ![w] = Idle] PROVE ReqNamed'
  BY <1>3 DEF Idle, TypeOK
<1>4. CASE UNCHANGED req
  BY <1>4
<1> QED
  BY <1>1, <1>2, <1>3, <1>4
  DEF Next, Initiate, Pay, Use, vars, InitiateReserve, InitiateRefuse, PaymentWindowEnds,
      CreatePaymentOrder, CreatePaymentOrderLost, GatewayCapture, ConfirmVerified, ReturnBattery,
      ExecuteSwap

\* Cancelling stale rentals releases exactly the batteries they reserved.
LEMMA CleanupCustody ==
    ASSUME Custody, NEW u \in User, CleanupStale(u)
    PROVE  (HeldByOne /\ BatteryAgrees /\ NoPhantomBattery /\ ReservedForPending)'
<1>1. \A r \in Rental : /\ rental'[r].battery = rental[r].battery
                        /\ rental'[r].station = rental[r].station
                        /\ rental'[r].status = IF r \in StaleOf(u) THEN "cancelled" ELSE rental[r].status
  <2> SUFFICES ASSUME NEW r \in Rental
               PROVE  /\ rental'[r].battery = rental[r].battery
                      /\ rental'[r].station = rental[r].station
                      /\ rental'[r].status = IF r \in StaleOf(u) THEN "cancelled" ELSE rental[r].status
    OBVIOUS
  <2>1. rental'[r] = IF r \in StaleOf(u) THEN Cancelled(rental[r]) ELSE rental[r]
    BY DEF CleanupStale
  <2> QED  BY <2>1 DEF Cancelled
<1>2. \A r \in StaleOf(u) : r \in Rental /\ rental[r].status = "pending_payment"
  BY DEF StaleOf
<1>3. \A b \in Battery : (\A r \in StaleOf(u) : rental[r].battery # b) => battery'[b] = battery[b]
  BY DEF CleanupStale
<1>4. \A b \in Battery : (\E r \in StaleOf(u) : rental[r].battery = b) => battery'[b].status = "available"
  <2> SUFFICES ASSUME NEW b \in Battery, NEW r \in StaleOf(u), rental[r].battery = b
               PROVE  battery'[b].status = "available"
    OBVIOUS
  <2>1. battery[b].status = "reserved"
    BY <1>2 DEF Custody, BatteryAgrees
  <2>2. battery'[b] = [status |-> "available", station |-> StaleHome(u, b)]
    BY <2>1 DEF CleanupStale
  <2> QED  BY <2>2
<1>5. HeldByOne'
  BY <1>1 DEF Custody, HeldByOne, Live
<1>6. BatteryAgrees'
  BY <1>1, <1>2, <1>3 DEF Custody, HeldByOne, BatteryAgrees, Live
<1>7. NoPhantomBattery'
  BY <1>1, <1>2, <1>3, <1>4 DEF Custody, NoPhantomBattery
<1>8. ReservedForPending'
  BY <1>1, <1>2, <1>3, <1>4 DEF Custody, ReservedForPending
<1> QED  BY <1>5, <1>6, <1>7, <1>8

\* Reserving a battery that no live rental names.
LEMMA ReserveCustody ==
    ASSUME Custody, NEW w \in Worker, NEW r \in Rental, NEW promo \in BOOLEAN, InitiateReserve(w, r, promo)
    PROVE  (HeldByOne /\ BatteryAgrees /\ NoPhantomBattery /\ ReservedForPending)'
<1> DEFINE b == req[w].battery
           s == req[w].station
<1>1. b \in Battery /\ s \in Station
  BY DEF InitiateReserve, Custody, ReqNamed
<1>2. /\ rental[r].status = "none"
      /\ rental'[r].status = "pending_payment" /\ rental'[r].battery = b /\ rental'[r].station = s
      /\ \A x \in Rental : x # r => rental'[x] = rental[x]
  BY DEF InitiateReserve, Custody, TypeOK
<1>3. /\ battery[b].status \in {"ready", "available"}
      /\ battery'[b] = [status |-> "reserved", station |-> s]
      /\ \A c \in Battery : c # b => battery'[c] = battery[c]
  BY <1>1 DEF InitiateReserve, Rentable, Placed, Custody, TypeOK
<1>4. \A x \in Rental : rental[x].battery = b => rental[x].status \notin Live
  BY DEF InitiateReserve, Rentable, LiveOn
<1> HIDE DEF b, s
<1>5. HeldByOne'
  BY <1>2, <1>4 DEF Custody, HeldByOne, Live
<1>6. BatteryAgrees'
  BY <1>1, <1>2, <1>3, <1>4 DEF Custody, BatteryAgrees, Live
<1>7. NoPhantomBattery'
  BY <1>1, <1>2, <1>3 DEF Custody, NoPhantomBattery
<1>8. ReservedForPending'
  BY <1>1, <1>2, <1>3 DEF Custody, ReservedForPending
<1> QED  BY <1>5, <1>6, <1>7, <1>8

\* Confirming turns the rental's own reservation into a deployment.
LEMMA ConfirmCustody ==
    ASSUME Custody, NEW r \in Rental, NEW o \in Order, ConfirmVerified(r, o)
    PROVE  (HeldByOne /\ BatteryAgrees /\ NoPhantomBattery /\ ReservedForPending)'
<1> DEFINE b == rental[r].battery
<1>1. b \in Battery /\ rental[r].status = "pending_payment"
  BY DEF ConfirmVerified, Custody, BatteryAgrees
<1>2. /\ rental'[r].status = "active" /\ rental'[r].battery = b
      /\ \A x \in Rental : x # r => rental'[x] = rental[x]
  BY DEF ConfirmVerified, Custody, TypeOK, RentalRow
<1>3. /\ battery'[b].status = "deployed"
      /\ \A c \in Battery : c # b => battery'[c] = battery[c]
  BY <1>1 DEF ConfirmVerified, Placed, Custody, TypeOK
<1>4. \A x \in Rental : x # r /\ rental[x].status \in Live => rental[x].battery # b
  BY <1>1 DEF Custody, HeldByOne, Live
<1> HIDE DEF b
<1>5. HeldByOne'
  BY <1>2, <1>4 DEF Custody, HeldByOne
<1>6. BatteryAgrees'
  BY <1>1, <1>2, <1>3, <1>4 DEF Custody, BatteryAgrees, Live
<1>7. NoPhantomBattery'
  BY <1>1, <1>2, <1>3 DEF Custody, NoPhantomBattery
<1>8. ReservedForPending'
  BY <1>1, <1>2, <1>3, <1>4 DEF Custody, ReservedForPending, b
<1> QED  BY <1>5, <1>6, <1>7, <1>8

\* Returning gives back the rental's own battery.
LEMMA ReturnCustody ==
    ASSUME Custody, NEW r \in Rental, NEW s \in Station, ReturnBattery(r, s)
    PROVE  (HeldByOne /\ BatteryAgrees /\ NoPhantomBattery /\ ReservedForPending)'
<1> DEFINE b == rental[r].battery
<1>1. b \in Battery /\ rental[r].status = "active"
  BY DEF ReturnBattery, Custody, BatteryAgrees
<1>2. /\ rental'[r].status = "completed"
      /\ \A x \in Rental : x # r => rental'[x] = rental[x]
  BY DEF ReturnBattery, Custody, TypeOK, RentalRow
<1>3. /\ battery'[b].status = "available"
      /\ \A c \in Battery : c # b => battery'[c] = battery[c]
  BY <1>1 DEF ReturnBattery, Placed, Custody, TypeOK
<1>4. \A x \in Rental : x # r /\ rental[x].status \in Live => rental[x].battery # b
  BY <1>1 DEF Custody, HeldByOne, Live
<1> HIDE DEF b
<1>5. HeldByOne'
  BY <1>2 DEF Custody, HeldByOne, Live
<1>6. BatteryAgrees'
  BY <1>1, <1>2, <1>3, <1>4 DEF Custody, BatteryAgrees, Live
<1>7. NoPhantomBattery'
  BY <1>1, <1>2, <1>3 DEF Custody, NoPhantomBattery, b
<1>8. ReservedForPending'
  BY <1>1, <1>2, <1>3 DEF Custody, ReservedForPending
<1> QED  BY <1>5, <1>6, <1>7, <1>8

\* A swap under the rental's lock exchanges two batteries.
LEMMA SwapCustody ==
    ASSUME Custody, NEW r \in Rental, NEW s \in Station, NEW new \in Battery, ExecuteSwap(r, new, s)
    PROVE  (HeldByOne /\ BatteryAgrees /\ NoPhantomBattery /\ ReservedForPending)'
<1> DEFINE b == rental[r].battery
<1>1. /\ b \in Battery /\ rental[r].status = "active"
      /\ battery[new].status = "available" /\ battery[b].status = "deployed"
  BY DEF ExecuteSwap, Custody, BatteryAgrees
<1>2. /\ rental'[r].status = "active" /\ rental'[r].battery = new
      /\ \A x \in Rental : x # r => rental'[x] = rental[x]
  BY <1>1 DEF ExecuteSwap, Custody, TypeOK, RentalRow
<1>3. /\ battery'[b].status = "available" /\ battery'[new].status = "deployed"
      /\ \A c \in Battery : c # b /\ c # new => battery'[c] = battery[c]
  <2>1. b # new
    BY <1>1
  <2>2. battery' = [[battery EXCEPT ![b] = [status |-> "available", station |-> s]]
                        EXCEPT ![new] = [status |-> "deployed", station |-> Null]]
    BY DEF ExecuteSwap, Placed
  <2>3. battery \in [Battery -> BatteryRow]
    BY DEF Custody, TypeOK
  <2> HIDE DEF b
  <2> QED  BY <1>1, <2>1, <2>2, <2>3
<1>4. \A x \in Rental : x # r /\ rental[x].status \in Live => rental[x].battery # b /\ rental[x].battery # new
  BY <1>1 DEF Custody, HeldByOne, BatteryAgrees, Live
<1> HIDE DEF b
<1>5. HeldByOne'
  BY <1>2, <1>4 DEF Custody, HeldByOne
<1>6. BatteryAgrees'
  <2> SUFFICES ASSUME NEW x \in Rental, x # r PROVE
        /\ rental[x].status = "pending_payment" =>
               /\ rental[x].battery \in Battery
               /\ battery'[rental[x].battery].status = "reserved"
               /\ battery'[rental[x].battery].station = rental[x].station
        /\ rental[x].status = "active" =>
               rental[x].battery \in Battery /\ battery'[rental[x].battery].status = "deployed"
    BY <1>2, <1>3 DEF BatteryAgrees
  <2>1. rental[x].status \in Live => rental[x].battery # b /\ rental[x].battery # new
    BY <1>4
  <2> QED  BY <2>1, <1>3 DEF Custody, BatteryAgrees, Live
<1>7. NoPhantomBattery'
  BY <1>1, <1>2, <1>3 DEF Custody, NoPhantomBattery, b
<1>8. ReservedForPending'
  BY <1>1, <1>2, <1>3 DEF Custody, ReservedForPending
<1> QED  BY <1>5, <1>6, <1>7, <1>8

\* Steps that leave status, battery and station of every rental alone.
LEMMA IdleCustody ==
    ASSUME Custody, UNCHANGED battery,
           \A r \in Rental : /\ rental'[r].status = rental[r].status
                             /\ rental'[r].battery = rental[r].battery
                             /\ rental'[r].station = rental[r].station
    PROVE  (HeldByOne /\ BatteryAgrees /\ NoPhantomBattery /\ ReservedForPending)'
<1>1. HeldByOne'
  BY DEF Custody, HeldByOne
<1>2. BatteryAgrees'
  BY DEF Custody, BatteryAgrees
<1>3. NoPhantomBattery' /\ ReservedForPending'
  BY DEF Custody, NoPhantomBattery, ReservedForPending
<1> QED  BY <1>1, <1>2, <1>3

LEMMA CustodyAlways == Spec => []Custody
<1>1. Init => Custody
  <2>1. Init => ReqNamed
    BY DEF Init, ReqNamed, Idle
  <2>2. Init => HeldByOne /\ BatteryAgrees /\ NoPhantomBattery /\ ReservedForPending
    BY DEF Init, HeldByOne, BatteryAgrees, NoPhantomBattery, ReservedForPending, NoRental, Live
  <2> QED  BY <2>1, <2>2, TypeInit DEF Custody
<1>2. Custody /\ TypeOK' /\ [Next]_vars => Custody'
  <2> SUFFICES ASSUME Custody, TypeOK', [Next]_vars
               PROVE  (HeldByOne /\ BatteryAgrees /\ NoPhantomBattery /\ ReservedForPending)'
    BY ReqNamedStep DEF Custody
  <2>1. ASSUME NEW w \in Worker, NEW u \in User, NEW b \in Battery, NEW s \in Station,
               InitiateCleanup(w, u, b, s)
        PROVE  (HeldByOne /\ BatteryAgrees /\ NoPhantomBattery /\ ReservedForPending)'
    BY <2>1, CleanupCustody DEF InitiateCleanup
  <2>2. CASE UNCHANGED <<rental, battery>>
    BY <2>2, IdleCustody
  <2>3. ASSUME NEW r \in Rental, PaymentWindowEnds(r)
        PROVE  (HeldByOne /\ BatteryAgrees /\ NoPhantomBattery /\ ReservedForPending)'
    <3>1. \A x \in Rental : /\ rental'[x].status = rental[x].status
                            /\ rental'[x].battery = rental[x].battery
                            /\ rental'[x].station = rental[x].station
      BY <2>3 DEF PaymentWindowEnds, Custody, TypeOK, RentalRow
    <3> QED  BY <2>3, <3>1, IdleCustody DEF PaymentWindowEnds
  <2> QED
    BY <2>1, <2>2, <2>3, ReserveCustody, ConfirmCustody, ReturnCustody, SwapCustody
    DEF Next, Initiate, Pay, Use, vars, InitiateCount, InitiateRefuse,
        CreatePaymentOrder, CreatePaymentOrderLost, GatewayCapture
<1> QED  BY <1>1, <1>2, TypeCorrect, PTL DEF Spec

\* A battery is held by at most one live rental: the row locks of RentalService
\* and execute_swap are enough, for any number of users, batteries, stations and
\* concurrent requests.
THEOREM BatteryCustody == Spec => []HeldByOne
<1>1. Custody => HeldByOne
  BY DEF Custody
<1> QED  BY <1>1, CustodyAlways, PTL

\* The battery row of a live rental says what the rental row says.
THEOREM RowsAgree == Spec => []BatteryAgrees
<1>1. Custody => BatteryAgrees
  BY DEF Custody
<1> QED  BY <1>1, CustodyAlways, PTL

\* No battery is out of its station without a rental that has it.
THEOREM NoneLost == Spec => []NoPhantomBattery
<1>1. Custody => NoPhantomBattery
  BY DEF Custody
<1> QED  BY <1>1, CustodyAlways, PTL

\* No battery stays reserved once the rental that reserved it is gone.
THEOREM ReservationsHaveRentals == Spec => []ReservedForPending
<1>1. Custody => ReservedForPending
  BY DEF Custody
<1> QED  BY <1>1, CustodyAlways, PTL

-----------------------------------------------------------------------------
(* Payments and the lifecycle.                                             *)

\* Every rental that was ever active was paid by exactly one order, also when
\* the customer paid superseded orders or paid after the timeout.
THEOREM PaidExactlyOnce == Spec => []PaidOnce
<1>1. Init => PaidOnce
  BY DEF Init, PaidOnce, NoRental, NoOrder, Settles
<1>2. TypeOK /\ PaidOnce /\ [Next]_vars => PaidOnce'
  <2> SUFFICES ASSUME TypeOK, PaidOnce, [Next]_vars PROVE PaidOnce'
    OBVIOUS
  <2>1. ASSUME \A o \in Order, r \in Rental : Settles(o, r)' <=> Settles(o, r),
               \A r \in Rental : rental'[r].status \in {"active", "completed"}
                                     <=> rental[r].status \in {"active", "completed"}
        PROVE  PaidOnce'
    BY <2>1 DEF PaidOnce
  <2>2. ASSUME NEW u \in User, CleanupStale(u), UNCHANGED order PROVE PaidOnce'
    <3>1. ASSUME NEW r \in Rental
          PROVE  rental'[r].status \in {"active", "completed"}
                     <=> rental[r].status \in {"active", "completed"}
      <4>1. rental'[r] = IF r \in StaleOf(u) THEN Cancelled(rental[r]) ELSE rental[r]
        BY <2>2 DEF CleanupStale
      <4>2. CASE r \in StaleOf(u)
        BY <4>1, <4>2 DEF Cancelled, StaleOf
      <4> QED  BY <4>1, <4>2
    <3> QED  BY <2>1, <2>2, <3>1 DEF Settles
  <2>3. ASSUME NEW w \in Worker, NEW r \in Rental, NEW promo \in BOOLEAN, InitiateReserve(w, r, promo)
        PROVE  PaidOnce'
    BY <2>1, <2>3 DEF InitiateReserve, TypeOK, Settles
  <2>4. ASSUME NEW r \in Rental, PaymentWindowEnds(r) PROVE PaidOnce'
    BY <2>1, <2>4 DEF PaymentWindowEnds, TypeOK, RentalRow, Settles
  <2>5. ASSUME NEW r \in Rental, NEW o \in Order, CreatePaymentOrder(r, o) PROVE PaidOnce'
    <3>1. ASSUME NEW p \in Order, NEW x \in Rental PROVE Settles(p, x)' <=> Settles(p, x)
      BY <2>5 DEF CreatePaymentOrder, Settles, NoOrder, TypeOK, OrderRow
    <3> QED  BY <2>1, <2>5, <3>1 DEF CreatePaymentOrder
  <2>6. ASSUME NEW r \in Rental, NEW o \in Order, CreatePaymentOrderLost(r, o) PROVE PaidOnce'
    <3>1. ASSUME NEW p \in Order, NEW x \in Rental PROVE Settles(p, x)' <=> Settles(p, x)
      BY <2>6 DEF CreatePaymentOrderLost, Settles, NoOrder, TypeOK, OrderRow
    <3> QED  BY <2>1, <2>6, <3>1 DEF CreatePaymentOrderLost
  <2>7. ASSUME NEW o \in Order, GatewayCapture(o) PROVE PaidOnce'
    <3>1. ASSUME NEW p \in Order, NEW x \in Rental PROVE Settles(p, x)' <=> Settles(p, x)
      BY <2>7 DEF GatewayCapture, Settles, TypeOK, OrderRow
    <3> QED  BY <2>1, <2>7, <3>1 DEF GatewayCapture
  <2>8. ASSUME NEW r \in Rental, NEW o \in Order, ConfirmVerified(r, o) PROVE PaidOnce'
    <3>1. ASSUME NEW p \in Order, NEW x \in Rental
          PROVE  Settles(p, x)' <=> Settles(p, x) \/ (p = o /\ x = r)
      BY <2>8 DEF ConfirmVerified, Settles, TypeOK, OrderRow
    <3>2. \A x \in Rental : rental'[x].status \in {"active", "completed"}
                                <=> rental[x].status \in {"active", "completed"} \/ x = r
      BY <2>8 DEF ConfirmVerified, TypeOK, RentalRow
    <3>3. \A p \in Order : ~Settles(p, r)
      BY <2>8 DEF ConfirmVerified, PaidOnce
    <3> QED  BY <3>1, <3>2, <3>3 DEF PaidOnce
  <2>9. ASSUME NEW r \in Rental, NEW s \in Station, ReturnBattery(r, s) PROVE PaidOnce'
    BY <2>1, <2>9 DEF ReturnBattery, TypeOK, RentalRow, Settles
  <2>10. ASSUME NEW r \in Rental, NEW s \in Station, NEW b \in Battery, ExecuteSwap(r, b, s)
         PROVE  PaidOnce'
    BY <2>1, <2>10 DEF ExecuteSwap, TypeOK, RentalRow, Settles
  <2>11. CASE UNCHANGED <<rental, order>>
    BY <2>1, <2>11 DEF Settles
  <2> QED
    BY <2>2, <2>3, <2>4, <2>5, <2>6, <2>7, <2>8, <2>9, <2>10, <2>11
    DEF Next, Initiate, Pay, Use, vars, InitiateCleanup, InitiateCount, InitiateRefuse
<1> QED  BY <1>1, <1>2, TypeCorrect, PTL DEF Spec

\* No step of the service takes a rental out of the documented lifecycle.
THEOREM LifecycleKept == Spec => Lifecycle
<1>1. TypeOK /\ [Next]_vars => [LifecycleStep]_vars
  <2> SUFFICES ASSUME TypeOK, Next PROVE LifecycleStep
    OBVIOUS
  <2>1. ASSUME NEW u \in User, CleanupStale(u), NEW r \in Rental
        PROVE  \/ rental'[r].status = rental[r].status
               \/ rental[r].status = "pending_payment" /\ rental'[r].status = "cancelled"
    <3>1. rental'[r] = IF r \in StaleOf(u) THEN Cancelled(rental[r]) ELSE rental[r]
      BY <2>1 DEF CleanupStale
    <3>2. CASE r \in StaleOf(u)
      BY <3>1, <3>2 DEF Cancelled, StaleOf
    <3> QED  BY <3>1, <3>2
  <2>2. ASSUME NEW u \in User, CleanupStale(u) PROVE LifecycleStep
    BY <2>1, <2>2 DEF LifecycleStep
  <2>3. CASE Pay
    BY <2>3 DEF Pay, CreatePaymentOrder, CreatePaymentOrderLost, GatewayCapture, ConfirmVerified,
               LifecycleStep, TypeOK, RentalRow
  <2>4. CASE Use
    BY <2>4 DEF Use, PaymentWindowEnds, ReturnBattery, ExecuteSwap, LifecycleStep, TypeOK, RentalRow
  <2>5. CASE Initiate
    BY <2>2, <2>5 DEF Initiate, InitiateCleanup, InitiateCount, InitiateReserve, InitiateRefuse,
               LifecycleStep, TypeOK
  <2> QED  BY <2>3, <2>4, <2>5 DEF Next
<1> QED  BY <1>1, TypeCorrect, PTL DEF Spec, Lifecycle

\* The promo counter stays within the code's limit, however many requests race
\* for the last slot: it is checked and written under the promo row's lock.
THEOREM PromoSlotsHold == Spec => []PromoWithinLimit
<1>1. Init => PromoWithinLimit
  BY LimitAssumption DEF Init, PromoWithinLimit
<1>2. TypeOK /\ PromoWithinLimit /\ [Next]_vars => PromoWithinLimit'
  <2> SUFFICES ASSUME TypeOK, PromoWithinLimit, [Next]_vars PROVE PromoWithinLimit'
    OBVIOUS
  <2>1. promoUsed \in Nat /\ PromoLimit \in Nat
    BY LimitAssumption DEF TypeOK
  <2>2. ASSUME NEW w \in Worker, NEW r \in Rental, NEW promo \in BOOLEAN, InitiateReserve(w, r, promo)
        PROVE  PromoWithinLimit'
    <3>1. CASE promo
      BY <2>1, <2>2, <3>1 DEF InitiateReserve, PromoOpen, PromoWithinLimit
    <3>2. CASE ~promo
      BY <2>2, <3>2 DEF InitiateReserve, PromoWithinLimit
    <3> QED  BY <3>1, <3>2
  <2>3. CASE UNCHANGED promoUsed
    BY <2>3 DEF PromoWithinLimit
  <2> QED
    BY <2>2, <2>3 DEF Next, Initiate, Pay, Use, InitiateCleanup, InitiateCount, InitiateRefuse,
       GatewayCapture, CreatePaymentOrder, CreatePaymentOrderLost, ConfirmVerified,
       PaymentWindowEnds, ReturnBattery, ExecuteSwap, vars
<1> QED  BY <1>1, <1>2, TypeCorrect, PTL DEF Spec

-----------------------------------------------------------------------------
(* The service implements Lending.                                         *)

\* A battery is in no station exactly while it is deployed.
Stands == \A b \in Battery : battery[b].station = Null <=> battery[b].status = "deployed"

\* Custody in terms of the claims on a battery.
LEMMA Claims ==
    ASSUME Custody
    PROVE  /\ \A b \in Battery : battery[b].status \in {"ready", "available"} => LiveOn(b) = {}
           /\ \A r \in Rental : rental[r].status \in Live =>
                  rental[r].battery \in Battery /\ LiveOn(rental[r].battery) = {r}
BY DEF Custody, BatteryAgrees, HeldByOne, LiveOn, Live

\* The clean-up puts a battery where it stands already.
LEMMA CleanupInPlace ==
    ASSUME Custody, NEW u \in User, CleanupStale(u)
    PROVE  /\ \A b \in Battery : (\E r \in StaleOf(u) : rental[r].battery = b) => battery[b].status = "reserved"
           /\ \A b \in Battery : battery'[b].station = battery[b].station
<1>1. \A r \in StaleOf(u) : r \in Rental /\ rental[r].status = "pending_payment"
  BY DEF StaleOf
<1>2. \A r \in StaleOf(u) : LET b == rental[r].battery
                            IN  battery[b].status = "reserved" /\ battery[b].station = rental[r].station
  BY <1>1 DEF Custody, BatteryAgrees
<1>3. ASSUME NEW b \in Battery, \E r \in StaleOf(u) : rental[r].battery = b
      PROVE  battery'[b].station = battery[b].station
  <2>1. StaleHome(u, b) = battery[b].station
    BY <1>2, <1>3 DEF StaleHome
  <2>2. battery'[b] = [status |-> "available", station |-> StaleHome(u, b)]
    BY <1>2, <1>3 DEF CleanupStale
  <2> QED  BY <2>1, <2>2
<1>4. ASSUME NEW b \in Battery, ~ \E r \in StaleOf(u) : rental[r].battery = b
      PROVE  battery'[b].station = battery[b].station
  BY <1>4 DEF CleanupStale
<1> QED  BY <1>2, <1>3, <1>4

\* What the steps that move a battery do to it, and to the claims on it.
LEMMA ReserveMoves ==
    ASSUME Custody, NEW w \in Worker, NEW r \in Rental, NEW promo \in BOOLEAN, InitiateReserve(w, r, promo)
    PROVE  \E b \in Battery :
              /\ battery[b].status \in {"ready", "available"} /\ battery[b].station \in Station
              /\ battery' = [battery EXCEPT ![b] = [status |-> "reserved", station |-> battery[b].station]]
              /\ \A c \in Battery : LiveOn(c)' = IF c = b THEN {r} ELSE LiveOn(c)
<1> DEFINE b == req[w].battery
<1>1. /\ b \in Battery /\ battery[b].status \in {"ready", "available"} /\ battery[b].station \in Station
      /\ battery' = [battery EXCEPT ![b] = [status |-> "reserved", station |-> battery[b].station]]
  BY DEF InitiateReserve, Rentable, Placed, Custody, ReqNamed
<1>2. /\ rental[r].status = "none"
      /\ rental'[r].status = "pending_payment" /\ rental'[r].battery = b
      /\ \A x \in Rental : x # r => rental'[x] = rental[x]
  BY DEF InitiateReserve, Custody, TypeOK
<1>3. LiveOn(b) = {}
  BY DEF InitiateReserve, Rentable
<1> HIDE DEF b
<1>4. \A c \in Battery : LiveOn(c)' = IF c = b THEN {r} ELSE LiveOn(c)
  BY <1>2, <1>3 DEF LiveOn, Live
<1> QED  BY <1>1, <1>4

LEMMA ConfirmMoves ==
    ASSUME Custody, NEW r \in Rental, NEW o \in Order, ConfirmVerified(r, o)
    PROVE  \E b \in Battery :
              /\ battery[b].status = "reserved" /\ LiveOn(b) = {r}
              /\ battery' = [battery EXCEPT ![b] = [status |-> "deployed", station |-> Null]]
              /\ \A c \in Battery : LiveOn(c)' = LiveOn(c)
<1> DEFINE b == rental[r].battery
<1>1. /\ b \in Battery /\ battery[b].status = "reserved" /\ LiveOn(b) = {r}
      /\ battery' = [battery EXCEPT ![b] = [status |-> "deployed", station |-> Null]]
  BY Claims DEF ConfirmVerified, Placed, Custody, BatteryAgrees, Live
<1>2. /\ rental[r].status = "pending_payment" /\ rental'[r].status = "active" /\ rental'[r].battery = b
      /\ \A x \in Rental : x # r => rental'[x] = rental[x]
  BY DEF ConfirmVerified, Custody, TypeOK, RentalRow
<1>3. \A c \in Battery : LiveOn(c)' = LiveOn(c)
  BY <1>2 DEF LiveOn, Live
<1> HIDE DEF b
<1> QED  BY <1>1, <1>3

LEMMA ReturnMoves ==
    ASSUME Custody, NEW r \in Rental, NEW s \in Station, ReturnBattery(r, s)
    PROVE  \E b \in Battery :
              /\ battery[b].status = "deployed"
              /\ battery' = [battery EXCEPT ![b] = [status |-> "available", station |-> s]]
              /\ \A c \in Battery : LiveOn(c)' = IF c = b THEN {} ELSE LiveOn(c)
<1> DEFINE b == rental[r].battery
<1>1. /\ b \in Battery /\ battery[b].status = "deployed" /\ LiveOn(b) = {r}
      /\ battery' = [battery EXCEPT ![b] = [status |-> "available", station |-> s]]
  BY Claims DEF ReturnBattery, Placed, Custody, BatteryAgrees, Live
<1>2. /\ rental[r].battery = b /\ rental'[r].status = "completed"
      /\ \A x \in Rental : x # r => rental'[x] = rental[x]
  BY DEF ReturnBattery, Custody, TypeOK, RentalRow
<1> HIDE DEF b
<1>3. \A c \in Battery : LiveOn(c)' = IF c = b THEN {} ELSE LiveOn(c)
  BY <1>1, <1>2 DEF LiveOn, Live
<1> QED  BY <1>1, <1>3

LEMMA SwapMoves ==
    ASSUME Custody, NEW r \in Rental, NEW s \in Station, NEW new \in Battery, ExecuteSwap(r, new, s)
    PROVE  \E b \in Battery :
              /\ battery[b].status = "deployed" /\ b # new
              /\ battery[new].station = s /\ LiveOn(new) = {}
              /\ \A c \in Battery : battery'[c] = CASE c = b -> [status |-> "available", station |-> s]
                                                     [] c = new -> [status |-> "deployed", station |-> Null]
                                                     [] OTHER -> battery[c]
              /\ \A c \in Battery : LiveOn(c)' = CASE c = b -> {} [] c = new -> LiveOn(b) [] OTHER -> LiveOn(c)
<1> DEFINE b == rental[r].battery
<1>1. /\ b \in Battery /\ battery[b].status = "deployed" /\ LiveOn(b) = {r}
      /\ battery[new].status = "available" /\ battery[new].station = s /\ LiveOn(new) = {}
  BY Claims DEF ExecuteSwap, Custody, BatteryAgrees, Live
<1>2. battery' = [[battery EXCEPT ![b] = [status |-> "available", station |-> s]]
                      EXCEPT ![new] = [status |-> "deployed", station |-> Null]]
  BY DEF ExecuteSwap, Placed
<1>3. battery \in [Battery -> BatteryRow]
  BY DEF Custody, TypeOK
<1>4. /\ rental[r].battery = b /\ rental[r].status = "active"
      /\ rental'[r].status = "active" /\ rental'[r].battery = new
      /\ \A x \in Rental : x # r => rental'[x] = rental[x]
  BY DEF ExecuteSwap, Custody, TypeOK, RentalRow
<1> HIDE DEF b
<1>5. b # new
  BY <1>1
<1>6. \A c \in Battery : battery'[c] = CASE c = b -> [status |-> "available", station |-> s]
                                         [] c = new -> [status |-> "deployed", station |-> Null]
                                         [] OTHER -> battery[c]
  BY <1>1, <1>2, <1>3, <1>5
<1>7. \A c \in Battery : LiveOn(c)' = CASE c = b -> {} [] c = new -> LiveOn(b) [] OTHER -> LiveOn(c)
  BY <1>1, <1>4, <1>5 DEF LiveOn, Live
<1> QED  BY <1>1, <1>5, <1>6, <1>7

LEMMA StandsAlways == Spec => []Stands
<1>1. Init => Stands
  BY NullAssumption DEF Init, Stands
<1>2. Custody /\ Stands /\ [Next]_vars => Stands'
  <2> SUFFICES ASSUME Custody, Stands, [Next]_vars PROVE Stands'
    OBVIOUS
  <2>1. battery \in [Battery -> BatteryRow]
    BY DEF Custody, TypeOK
  <2>2. ASSUME NEW w \in Worker, NEW u \in User, NEW b \in Battery, NEW s \in Station,
               InitiateCleanup(w, u, b, s)
        PROVE  Stands'
    <3>1. CleanupStale(u)
      BY <2>2 DEF InitiateCleanup
    <3>2. \A c \in Battery : \/ battery'[c] = battery[c]
                             \/ battery[c].status = "reserved" /\ battery'[c].status = "available"
      BY <3>1 DEF CleanupStale
    <3> QED  BY <3>1, <3>2, CleanupInPlace DEF Stands
  <2>3. ASSUME NEW w \in Worker, NEW r \in Rental, NEW promo \in BOOLEAN, InitiateReserve(w, r, promo)
        PROVE  Stands'
    BY <2>1, <2>3, ReserveMoves, NullAssumption DEF Stands
  <2>4. ASSUME NEW r \in Rental, NEW o \in Order, ConfirmVerified(r, o) PROVE Stands'
    BY <2>1, <2>4, ConfirmMoves DEF Stands
  <2>5. ASSUME NEW r \in Rental, NEW s \in Station, ReturnBattery(r, s) PROVE Stands'
    BY <2>1, <2>5, ReturnMoves, NullAssumption DEF Stands
  <2>6. ASSUME NEW r \in Rental, NEW s \in Station, NEW new \in Battery, ExecuteSwap(r, new, s) PROVE Stands'
    <3>1. PICK b \in Battery : \A c \in Battery :
              battery'[c] = CASE c = b -> [status |-> "available", station |-> s]
                              [] c = new -> [status |-> "deployed", station |-> Null]
                              [] OTHER -> battery[c]
      BY <2>6, SwapMoves
    <3> QED  BY <3>1, NullAssumption DEF Stands
  <2>7. CASE UNCHANGED battery
    BY <2>7 DEF Stands
  <2> QED
    BY <2>2, <2>3, <2>4, <2>5, <2>6, <2>7
    DEF Next, Initiate, Pay, Use, vars, InitiateCount, InitiateRefuse, PaymentWindowEnds,
        CreatePaymentOrder, CreatePaymentOrderLost, GatewayCapture
<1> QED  BY <1>1, <1>2, CustodyAlways, PTL DEF Spec

\* Nothing is rented and every battery stands at its station at the start.
LEMMA LendingInit == Init => Desk!Init
BY DEF Init, Desk!Init, LiveOn, NoRental, Live

\* Every step of the service is a step of the lending desk, or none.
LEMMA LendingStep == Custody /\ Stands /\ [Next]_vars => [Desk!Next]_(Desk!lendingVars)
<1> SUFFICES ASSUME Custody, Stands, [Next]_vars PROVE [Desk!Next]_(Desk!lendingVars)
  OBVIOUS
<1>1. battery \in [Battery -> BatteryRow] /\ rental \in [Rental -> RentalRow] /\ TypeOK
  BY DEF Custody, TypeOK
<1> DEFINE claim == [b \in Battery |-> LiveOn(b)]
           place == [b \in Battery |-> battery[b].station]
           opened == {r \in Rental : rental[r].status # "none"}
<1>2. ASSUME NEW w \in Worker, NEW u \in User, NEW b \in Battery, NEW s \in Station, InitiateCleanup(w, u, b, s)
      PROVE  Desk!Next
  <2> DEFINE B == {c \in Battery : \E r \in StaleOf(u) : rental[r].battery = c}
  <2>1. CleanupStale(u)
    BY <1>2 DEF InitiateCleanup
  <2>2. \A r \in Rental : /\ rental'[r].battery = rental[r].battery
                          /\ rental'[r].status = IF r \in StaleOf(u) THEN "cancelled" ELSE rental[r].status
    <3> SUFFICES ASSUME NEW r \in Rental
                 PROVE  /\ rental'[r].battery = rental[r].battery
                        /\ rental'[r].status = IF r \in StaleOf(u) THEN "cancelled" ELSE rental[r].status
      OBVIOUS
    <3>1. rental'[r] = IF r \in StaleOf(u) THEN Cancelled(rental[r]) ELSE rental[r]
      BY <2>1 DEF CleanupStale
    <3> QED  BY <3>1 DEF Cancelled
  <2>3. \A r \in StaleOf(u) : r \in Rental /\ rental[r].status = "pending_payment" /\ LiveOn(rental[r].battery) = {r}
    BY Claims DEF StaleOf, Live
  <2>4. \A c \in Battery : LiveOn(c)' = IF c \in B THEN {} ELSE LiveOn(c)
    BY <2>2, <2>3 DEF LiveOn, Live
  <2>5. \A c \in B : LiveOn(c) # {} /\ battery[c].station # Null
    BY <2>1, <2>3, CleanupInPlace DEF Stands
  <2>6. place' = place
    BY <2>1, CleanupInPlace
  <2>7. opened' = opened
    BY <2>2, <2>3
  <2>8. B \in SUBSET Battery
    OBVIOUS
  <2> HIDE DEF B
  <2>9. Desk!GiveUp(B)
    BY <2>4, <2>5, <2>6, <2>7, <2>8 DEF Desk!GiveUp
  <2> QED  BY <2>8, <2>9 DEF Desk!Next
<1>3. ASSUME NEW w \in Worker, NEW r \in Rental, NEW promo \in BOOLEAN, InitiateReserve(w, r, promo)
      PROVE  Desk!Next
  <2>1. PICK b \in Battery :
              /\ battery[b].status \in {"ready", "available"} /\ battery[b].station \in Station
              /\ battery' = [battery EXCEPT ![b] = [status |-> "reserved", station |-> battery[b].station]]
              /\ \A c \in Battery : LiveOn(c)' = IF c = b THEN {r} ELSE LiveOn(c)
    BY <1>3, ReserveMoves
  <2>2. LiveOn(b) = {} /\ battery[b].station # Null
    BY <2>1, Claims DEF Stands
  <2>3. place' = place
    BY <1>1, <2>1
  <2>4. r \notin opened /\ opened' = opened \cup {r}
    BY <1>1, <1>3 DEF InitiateReserve
  <2>5. claim' = [claim EXCEPT ![b] = {r}]
    BY <2>1
  <2>6. Desk!Claim(b, r)
    BY <2>2, <2>3, <2>4, <2>5 DEF Desk!Claim
  <2> QED  BY <2>6 DEF Desk!Next
<1>4. ASSUME NEW r \in Rental, NEW o \in Order, ConfirmVerified(r, o) PROVE Desk!Next
  <2>1. PICK b \in Battery :
              /\ battery[b].status = "reserved" /\ LiveOn(b) = {r}
              /\ battery' = [battery EXCEPT ![b] = [status |-> "deployed", station |-> Null]]
              /\ \A c \in Battery : LiveOn(c)' = LiveOn(c)
    BY <1>4, ConfirmMoves
  <2>2. battery[b].station # Null
    BY <2>1 DEF Stands
  <2>3. place' = [place EXCEPT ![b] = Null]
    BY <1>1, <2>1
  <2>4. opened' = opened
    BY <1>1, <1>4 DEF ConfirmVerified
  <2>5. Desk!HandOut(b)
    BY <2>1, <2>2, <2>3, <2>4 DEF Desk!HandOut
  <2> QED  BY <2>5 DEF Desk!Next
<1>5. ASSUME NEW r \in Rental, NEW s \in Station, ReturnBattery(r, s) PROVE Desk!Next
  <2>1. PICK b \in Battery :
              /\ battery[b].status = "deployed"
              /\ battery' = [battery EXCEPT ![b] = [status |-> "available", station |-> s]]
              /\ \A c \in Battery : LiveOn(c)' = IF c = b THEN {} ELSE LiveOn(c)
    BY <1>5, ReturnMoves
  <2>2. battery[b].station = Null
    BY <2>1 DEF Stands
  <2>3. place' = [place EXCEPT ![b] = s] /\ claim' = [claim EXCEPT ![b] = {}]
    BY <1>1, <2>1
  <2>4. opened' = opened
    BY <1>1, <1>5 DEF ReturnBattery
  <2>5. Desk!BringBack(b, s)
    BY <2>2, <2>3, <2>4 DEF Desk!BringBack
  <2> QED  BY <2>5 DEF Desk!Next
<1>6. ASSUME NEW r \in Rental, NEW s \in Station, NEW new \in Battery, ExecuteSwap(r, new, s) PROVE Desk!Next
  <2>1. PICK b \in Battery :
              /\ battery[b].status = "deployed" /\ b # new
              /\ battery[new].station = s /\ LiveOn(new) = {}
              /\ \A c \in Battery : battery'[c] = CASE c = b -> [status |-> "available", station |-> s]
                                                     [] c = new -> [status |-> "deployed", station |-> Null]
                                                     [] OTHER -> battery[c]
              /\ \A c \in Battery : LiveOn(c)' = CASE c = b -> {} [] c = new -> LiveOn(b) [] OTHER -> LiveOn(c)
    BY <1>6, SwapMoves
  <2>2. battery[b].station = Null
    BY <2>1 DEF Stands
  <2>3. place' = [place EXCEPT ![b] = s, ![new] = Null]
    <3>1. \A c \in Battery : battery'[c].station =
                IF c = b THEN s ELSE IF c = new THEN Null ELSE battery[c].station
      BY <2>1
    <3>2. place' = [c \in Battery |-> IF c = b THEN s ELSE IF c = new THEN Null ELSE battery[c].station]
      BY <3>1
    <3> QED  BY <2>1, <3>2
  <2>4. claim' = [claim EXCEPT ![b] = {}, ![new] = claim[b]]
    BY <2>1
  <2>5. opened' = opened
    BY <1>1, <1>6 DEF ExecuteSwap
  <2>6. Desk!Exchange(b, new, s)
    BY <2>1, <2>2, <2>3, <2>4, <2>5 DEF Desk!Exchange
  <2> QED  BY <2>6 DEF Desk!Next
<1>7. ASSUME NEW r \in Rental, PaymentWindowEnds(r) PROVE UNCHANGED Desk!lendingVars
  <2>1. battery' = battery /\ \A x \in Rental : rental'[x].status = rental[x].status /\ rental'[x].battery = rental[x].battery
    BY <1>1, <1>7 DEF PaymentWindowEnds, RentalRow
  <2> QED  BY <2>1 DEF Desk!lendingVars, LiveOn
<1>8. CASE UNCHANGED <<rental, battery>>
  BY <1>8 DEF Desk!lendingVars, LiveOn
<1> QED
  BY <1>2, <1>3, <1>4, <1>5, <1>6, <1>7, <1>8
  DEF Next, Initiate, Pay, Use, vars, InitiateCount, InitiateRefuse,
      CreatePaymentOrder, CreatePaymentOrderLost, GatewayCapture

\* The service layer implements the lending desk, for any number of users,
\* stations, batteries and concurrent requests.
THEOREM RentalsAreLoans == Spec => ImplementsLending
<1>1. Spec => Desk!Spec
  BY LendingInit, LendingStep, CustodyAlways, StandsAlways, PTL DEF Spec, Desk!Spec
<1> QED  BY <1>1 DEF ImplementsLending

-----------------------------------------------------------------------------
(* The routes.                                                             *)

\* The sessions and the swap requests in flight refer to rentals that have left
\* pending_payment, and no route ever takes a rental back there.
SwapsPastPayment ==
    /\ \A x \in Swap : swap[x].status = "initiated" => swap[x].rental \in Rental
    /\ \A w \in Worker : call[w].op \in {"swap_initiate", "swap_complete"} => call[w].rental \in Rental
    /\ \A w \in Worker : call[w].op = "swap_complete" =>
           rental[call[w].rental].status \notin {"none", "pending_payment"}

ApiInv == ApiTypeOK /\ SwapsPastPayment /\ PendingExclusive

\* Writing the status of one rental, as confirm_rental and terminate_rental do,
\* keeps the table of rentals well typed, whichever key is written.
LEMMA StatusTyped ==
    ASSUME NEW rows \in [Rental -> RentalRow], NEW k, NEW st \in RentalStatus
    PROVE  [rows EXCEPT ![k].status = st] \in [Rental -> RentalRow]
<1> DEFINE new == [rows EXCEPT ![k].status = st]
<1>1. ASSUME NEW r \in Rental PROVE new[r] \in RentalRow
  <2>1. rows[r] \in RentalRow
    OBVIOUS
  <2>2. new[r] = IF r = k THEN [rows[r] EXCEPT !.status = st] ELSE rows[r]
    OBVIOUS
  <2> HIDE DEF new
  <2> QED  BY <2>1, <2>2 DEF RentalRow
<1> QED  BY <1>1

\* Likewise for the battery, which execute_swap writes.
LEMMA BatteryTyped ==
    ASSUME NEW rows \in [Rental -> RentalRow], NEW k, NEW b \in Battery \cup {Null}
    PROVE  [rows EXCEPT ![k].battery = b] \in [Rental -> RentalRow]
<1> DEFINE new == [rows EXCEPT ![k].battery = b]
<1>1. ASSUME NEW r \in Rental PROVE new[r] \in RentalRow
  <2>1. rows[r] \in RentalRow
    OBVIOUS
  <2>2. new[r] = IF r = k THEN [rows[r] EXCEPT !.battery = b] ELSE rows[r]
    OBVIOUS
  <2> HIDE DEF new
  <2> QED  BY <2>1, <2>2 DEF RentalRow
<1> QED  BY <1>1

\* The rows of the endpoint requests and of the sessions keep their types.
LEMMA ApiTypeStep == ApiTypeOK /\ SwapsPastPayment /\ [ApiNext]_apiVars => ApiTypeOK'
<1> SUFFICES ASSUME ApiTypeOK, SwapsPastPayment, [ApiNext]_apiVars PROVE ApiTypeOK'
  OBVIOUS
<1>0. TypeOK /\ swap \in [Swap -> SwapRow] /\ call \in [Worker -> CallRow]
  BY DEF ApiTypeOK
<1>1. CASE CreateOrReturn
  BY <1>0, <1>1, TypeStep DEF CreateOrReturn, Next, Use, ApiTypeOK
<1>2. ASSUME NEW r \in Rental, ConfirmRental(r) PROVE ApiTypeOK'
  <2>1. rental' \in [Rental -> RentalRow]
    <3>1. rental' = [rental EXCEPT ![r].status = "active"]
      BY <1>2 DEF ConfirmRental
    <3>2. "active" \in RentalStatus
      BY DEF RentalStatus
    <3> QED  BY <1>0, <3>1, <3>2, StatusTyped DEF TypeOK
  <2> QED  BY <1>0, <1>2, <2>1 DEF ConfirmRental, TypeOK, ApiTypeOK
<1>3. ASSUME NEW w \in Worker, NEW r \in Rental, TerminateRead(w, r) PROVE ApiTypeOK'
  BY <1>0, <1>3 DEF TerminateRead, CallRow, ApiTypeOK, TypeOK, vars
<1>4. ASSUME NEW w \in Worker, TerminateCommit(w) PROVE ApiTypeOK'
  <2>1. rental' \in [Rental -> RentalRow]
    <3>1. rental' = [rental EXCEPT ![call[w].rental].status = "cancelled"]
      BY <1>4 DEF TerminateCommit
    <3>2. "cancelled" \in RentalStatus
      BY DEF RentalStatus
    <3> QED  BY <1>0, <3>1, <3>2, StatusTyped DEF TypeOK
  <2>2. call' \in [Worker -> CallRow]
    BY <1>0, <1>4 DEF TerminateCommit, CallRow, NoCall
  <2> QED  BY <1>0, <1>4, <2>1, <2>2 DEF TerminateCommit, TypeOK, ApiTypeOK
<1>5. ASSUME NEW w \in Worker, NEW r \in Rental, NEW s \in Station, NEW b \in Battery,
             SwapInitiateRead(w, r, s, b)
      PROVE  ApiTypeOK'
  BY <1>0, <1>5 DEF SwapInitiateRead, CallRow, ApiTypeOK, TypeOK, vars
<1>6. ASSUME NEW w \in Worker, NEW x \in Swap, SwapInitiateCommit(w, x) PROVE ApiTypeOK'
  <2>1. call[w] \in CallRow
    BY <1>0
  <2>2. swap' \in [Swap -> SwapRow]
    BY <1>0, <1>6, <2>1 DEF SwapInitiateCommit, SwapRow, CallRow
  <2>3. call' \in [Worker -> CallRow]
    BY <1>0, <1>6 DEF SwapInitiateCommit, CallRow, NoCall
  <2> QED  BY <1>0, <1>6, <2>2, <2>3 DEF SwapInitiateCommit, ApiTypeOK, TypeOK, vars
<1>7. ASSUME NEW w \in Worker, NEW x \in Swap, NEW b \in Battery, SwapCompleteRead(w, x, b)
      PROVE  ApiTypeOK'
  <2>1. swap[x].rental \in Rental
    BY <1>7 DEF SwapCompleteRead, SwapsPastPayment
  <2>2. rental[swap[x].rental].battery \in Battery \cup {Null} /\ swap[x].station \in Station \cup {Null}
    BY <1>0, <2>1 DEF TypeOK, RentalRow, SwapRow
  <2>3. call' \in [Worker -> CallRow]
    BY <1>0, <1>7, <2>1, <2>2 DEF SwapCompleteRead, CallRow
  <2> QED  BY <1>0, <1>7, <2>3 DEF SwapCompleteRead, ApiTypeOK, TypeOK, vars
<1>8. ASSUME NEW w \in Worker, SwapCompleteCommit(w) PROVE ApiTypeOK'
  <2>1. call[w] \in CallRow
    BY <1>0
  <2>2. /\ call[w].rental \in Rental \cup {Null} /\ call[w].swap \in Swap \cup {Null}
        /\ call[w].station \in Station \cup {Null}
        /\ call[w].new \in Battery \cup {Null} /\ call[w].old \in Battery \cup {Null}
    BY <2>1 DEF CallRow
  <2>3. rental' \in [Rental -> RentalRow]
    <3>1. \/ rental' = rental
          \/ rental' = [rental EXCEPT ![call[w].rental].battery = call[w].new]
      BY <1>8 DEF SwapCompleteCommit
    <3> QED  BY <1>0, <2>2, <3>1, BatteryTyped DEF TypeOK
  <2>4. battery' \in [Battery -> BatteryRow]
    BY <1>0, <1>8, <2>2 DEF SwapCompleteCommit, TypeOK, BatteryRow, Placed
  <2>5. swap' \in [Swap -> SwapRow]
    <3>1. swap' = [swap EXCEPT ![call[w].swap].status = "completed", ![call[w].swap].new = call[w].new]
      BY <1>8 DEF SwapCompleteCommit
    <3>2. ASSUME NEW x \in Swap PROVE swap'[x] \in SwapRow
      <4>1. swap[x] \in SwapRow
        BY <1>0
      <4>2. swap'[x] = IF x = call[w].swap
                       THEN [swap[x] EXCEPT !.status = "completed", !.new = call[w].new]
                       ELSE swap[x]
        BY <1>0, <3>1
      <4> QED  BY <2>2, <4>1, <4>2 DEF SwapRow
    <3> QED  BY <1>0, <3>1, <3>2
  <2>6. call' \in [Worker -> CallRow]
    BY <1>0, <1>8 DEF SwapCompleteCommit, CallRow, NoCall
  <2> QED  BY <1>0, <1>8, <2>3, <2>4, <2>5, <2>6 DEF SwapCompleteCommit, ApiTypeOK, TypeOK
<1>9. ASSUME NEW w \in Worker, CallFails(w) PROVE ApiTypeOK'
  BY <1>0, <1>9 DEF CallFails, CallRow, NoCall, ApiTypeOK, TypeOK, vars
<1>10. CASE UNCHANGED apiVars
  BY <1>0, <1>10 DEF apiVars, vars, ApiTypeOK, TypeOK
<1> QED
  BY <1>1, <1>2, <1>3, <1>4, <1>5, <1>6, <1>7, <1>8, <1>9, <1>10
  DEF ApiNext, Terminate, SwapInitiate, SwapComplete

\* How create and return change the rentals: a rental in pending_payment comes
\* from initiate_rental, on a battery without live rentals, and one past
\* payment stays past payment.
LEMMA CreateOrReturnRentals ==
    ASSUME TypeOK, PendingExclusive, CreateOrReturn
    PROVE  /\ PendingExclusive'
           /\ \A r \in Rental : rental[r].status \notin {"none", "pending_payment"} =>
                  rental'[r].status \notin {"none", "pending_payment"}
<1>1. ASSUME NEW u \in User, CleanupStale(u), NEW r \in Rental
      PROVE  /\ rental'[r].battery = rental[r].battery
             /\ rental'[r].status = rental[r].status \/ rental'[r].status = "cancelled"
  <2>1. rental'[r] = IF r \in StaleOf(u) THEN Cancelled(rental[r]) ELSE rental[r]
    BY <1>1 DEF CleanupStale
  <2> QED  BY <2>1 DEF Cancelled
<1>2. CASE \E u \in User : CleanupStale(u)
  BY <1>1, <1>2 DEF PendingExclusive
<1>3. ASSUME NEW w \in Worker, NEW r \in Rental, NEW promo \in BOOLEAN, InitiateReserve(w, r, promo)
      PROVE  /\ PendingExclusive'
             /\ \A x \in Rental : rental[x].status \notin {"none", "pending_payment"} =>
                    rental'[x].status \notin {"none", "pending_payment"}
  <2> DEFINE b == req[w].battery
  <2>1. /\ rental[r].status = "none"
        /\ rental'[r].status = "pending_payment" /\ rental'[r].battery = b
        /\ \A x \in Rental : x # r => rental'[x] = rental[x]
    BY <1>3 DEF InitiateReserve, TypeOK
  <2>2. \A x \in Rental : rental[x].battery = b => rental[x].status # "pending_payment"
    BY <1>3 DEF InitiateReserve, Rentable, LiveOn, Live
  <2> HIDE DEF b
  <2> QED  BY <2>1, <2>2 DEF PendingExclusive
<1>4. ASSUME NEW r \in Rental, PaymentWindowEnds(r)
      PROVE  \A x \in Rental : rental'[x].battery = rental[x].battery /\ rental'[x].status = rental[x].status
  BY <1>4 DEF PaymentWindowEnds, TypeOK, RentalRow
<1>5. ASSUME NEW r \in Rental, NEW s \in Station, ReturnBattery(r, s)
      PROVE  \A x \in Rental : /\ rental'[x].battery = rental[x].battery
                               /\ rental'[x].status = rental[x].status \/ rental'[x].status = "completed"
  BY <1>5 DEF ReturnBattery, TypeOK, RentalRow
<1>6. CASE \E r \in Rental : PaymentWindowEnds(r)
  BY <1>4, <1>6 DEF PendingExclusive
<1>7. CASE \E r \in Rental, s \in Station : ReturnBattery(r, s)
  BY <1>5, <1>7 DEF PendingExclusive
<1>8. CASE UNCHANGED rental
  BY <1>8 DEF PendingExclusive
<1> QED
  BY <1>2, <1>3, <1>6, <1>7, <1>8
  DEF CreateOrReturn, Initiate, InitiateCleanup, InitiateCount, InitiateRefuse

LEMMA ApiInvAlways == ApiSpec => []ApiInv
<1>1. ApiInit => ApiInv
  BY TypeInit DEF ApiInit, Init, ApiInv, ApiTypeOK, SwapsPastPayment, PendingExclusive, NoSwap, NoCall,
                  NoRental, SwapRow, CallRow
<1>2. ApiInv /\ [ApiNext]_apiVars => ApiInv'
  <2> SUFFICES ASSUME ApiInv, [ApiNext]_apiVars PROVE (SwapsPastPayment /\ PendingExclusive)'
    BY ApiTypeStep DEF ApiInv
  <2> USE DEF ApiInv
  <2>0. /\ rental \in [Rental -> RentalRow] /\ swap \in [Swap -> SwapRow]
        /\ call \in [Worker -> CallRow] /\ TypeOK
    BY DEF ApiTypeOK, TypeOK
  <2>1. CASE CreateOrReturn
    BY <2>0, <2>1, CreateOrReturnRentals DEF CreateOrReturn, SwapsPastPayment
  <2>2. ASSUME NEW r \in Rental, ConfirmRental(r) PROVE (SwapsPastPayment /\ PendingExclusive)'
    <3>1. \A x \in Rental : /\ rental'[x].battery = rental[x].battery
                            /\ rental'[x].status = rental[x].status \/ rental'[x].status = "active"
      BY <2>0, <2>2 DEF ConfirmRental, RentalRow
    <3> QED  BY <2>2, <3>1 DEF ConfirmRental, SwapsPastPayment, PendingExclusive
  <2>3. ASSUME NEW w \in Worker, TerminateCommit(w) PROVE (SwapsPastPayment /\ PendingExclusive)'
    <3>1. \A x \in Rental : /\ rental'[x].battery = rental[x].battery
                            /\ rental'[x].status = rental[x].status \/ rental'[x].status = "cancelled"
      BY <2>0, <2>3 DEF TerminateCommit, RentalRow
    <3>2. \A v \in Worker : call'[v] = call[v] \/ call'[v].op = "none"
      BY <2>0, <2>3 DEF TerminateCommit, NoCall
    <3> QED  BY <2>3, <3>1, <3>2 DEF TerminateCommit, SwapsPastPayment, PendingExclusive
  <2>4. ASSUME NEW w \in Worker, NEW r \in Rental, TerminateRead(w, r)
        PROVE  (SwapsPastPayment /\ PendingExclusive)'
    <3>1. \A v \in Worker : call'[v] = call[v] \/ call'[v].op = "terminate"
      BY <2>0, <2>4 DEF TerminateRead
    <3> QED  BY <2>4, <3>1 DEF TerminateRead, SwapsPastPayment, PendingExclusive, vars
  <2>5. ASSUME NEW w \in Worker, NEW r \in Rental, NEW s \in Station, NEW b \in Battery,
               SwapInitiateRead(w, r, s, b)
        PROVE  (SwapsPastPayment /\ PendingExclusive)'
    <3>1. \A v \in Worker : \/ call'[v] = call[v]
                            \/ call'[v].op = "swap_initiate" /\ call'[v].rental = r
      BY <2>0, <2>5 DEF SwapInitiateRead
    <3> QED  BY <2>5, <3>1 DEF SwapInitiateRead, SwapsPastPayment, PendingExclusive, vars
  <2>6. ASSUME NEW w \in Worker, NEW x \in Swap, SwapInitiateCommit(w, x)
        PROVE  (SwapsPastPayment /\ PendingExclusive)'
    <3>1. call[w].rental \in Rental
      BY <2>6 DEF SwapInitiateCommit, SwapsPastPayment
    <3>2. \A y \in Swap : swap'[y] = swap[y] \/ swap'[y].rental = call[w].rental
      BY <2>0, <2>6 DEF SwapInitiateCommit
    <3>3. \A v \in Worker : call'[v] = call[v] \/ call'[v].op = "none"
      BY <2>0, <2>6 DEF SwapInitiateCommit, NoCall
    <3> QED  BY <2>6, <3>1, <3>2, <3>3 DEF SwapInitiateCommit, SwapsPastPayment, PendingExclusive, vars
  <2>7. ASSUME NEW w \in Worker, NEW x \in Swap, NEW b \in Battery, SwapCompleteRead(w, x, b)
        PROVE  (SwapsPastPayment /\ PendingExclusive)'
    <3>1. swap[x].rental \in Rental /\ rental[swap[x].rental].status = "active"
      BY <2>7 DEF SwapCompleteRead, SwapsPastPayment
    <3>2. \A v \in Worker : \/ call'[v] = call[v]
                            \/ call'[v].op = "swap_complete" /\ call'[v].rental = swap[x].rental
      BY <2>0, <2>7 DEF SwapCompleteRead
    <3> QED  BY <2>7, <3>1, <3>2 DEF SwapCompleteRead, SwapsPastPayment, PendingExclusive, vars
  <2>8. ASSUME NEW w \in Worker, SwapCompleteCommit(w) PROVE (SwapsPastPayment /\ PendingExclusive)'
    <3>1. \A x \in Rental : /\ rental'[x].status = rental[x].status
                            /\ x # call[w].rental => rental'[x].battery = rental[x].battery
      BY <2>0, <2>8 DEF SwapCompleteCommit, RentalRow
    <3>2. call[w].rental \in Rental /\ rental[call[w].rental].status # "pending_payment"
      BY <2>8 DEF SwapCompleteCommit, SwapsPastPayment
    <3>3. \A v \in Worker : call'[v] = call[v] \/ call'[v].op = "none"
      BY <2>0, <2>8 DEF SwapCompleteCommit, NoCall
    <3>4. \A y \in Swap : swap'[y].rental = swap[y].rental /\ (swap'[y].status = "initiated" => swap[y].status = "initiated")
      BY <2>0, <2>8 DEF SwapCompleteCommit, SwapRow
    <3>5. PendingExclusive'
      BY <3>1, <3>2 DEF PendingExclusive
    <3>6. \A v \in Worker : call'[v].op # "none" =>
              /\ call'[v] = call[v]
              /\ call[v].rental \in Rental => rental'[call[v].rental].status = rental[call[v].rental].status
      BY <3>1, <3>3
    <3>7. SwapsPastPayment'
      BY <3>4, <3>6 DEF SwapsPastPayment
    <3> QED  BY <3>5, <3>7
  <2>9. ASSUME NEW w \in Worker, CallFails(w) PROVE (SwapsPastPayment /\ PendingExclusive)'
    <3>1. \A v \in Worker : call'[v] = call[v] \/ call'[v].op = "none"
      BY <2>0, <2>9 DEF CallFails, NoCall
    <3> QED  BY <2>9, <3>1 DEF CallFails, SwapsPastPayment, PendingExclusive, vars
  <2>10. CASE UNCHANGED apiVars
    BY <2>10 DEF apiVars, vars, SwapsPastPayment, PendingExclusive
  <2> QED
    BY <2>1, <2>2, <2>3, <2>4, <2>5, <2>6, <2>7, <2>8, <2>9, <2>10
    DEF ApiNext, Terminate, SwapInitiate, SwapComplete
<1> QED  BY <1>1, <1>2, PTL DEF ApiSpec

\* The routes keep the types of rentals, swap sessions and their own requests,
\* also where a swap is completed on a rental that was read before.
THEOREM ApiTypeCorrect == ApiSpec => []ApiTypeOK
<1>1. ApiInv => ApiTypeOK
  BY DEF ApiInv
<1> QED  BY <1>1, ApiInvAlways, PTL

\* No interleaving of the routes, stale reads included, lets two customers
\* reserve the same battery.
THEOREM PendingIsExclusive == ApiSpec => []PendingExclusive
<1>1. ApiInv => PendingExclusive
  BY DEF ApiInv
<1> QED  BY <1>1, ApiInvAlways, PTL
=============================================================================
