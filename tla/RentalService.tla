--------------------------- MODULE RentalService ---------------------------
(***************************************************************************)
(* The rental lifecycle of app/services/rental_service.py and              *)
(* app/services/swap_service.py, over the rows they share: rentals,        *)
(* batteries, payment transactions and the promo-code counter.             *)
(*                                                                         *)
(* A service call whose first touch of every row it writes is a            *)
(* SELECT ... FOR UPDATE is one action: the row locks are held until its   *)
(* commit, so no other call can interleave.  initiate_rental is three      *)
(* actions, because it commits the clean-up of the user's stale rentals,   *)
(* counts the user's rentals without any lock, and only then locks the     *)
(* battery.                                                                *)
(***************************************************************************)
EXTENDS Naturals, FiniteSets

CONSTANTS
    User,           \* customers
    Station,        \* stations a battery can stand in
    Battery,        \* rows of batteries
    Rental,         \* primary keys the rentals table may hand out
    Order,          \* payment orders the gateway may hand out
    Worker,         \* request handlers that run concurrently
    Null,           \* SQL NULL
    PaymentColumns, \* the columns of its payment queries that PaymentTransaction maps
    MaxActive,      \* settings.MAX_ACTIVE_RENTALS_PER_USER
    PromoLimit      \* PromoCode.usage_limit of the one promo code; 0: unlimited

ASSUME NullAssumption ==
    /\ Null \notin User /\ Null \notin Station
    /\ Null \notin Battery /\ Null \notin Rental

ASSUME ColumnsAssumption == PaymentColumns \subseteq {"reference_type", "reference_id"}

ASSUME LimitAssumption == MaxActive \in Nat \ {0} /\ PromoLimit \in Nat

VARIABLES
    rental,         \* the rentals table
    battery,        \* the batteries table
    order,          \* payment orders, with their PaymentTransaction row
    promoUsed,      \* PromoCode.usage_count
    req             \* what each worker's initiate_rental call has read so far

vars == <<rental, battery, order, promoUsed, req>>

RentalStatus == {"none", "pending_payment", "active", "completed", "cancelled"}

Live == {"active", "pending_payment"}

\* window: "over" once start_time is older than RENTAL_PAYMENT_PENDING_TIMEOUT_MINUTES
RentalRow == [status : RentalStatus, user : User \cup {Null}, battery : Battery \cup {Null},
              station : Station \cup {Null}, window : {"open", "over"}]

NoRental == [status |-> "none", user |-> Null, battery |-> Null, station |-> Null, window |-> "open"]

\* station = Null: with a customer
BatteryRow == [status : {"ready", "available", "reserved", "deployed"}, station : Station \cup {Null}]

\* txn: status of the PaymentTransaction row; gateway: what the gateway knows of it
OrderRow == [rental : Rental \cup {Null}, txn : {"none", "pending", "failed", "success"}, gateway : {"open", "captured"}]

NoOrder == [rental |-> Null, txn |-> "none", gateway |-> "open"]

Idle == [pc |-> "idle", user |-> Null, battery |-> Null, station |-> Null]

ReqRow == [pc : {"idle", "cleaned", "counted"}, user : User \cup {Null},
           battery : Battery \cup {Null}, station : Station \cup {Null}]

-----------------------------------------------------------------------------
(* Batteries.                                                              *)

\* apply_battery_transition: status and location move together, and a
\* location without an id (customer) leaves location_id empty.
Placed(bat, b, status, station) ==
    [bat EXCEPT ![b] = [status |-> status, station |-> station]]

LiveOn(b) == {r \in Rental : rental[r].battery = b /\ rental[r].status \in Live}

LiveOf(u) == {r \in Rental : rental[r].user = u /\ rental[r].status \in Live}

-----------------------------------------------------------------------------
(* Initiating a rental.                                                    *)

StaleOf(u) == {r \in Rental : /\ rental[r].status = "pending_payment"
                              /\ rental[r].window = "over"
                              /\ rental[r].user = u}

Cancelled(row) == [status |-> "cancelled", user |-> row.user, battery |-> row.battery,
                   station |-> row.station, window |-> row.window]

\* The start station of the stale rental of u on b.
StaleHome(u, b) == rental[CHOOSE r \in StaleOf(u) : rental[r].battery = b].station

\* Mutant: cancels the rentals and forgets their batteries.
CleanupStale_keepsBattery(u) ==
    /\ rental' = [r \in Rental |-> IF r \in StaleOf(u) THEN Cancelled(rental[r]) ELSE rental[r]]
    /\ UNCHANGED battery

\* cleanup_stale_pending_rentals(user_id = u), in its own transaction.
CleanupStale(u) ==
    /\ rental' = [r \in Rental |-> IF r \in StaleOf(u) THEN Cancelled(rental[r]) ELSE rental[r]]
    /\ battery' = [b \in Battery |->
                    IF battery[b].status = "reserved" /\ \E r \in StaleOf(u) : rental[r].battery = b
                    THEN [status |-> "available", station |-> StaleHome(u, b)]
                    ELSE battery[b]]

InitiateCleanup(w, u, b, s) ==
    /\ req[w].pc = "idle"
    /\ CleanupStale(u)
    /\ req' = [req EXCEPT ![w] = [pc |-> "cleaned", user |-> u, battery |-> b, station |-> s]]
    /\ UNCHANGED <<order, promoUsed>>

\* The unlocked count of the user's rentals.
InitiateCount(w) ==
    /\ req[w].pc = "cleaned"
    /\ Cardinality(LiveOf(req[w].user)) < MaxActive
    /\ req' = [req EXCEPT ![w].pc = "counted"]
    /\ UNCHANGED <<rental, battery, order, promoUsed>>

\* What initiate_rental checks once it holds the battery's row lock.
Rentable(b, s) ==
    /\ battery[b].status \in {"ready", "available"}
    /\ battery[b].station = s
    /\ LiveOn(b) = {}

\* Mutant: one slot too many.
PromoOpen_offByOne == PromoLimit = 0 \/ promoUsed <= PromoLimit

\* calculate_price's check under the promo row's lock, repeated by the
\* compare-and-set UPDATE that takes the slot.
PromoOpen == PromoLimit = 0 \/ promoUsed < PromoLimit

\* Mutant: what was checked before the lock is not checked again under it.
InitiateReserve_unchecked(w, r, promo) ==
    LET q == req[w] IN
    /\ q.pc = "counted"
    /\ rental[r].status = "none"
    /\ promo => PromoOpen
    /\ promoUsed' = IF promo THEN promoUsed + 1 ELSE promoUsed
    /\ rental' = [rental EXCEPT ![r] = [status |-> "pending_payment", user |-> q.user,
                                        battery |-> q.battery, station |-> q.station,
                                        window |-> "open"]]
    /\ battery' = Placed(battery, q.battery, "reserved", q.station)
    /\ req' = [req EXCEPT ![w] = Idle]
    /\ UNCHANGED order

InitiateReserve(w, r, promo) ==
    LET q == req[w] IN
    /\ q.pc = "counted"
    /\ rental[r].status = "none"
    /\ Rentable(q.battery, q.station)
    /\ promo => PromoOpen
    /\ promoUsed' = IF promo THEN promoUsed + 1 ELSE promoUsed
    /\ rental' = [rental EXCEPT ![r] = [status |-> "pending_payment", user |-> q.user,
                                        battery |-> q.battery, station |-> q.station,
                                        window |-> "open"]]
    /\ battery' = Placed(battery, q.battery, "reserved", q.station)
    /\ req' = [req EXCEPT ![w] = Idle]
    /\ UNCHANGED order

\* A 4xx before or after the count.  Besides the conditions above, the refusal
\* may come from data the model leaves out: opening hours, state of charge,
\* the promo code's dates and minimum amounts.
InitiateRefuse(w) ==
    /\ req[w].pc # "idle"
    /\ req' = [req EXCEPT ![w] = Idle]
    /\ UNCHANGED <<rental, battery, order, promoUsed>>

\* The payment window of a pending rental runs out.
PaymentWindowEnds(r) ==
    /\ rental[r].status = "pending_payment"
    /\ rental[r].window = "open"
    /\ rental' = [rental EXCEPT ![r].window = "over"]
    /\ UNCHANGED <<battery, order, promoUsed, req>>

-----------------------------------------------------------------------------
(* Paying for a rental.                                                    *)

\* Both payment calls select transactions by reference_type and reference_id, and
\* raise an AttributeError there unless models/payment.py maps the columns.
PaymentsMapped == PaymentColumns = {"reference_type", "reference_id"}

\* create_rental_payment_order: the gateway order, the superseding of older
\* pending transactions and the new one.
CreatePaymentOrder(r, o) ==
    /\ PaymentsMapped
    /\ rental[r].status = "pending_payment"
    /\ order[o] = NoOrder
    /\ order' = [p \in Order |->
                    IF p = o THEN [rental |-> r, txn |-> "pending", gateway |-> "open"]
                    ELSE IF order[p].rental = r /\ order[p].txn = "pending"
                         THEN [order[p] EXCEPT !.txn = "failed"]
                         ELSE order[p]]
    /\ UNCHANGED <<rental, battery, promoUsed, req>>

\* The same call failing once the gateway has made the order: at the first query
\* or at the commit.
CreatePaymentOrderLost(r, o) ==
    /\ rental[r].status = "pending_payment"
    /\ order[o] = NoOrder
    /\ order' = [order EXCEPT ![o].rental = r]
    /\ UNCHANGED <<rental, battery, promoUsed, req>>

\* The customer pays an order at the gateway, superseded or not.
GatewayCapture(o) ==
    /\ order[o].rental # Null
    /\ order[o].gateway = "open"
    /\ order' = [order EXCEPT ![o].gateway = "captured"]
    /\ UNCHANGED <<rental, battery, promoUsed, req>>

\* Mutant: any payment of the rental is accepted, also after the first.
ConfirmVerified_again(r, o) ==
    /\ PaymentsMapped
    /\ rental[r].status \in Live
    /\ order[o].rental = r
    /\ order[o].gateway = "captured"
    /\ order' = [order EXCEPT ![o].txn = "success"]
    /\ rental' = [rental EXCEPT ![r].status = "active"]
    /\ battery' = Placed(battery, rental[r].battery, "deployed", Null)
    /\ UNCHANGED <<promoUsed, req>>

\* confirm_rental_verified on a rental that awaits payment.  On an active
\* rental the call answers without a change (same payment) or with a 409.
ConfirmVerified(r, o) ==
    /\ PaymentsMapped
    /\ rental[r].status = "pending_payment"
    /\ order[o].rental = r
    /\ order[o].gateway = "captured"
    /\ order' = [order EXCEPT ![o].txn = "success"]
    /\ rental' = [rental EXCEPT ![r].status = "active"]
    /\ battery' = Placed(battery, rental[r].battery, "deployed", Null)
    /\ UNCHANGED <<promoUsed, req>>

-----------------------------------------------------------------------------
(* Using and ending a rental.                                              *)

\* Mutant: the rental closes and its battery stays with the customer.
ReturnBattery_keepsBattery(r, s) ==
    /\ rental[r].status = "active"
    /\ rental' = [rental EXCEPT ![r].status = "completed"]
    /\ UNCHANGED <<battery, order, promoUsed, req>>

\* Mutant: only completed rentals are refused.
ReturnBattery_anyLive(r, s) ==
    /\ rental[r].status \in Live
    /\ rental' = [rental EXCEPT ![r].status = "completed"]
    /\ battery' = Placed(battery, rental[r].battery, "available", s)
    /\ UNCHANGED <<order, promoUsed, req>>

ReturnBattery(r, s) ==
    /\ rental[r].status = "active"
    /\ rental' = [rental EXCEPT ![r].status = "completed"]
    /\ battery' = Placed(battery, rental[r].battery, "available", s)
    /\ UNCHANGED <<order, promoUsed, req>>

\* Mutant: the rental keeps naming the battery that was handed in.
ExecuteSwap_keepsRental(r, new, s) ==
    /\ rental[r].status = "active"
    /\ battery[new].status = "available"
    /\ battery[new].station = s
    /\ battery' = Placed(Placed(battery, rental[r].battery, "available", s), new, "deployed", Null)
    /\ UNCHANGED <<rental, order, promoUsed, req>>

\* Mutant: the replacement only has to stand in the station.
ExecuteSwap_anyStatus(r, new, s) ==
    /\ rental[r].status = "active"
    /\ battery[new].station = s
    /\ battery' = Placed(Placed(battery, rental[r].battery, "available", s), new, "deployed", Null)
    /\ rental' = [rental EXCEPT ![r].battery = new]
    /\ UNCHANGED <<order, promoUsed, req>>

\* execute_swap called with auto_commit, with nothing read beforehand.
ExecuteSwap(r, new, s) ==
    /\ rental[r].status = "active"
    /\ battery[new].status = "available"
    /\ battery[new].station = s
    /\ battery' = Placed(Placed(battery, rental[r].battery, "available", s), new, "deployed", Null)
    /\ rental' = [rental EXCEPT ![r].battery = new]
    /\ UNCHANGED <<order, promoUsed, req>>

-----------------------------------------------------------------------------
Init ==
    /\ rental = [r \in Rental |-> NoRental]
    /\ battery \in [Battery -> [status : {"ready", "available"}, station : Station]]
    /\ order = [o \in Order |-> NoOrder]
    /\ promoUsed = 0
    /\ req = [w \in Worker |-> Idle]

Initiate ==
    \E w \in Worker :
        \/ \E u \in User, b \in Battery, s \in Station : InitiateCleanup(w, u, b, s)
        \/ InitiateCount(w)
        \/ \E r \in Rental, promo \in BOOLEAN : InitiateReserve(w, r, promo)
        \/ InitiateRefuse(w)

Pay ==
    \E o \in Order :
        \/ GatewayCapture(o)
        \/ \E r \in Rental : \/ CreatePaymentOrder(r, o)
                             \/ CreatePaymentOrderLost(r, o)
                             \/ ConfirmVerified(r, o)

Use ==
    \E r \in Rental :
        \/ PaymentWindowEnds(r)
        \/ \E s \in Station : \/ ReturnBattery(r, s)
                              \/ \E b \in Battery : ExecuteSwap(r, b, s)

Next == Initiate \/ Pay \/ Use

Spec == Init /\ [][Next]_vars

-----------------------------------------------------------------------------
(* Properties.                                                             *)

TypeOK ==
    /\ rental \in [Rental -> RentalRow]
    /\ battery \in [Battery -> BatteryRow]
    /\ order \in [Order -> OrderRow]
    /\ promoUsed \in Nat
    /\ req \in [Worker -> ReqRow]

\* Two live rentals never name the same battery: what the row lock on the
\* battery in initiate_rental and execute_swap is for.
HeldByOne ==
    \A r1, r2 \in Rental :
        /\ rental[r1].status \in Live
        /\ rental[r2].status \in Live
        /\ rental[r1].battery = rental[r2].battery
        => r1 = r2

\* A live rental names a battery, and the battery's row says so: reserved at the
\* pick-up station while payment is pending, deployed while the rental is active.
BatteryAgrees ==
    \A r \in Rental :
        LET b == rental[r].battery IN
        /\ rental[r].status = "pending_payment" =>
               /\ b \in Battery
               /\ battery[b].status = "reserved"
               /\ battery[b].station = rental[r].station
        /\ rental[r].status = "active" =>
               b \in Battery /\ battery[b].status = "deployed"

\* A deployed battery is the battery of an active rental: none is with a
\* customer whom no open rental accounts for (rental, swap and return).
NoPhantomBattery ==
    \A b \in Battery :
        battery[b].status = "deployed" =>
            \E r \in Rental : rental[r].status = "active" /\ rental[r].battery = b

\* A reserved battery waits for exactly the pending rental that reserved it, at
\* the station where it was picked: a cancelled or confirmed rental leaves no
\* reservation behind.
ReservedForPending ==
    \A b \in Battery :
        battery[b].status = "reserved" =>
            \E r \in Rental : /\ rental[r].status = "pending_payment"
                              /\ rental[r].battery = b
                              /\ rental[r].station = battery[b].station

Settles(o, r) == order[o].rental = r /\ order[o].txn = "success"

\* A rental is paid by exactly one order once it is active or completed, and by
\* none before, whatever superseded orders the customer paid as well.
PaidOnce ==
    \A r \in Rental :
        /\ rental[r].status \in {"active", "completed"} <=> \E o \in Order : Settles(o, r)
        /\ \A o1, o2 \in Order : Settles(o1, r) /\ Settles(o2, r) => o1 = o2

\* The promo counter never passes the code's limit, however many rentals
\* race for the last slot.
PromoWithinLimit == PromoLimit = 0 \/ promoUsed <= PromoLimit

\* The lifecycle of tests/test_rental_invariants.py: pending_payment to active
\* or cancelled, active to completed or cancelled, nothing out of the last two.
LifecycleStep ==
    \A r \in Rental :
        \/ rental'[r].status = rental[r].status
        \/ <<rental[r].status, rental'[r].status>> \in
               {<<"none", "pending_payment">>, <<"pending_payment", "active">>,
                <<"pending_payment", "cancelled">>, <<"active", "completed">>,
                <<"active", "cancelled">>}

Lifecycle == [][LifecycleStep]_vars

Desk == INSTANCE Lending WITH
    claim <- [b \in Battery |-> LiveOn(b)],
    place <- [b \in Battery |-> battery[b].station],
    opened <- {r \in Rental : rental[r].status # "none"}

\* The service lends batteries: whatever calls interleave, a battery goes from
\* one open rental to the next only through a station, and a closed rental
\* never claims one again (initiate, clean-up, confirmation, return, swap).
ImplementsLending == Desk!Spec
=============================================================================
