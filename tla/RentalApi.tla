----------------------------- MODULE RentalApi -----------------------------
(***************************************************************************)
(* The routes of app/api that act on rentals: create and return (through   *)
(* RentalService), confirm (app/api/v1/rentals.py), terminate              *)
(* (app/api/admin/rentals.py) and the two swap routes                      *)
(* (app/api/v1/swaps.py).                                                  *)
(*                                                                         *)
(* These handlers read rows without a lock before they write.  The request *)
(* keeps what it read: SQLAlchemy's identity map hands the object that is  *)
(* already loaded back, attributes unrefreshed, when execute_swap selects  *)
(* the same row again FOR UPDATE.  Each such handler is a reading action,  *)
(* whose snapshot is kept in call, and a committing action.                *)
(*                                                                         *)
(* No route calls create_rental_payment_order or confirm_rental_verified,  *)
(* so the payment actions of RentalService do not occur here.              *)
(***************************************************************************)
EXTENDS RentalService

CONSTANTS
    Swap,           \* primary keys the swap_sessions table may hand out
    Routes          \* the routes beyond create and return that clients use

ASSUME RoutesAssumption == Routes \subseteq {"confirm", "terminate", "swap"}

VARIABLES
    swap,           \* the swap_sessions table
    call            \* what a worker's request in flight has read

apiVars == <<vars, swap, call>>

SwapRow == [status : {"none", "initiated", "completed"}, rental : Rental \cup {Null},
            station : Station \cup {Null}, new : Battery \cup {Null}]

NoSwap == [status |-> "none", rental |-> Null, station |-> Null, new |-> Null]

\* old: rental.battery_id as it was read
CallRow == [op : {"none", "terminate", "swap_initiate", "swap_complete"},
            rental : Rental \cup {Null}, swap : Swap \cup {Null}, station : Station \cup {Null},
            old : Battery \cup {Null}, new : Battery \cup {Null}]

NoCall == [op |-> "none", rental |-> Null, swap |-> Null, station |-> Null, old |-> Null, new |-> Null]

Exists(r) == rental[r].status # "none"

-----------------------------------------------------------------------------
(* POST /rentals/{id}/confirm: whatever the status was.                    *)

ConfirmRental(r) ==
    /\ "confirm" \in Routes
    /\ Exists(r)
    /\ rental' = [rental EXCEPT ![r].status = "active"]
    /\ UNCHANGED <<battery, order, promoUsed, req, swap, call>>

-----------------------------------------------------------------------------
(* PUT /admin/rentals/{id}/terminate                                       *)

TerminateRead(w, r) ==
    /\ "terminate" \in Routes
    /\ call[w] = NoCall
    /\ Exists(r)
    /\ rental[r].status # "completed"
    /\ call' = [call EXCEPT ![w] = [op |-> "terminate", rental |-> r, swap |-> Null, station |-> Null,
                                    old |-> Null, new |-> Null]]
    /\ UNCHANGED <<vars, swap>>

TerminateCommit(w) ==
    /\ call[w].op = "terminate"
    /\ rental' = [rental EXCEPT ![call[w].rental].status = "cancelled"]
    /\ call' = [call EXCEPT ![w] = NoCall]
    /\ UNCHANGED <<battery, order, promoUsed, req, swap>>

-----------------------------------------------------------------------------
(* POST /swaps/initiate                                                    *)

OpenSwaps(r) == {x \in Swap : swap[x].status = "initiated" /\ swap[x].rental = r}

\* new: the battery the client asked for, or the one _pick_replacement_battery found
SwapInitiateRead(w, r, s, new) ==
    /\ "swap" \in Routes
    /\ call[w] = NoCall
    /\ rental[r].status = "active"
    /\ OpenSwaps(r) = {}
    /\ battery[new].status = "available"
    /\ battery[new].station = s
    /\ call' = [call EXCEPT ![w] = [op |-> "swap_initiate", rental |-> r, swap |-> Null, station |-> s,
                                    old |-> Null, new |-> new]]
    /\ UNCHANGED <<vars, swap>>

SwapInitiateCommit(w, x) ==
    /\ call[w].op = "swap_initiate"
    /\ swap[x].status = "none"
    /\ swap' = [swap EXCEPT ![x] = [status |-> "initiated", rental |-> call[w].rental,
                                    station |-> call[w].station, new |-> call[w].new]]
    /\ call' = [call EXCEPT ![w] = NoCall]
    /\ UNCHANGED vars

-----------------------------------------------------------------------------
(* POST /swaps/{id}/complete                                               *)

\* new: the battery the station reports, or the one of the session
SwapCompleteRead(w, x, new) ==
    LET r == swap[x].rental IN
    /\ "swap" \in Routes
    /\ call[w] = NoCall
    /\ swap[x].status = "initiated"
    /\ rental[r].status = "active"
    /\ call' = [call EXCEPT ![w] = [op |-> "swap_complete", rental |-> r, swap |-> x,
                                    station |-> swap[x].station, old |-> rental[r].battery, new |-> new]]
    /\ UNCHANGED <<vars, swap>>

\* execute_swap(auto_commit = False) on the snapshot, and the closing of the
\* session.  The batteries are read for the first time here, under their lock;
\* the rental's battery_id is written only if it differs from what was read,
\* and its status is not written at all.  The wallet's branch is dead code:
\* calculate_swap_fee returns 0.0.
SwapCompleteCommit(w) ==
    LET c == call[w] IN
    /\ c.op = "swap_complete"
    /\ battery[c.new].status = "available"
    /\ battery[c.new].station = c.station
    /\ battery' = Placed(Placed(battery, c.old, "available", c.station), c.new, "deployed", Null)
    /\ rental' = IF c.old = c.new THEN rental ELSE [rental EXCEPT ![c.rental].battery = c.new]
    /\ swap' = [swap EXCEPT ![c.swap].status = "completed", ![c.swap].new = c.new]
    /\ call' = [call EXCEPT ![w] = NoCall]
    /\ UNCHANGED <<order, promoUsed, req>>

\* A request that fails after its reads rolls back.
CallFails(w) ==
    /\ call[w] # NoCall
    /\ call' = [call EXCEPT ![w] = NoCall]
    /\ UNCHANGED <<vars, swap>>

-----------------------------------------------------------------------------
ApiInit == Init /\ swap = [x \in Swap |-> NoSwap] /\ call = [w \in Worker |-> NoCall]

CreateOrReturn ==
    /\ \/ Initiate
       \/ \E r \in Rental : PaymentWindowEnds(r) \/ \E s \in Station : ReturnBattery(r, s)
    /\ UNCHANGED <<swap, call>>

Terminate == \E w \in Worker : TerminateCommit(w) \/ \E r \in Rental : TerminateRead(w, r)

SwapInitiate ==
    \E w \in Worker :
        \/ \E r \in Rental, s \in Station, b \in Battery : SwapInitiateRead(w, r, s, b)
        \/ \E x \in Swap : SwapInitiateCommit(w, x)

SwapComplete ==
    \E w \in Worker :
        \/ \E x \in Swap, b \in Battery : SwapCompleteRead(w, x, b)
        \/ SwapCompleteCommit(w)

ApiNext ==
    \/ CreateOrReturn
    \/ \E r \in Rental : ConfirmRental(r)
    \/ Terminate
    \/ SwapInitiate
    \/ SwapComplete
    \/ \E w \in Worker : CallFails(w)

ApiSpec == ApiInit /\ [][ApiNext]_apiVars

-----------------------------------------------------------------------------
(* Properties.                                                             *)

ApiTypeOK ==
    /\ TypeOK
    /\ swap \in [Swap -> SwapRow]
    /\ call \in [Worker -> CallRow]

\* Two customers never wait to pay for the same battery, even though a
\* confirmed old rental can make a reserved battery available again: the
\* count of live rentals in initiate_rental stands in where the battery's
\* status is wrong.
PendingExclusive ==
    \A r1, r2 \in Rental :
        /\ rental[r1].status = "pending_payment"
        /\ rental[r2].status = "pending_payment"
        /\ rental[r1].battery = rental[r2].battery
        => r1 = r2
=============================================================================
