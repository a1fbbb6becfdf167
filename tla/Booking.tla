------------------------------ MODULE Booking ------------------------------
(***************************************************************************)
(* Battery reservations: booking_service.py and the routes of bookings.py  *)
(* and customer_reservations.py, which share one table.                    *)
(*                                                                         *)
(* No handler locks a row.  Each reads, decides, and commits what it has   *)
(* decided whatever the rows have become, so a call is one action for each *)
(* read and one for each commit, and calls served by different processes   *)
(* overlap in any way.  The ghosts name the rows such an overlap has       *)
(* touched: what is claimed of the others is what the checks are worth.    *)
(***************************************************************************)
EXTENDS Integers, FiniteSets

CONSTANTS
    User,
    Battery,
    BookingId,      \* primary keys of battery_reservations
    Worker,         \* processes that serve requests
    Null,           \* SQL NULL
    Payment,        \* amounts a request may name
    MaxBalance      \* bound: what a wallet holds at most

ASSUME BookingAssumption ==
    /\ Null \notin User \cup Battery \cup BookingId
    /\ Payment \subseteq Nat \ {0} /\ MaxBalance \in Nat

VARIABLES
    booking,        \* the table
    due,            \* bookings whose end_time has come
    balance,        \* Wallet.balance
    ledger,         \* what the wallet's transaction rows add up to
    payments,       \* how many payments were recorded for each booking
    req,            \* what each worker's call has read
    overtaken,      \* ghost: bookings written over a newer status
    doubled,        \* ghost: bookings inserted beside one their checks could not see
    miscounted      \* ghost: users whose balance was written over a newer one

bookingVars == <<booking, due, payments, overtaken, doubled>>
walletVars == <<balance, ledger, miscounted>>
vars == <<bookingVars, walletVars, req>>

Open == {"PENDING", "ACTIVE"}                       \* ACTIVE_RESERVATION_STATUSES
Terminal == {"COMPLETED", "CANCELLED", "EXPIRED"}   \* TERMINAL_STATUSES

NoBooking == [status |-> "none", user |-> Null, battery |-> Null]
BookingRow == [status : {"none"} \cup Open \cup Terminal, user : User \cup {Null}, battery : Battery \cup {Null}]

Idle == [pc |-> "idle", next |-> "idle", user |-> Null, booking |-> Null, seen |-> "none",
         rows |-> {}, battery |-> Null, balance |-> 0, amount |-> 0]

ReqRow == [pc : {"idle", "expire", "reserve", "insert", "activate", "update", "pay", "settle"}, next : {"idle", "reserve"},
           user : User \cup {Null}, booking : BookingId \cup {Null}, seen : {"none"} \cup Open \cup Terminal,
           rows : SUBSET BookingId, battery : Battery \cup {Null},
           balance : 0 .. MaxBalance, amount : 0 .. MaxBalance]

Init ==
    /\ booking = [r \in BookingId |-> NoBooking] /\ due = {}
    /\ balance \in [User -> 0 .. MaxBalance] /\ ledger = balance
    /\ payments = [r \in BookingId |-> 0]
    /\ req = [w \in Worker |-> Idle]
    /\ overtaken = {} /\ doubled = {} /\ miscounted = {}

-----------------------------------------------------------------------------
(* What the handlers ask of a row.                                         *)

\* In ACTIVE_RESERVATION_STATUSES, and end_time > now.
Live(r) == booking[r].status \in Open /\ r \notin due

Stale(r) == booking[r].status = "PENDING" /\ r \in due

\* Mutant: a cancelled booking can be taken up again.
Allowed_reopen(st) == CASE st = "PENDING" -> {"ACTIVE", "CANCELLED", "EXPIRED"}
                        [] st = "ACTIVE" -> {"COMPLETED", "CANCELLED"}
                        [] st = "CANCELLED" -> {"ACTIVE"}
                        [] OTHER -> {}

\* is_transition_allowed
Allowed(st) == CASE st = "PENDING" -> {"ACTIVE", "CANCELLED", "EXPIRED"}
                 [] st = "ACTIVE" -> {"COMPLETED", "CANCELLED"}
                 [] OTHER -> {}

SetStatus(r, st) == booking' = [booking EXCEPT ![r].status = st]

Reply(w) == req' = [req EXCEPT ![w] = Idle]

-----------------------------------------------------------------------------
(* Lazy expiry, the first step of every call.                              *)

StaleOf(u) == {r \in BookingId : booking[r].user = u /\ Stale(r)}

\* A call found stale bookings; next is where it goes on once they are expired.
Expiring(u, S, next) == [Idle EXCEPT !.pc = "expire", !.user = u, !.rows = S, !.next = next]

\* list_my_bookings (next = "idle") and create_booking (next = "reserve") look
\* for the user's stale bookings.
BeginForUser(w, u, next) ==
    /\ req[w].pc = "idle" /\ (StaleOf(u) = {} => next # "idle")
    /\ req' = [req EXCEPT ![w] = IF StaleOf(u) = {} THEN [Idle EXCEPT !.pc = next, !.user = u]
                                                   ELSE Expiring(u, StaleOf(u), next)]
    /\ UNCHANGED <<bookingVars, walletVars>>

\* The routes about one booking load it.  mark_expired_if_due ends the call, as
\* no route does anything with an expired booking.
BeginForBooking(w, r) ==
    /\ req[w].pc = "idle" /\ Allowed(booking[r].status) # {}
    /\ \/ Stale(r) /\ req' = [req EXCEPT ![w] = Expiring(booking[r].user, {r}, "idle")]
       \/ /\ ~Stale(r)
          /\ \E step \in {"update"} \cup (IF booking[r].status = "PENDING" THEN {"pay"} ELSE {}) :
                req' = [req EXCEPT ![w] = [Idle EXCEPT !.pc = step, !.user = booking[r].user,
                                                       !.booking = r, !.seen = booking[r].status]]
    /\ UNCHANGED <<bookingVars, walletVars>>

\* release_expired_reservations and mark_expired_if_due commit.
Expire(w) ==
    LET q == req[w] IN
    /\ q.pc = "expire"
    /\ booking' = [r \in BookingId |-> IF r \in q.rows THEN [booking[r] EXCEPT !.status = "EXPIRED"] ELSE booking[r]]
    /\ overtaken' = overtaken \cup {r \in q.rows : booking[r].status # "PENDING"}
    /\ req' = [req EXCEPT ![w] = IF q.next = "idle" THEN Idle ELSE [Idle EXCEPT !.pc = q.next, !.user = q.user]]
    /\ UNCHANGED <<due, payments, doubled, walletVars>>

-----------------------------------------------------------------------------
(* Reserving.                                                              *)

\* Bound: the primary keys that are left.  A call that finds none starts no
\* booking: there would be no row for it.
Free == {r \in BookingId : booking[r].status = "none"}

Conflicts(u, b) == {r \in BookingId : Live(r) /\ (booking[r].user = u \/ booking[r].battery = b)}

\* Mutant: a booking that is paid no longer keeps its battery.
Choosable_pendingOnly(u) ==
    {b \in Battery : \A r \in Conflicts(u, b) : booking[r].user # u /\ booking[r].status = "ACTIVE"}

\* The user has no live booking, and nobody has one of the battery.  Which
\* batteries stand in the station, charged and available, is any set.
Choosable(u) == {b \in Battery : Conflicts(u, b) = {}}

Rivals(u, b) == {r \in BookingId : booking[r].status # "none" /\ (booking[r].user = u \/ booking[r].battery = b)}

\* create_reservation up to its choice; rows keeps the bookings it could see
\* of the same user or battery.
ChooseBattery(w) ==
    /\ req[w].pc = "reserve" /\ Free # {}
    /\ \E b \in Choosable(req[w].user) : 
          req' = [req EXCEPT ![w] = [@ EXCEPT !.pc = "insert", !.battery = b, !.rows = Rivals(req[w].user, b)]]
    /\ UNCHANGED <<bookingVars, walletVars>>

Insert(w, r) ==
    LET q == req[w] IN
    /\ q.pc = "insert" /\ booking[r].status = "none"
    /\ booking' = [booking EXCEPT ![r] = [status |-> "PENDING", user |-> q.user, battery |-> q.battery]]
    /\ doubled' = IF Conflicts(q.user, q.battery) \subseteq q.rows THEN doubled ELSE doubled \cup {r}
    /\ Reply(w)
    /\ UNCHANGED <<due, payments, overtaken, walletVars>>

\* reserve_battery of customer_reservations.py looks for an ACTIVE booking of the
\* user.  With one, comparing its naive end_time with an aware clock raises, so
\* it is neither expired nor replaced.
FindNoActive(w, u) ==
    /\ req[w].pc = "idle" /\ Free # {}
    /\ \A x \in BookingId : ~(booking[x].user = u /\ booking[x].status = "ACTIVE")
    /\ req' = [req EXCEPT ![w] = [Idle EXCEPT !.pc = "activate", !.user = u]]
    /\ UNCHANGED <<bookingVars, walletVars>>

\* It then commits an ACTIVE booking, without a battery.
ReserveActive(w, r) ==
    /\ req[w].pc = "activate" /\ booking[r].status = "none"
    /\ booking' = [booking EXCEPT ![r] = [status |-> "ACTIVE", user |-> req[w].user, battery |-> Null]]
    /\ Reply(w)
    /\ UNCHANGED <<due, payments, overtaken, doubled, walletVars>>

-----------------------------------------------------------------------------
(* Changing the status.                                                    *)

\* update_booking and cancel_booking commit.
Update(w) ==
    LET q == req[w] IN
    /\ q.pc = "update"
    /\ \E st \in Allowed(q.seen) : SetStatus(q.booking, st)
    /\ overtaken' = IF booking[q.booking].status = q.seen THEN overtaken ELSE overtaken \cup {q.booking}
    /\ Reply(w)
    /\ UNCHANGED <<due, payments, doubled, walletVars>>

\* cancel_reservation of customer_reservations.py asks nothing of the status.
CancelAny(r) ==
    /\ booking[r].status # "none"
    /\ SetStatus(r, "CANCELLED")
    /\ UNCHANGED <<due, payments, overtaken, doubled, walletVars, req>>

\* Whether the time of a finished booking has come matters to no handler.
FallsDue(r) ==
    /\ booking[r].status \in Open /\ r \notin due
    /\ due' = due \cup {r}
    /\ UNCHANGED <<booking, payments, overtaken, doubled, walletVars, req>>

-----------------------------------------------------------------------------
(* Paying.                                                                 *)

Affordable(u, a) == a <= balance[u]

\* pay_for_booking reads the wallet; the request names the amount.
ReadWallet(w) ==
    LET u == req[w].user IN
    /\ req[w].pc = "pay"
    /\ \E a \in Payment : /\ Affordable(u, a)
                          /\ req' = [req EXCEPT ![w] = [@ EXCEPT !.pc = "settle", !.balance = balance[u], !.amount = a]]
    /\ UNCHANGED <<bookingVars, walletVars>>

\* Mutant: the booking is not marked as paid.
Settle_unmarked(w) ==
    LET q == req[w] IN
    /\ q.pc = "settle"
    /\ balance' = [balance EXCEPT ![q.user] = q.balance - q.amount]
    /\ ledger' = [ledger EXCEPT ![q.user] = @ - q.amount]
    /\ miscounted' = IF balance[q.user] = q.balance THEN miscounted ELSE miscounted \cup {q.user}
    /\ payments' = [payments EXCEPT ![q.booking] = @ + 1]
    /\ Reply(w)
    /\ UNCHANGED <<booking, due, overtaken, doubled>>

\* Mutant: the payment leaves no transaction.
Settle_unrecorded(w) ==
    LET q == req[w] IN
    /\ q.pc = "settle"
    /\ balance' = [balance EXCEPT ![q.user] = q.balance - q.amount]
    /\ miscounted' = IF balance[q.user] = q.balance THEN miscounted ELSE miscounted \cup {q.user}
    /\ payments' = [payments EXCEPT ![q.booking] = @ + 1]
    /\ SetStatus(q.booking, "ACTIVE")
    /\ overtaken' = IF booking[q.booking].status = "PENDING" THEN overtaken ELSE overtaken \cup {q.booking}
    /\ Reply(w)
    /\ UNCHANGED <<due, doubled, ledger>>

\* It writes the balance it has computed, the transaction and the booking.
Settle(w) ==
    LET q == req[w] IN
    /\ q.pc = "settle"
    /\ balance' = [balance EXCEPT ![q.user] = q.balance - q.amount]
    /\ ledger' = [ledger EXCEPT ![q.user] = @ - q.amount]
    /\ miscounted' = IF balance[q.user] = q.balance THEN miscounted ELSE miscounted \cup {q.user}
    /\ payments' = [payments EXCEPT ![q.booking] = @ + 1]
    /\ SetStatus(q.booking, "ACTIVE")
    /\ overtaken' = IF booking[q.booking].status = "PENDING" THEN overtaken ELSE overtaken \cup {q.booking}
    /\ Reply(w)
    /\ UNCHANGED <<due, doubled>>

\* add_balance and deduct_balance of WalletService, under the wallet's row lock
Transact(u, a) ==
    /\ balance[u] + a \in 0 .. MaxBalance
    /\ balance' = [balance EXCEPT ![u] = @ + a]
    /\ ledger' = [ledger EXCEPT ![u] = @ + a]
    /\ UNCHANGED <<bookingVars, miscounted, req>>

\* A check refuses, a commit fails, or the process dies.
Fail(w) ==
    /\ req[w].pc # "idle"
    /\ Reply(w)
    /\ UNCHANGED <<bookingVars, walletVars>>

-----------------------------------------------------------------------------
Serve(w) ==
    \/ \E u \in User : FindNoActive(w, u) \/ \E next \in {"idle", "reserve"} : BeginForUser(w, u, next)
    \/ \E r \in BookingId : BeginForBooking(w, r) \/ Insert(w, r) \/ ReserveActive(w, r)
    \/ Expire(w) \/ ChooseBattery(w) \/ Update(w) \/ ReadWallet(w) \/ Settle(w) \/ Fail(w)

Next ==
    \/ \E w \in Worker : Serve(w)
    \/ \E r \in BookingId : CancelAny(r) \/ FallsDue(r)
    \/ \E u \in User, a \in Payment : Transact(u, a) \/ Transact(u, -a)

Spec == Init /\ [][Next]_vars

-----------------------------------------------------------------------------
(* Properties.                                                             *)

TypeOK ==
    /\ booking \in [BookingId -> BookingRow] /\ due \subseteq BookingId
    /\ balance \in [User -> Int] /\ ledger \in [User -> Int]
    /\ payments \in [BookingId -> Nat]
    /\ req \in [Worker -> ReqRow]
    /\ overtaken \subseteq BookingId /\ doubled \subseteq BookingId /\ miscounted \subseteq User

\* A wallet is never overdrawn, although payments write a balance they have
\* computed from an unlocked read.
NeverOverdrawn == \A u \in User : balance[u] >= 0

\* A balance differs from its transactions only after a payment wrote over a
\* change made since it read the wallet.
LedgerAgrees == \A u \in User \ miscounted : balance[u] = ledger[u]

\* Two live bookings never share a user or a battery unless one was inserted
\* between the other's checks and its insertion, or brought back by a late write:
\* expiry, cancellation and payment in between do not let a second one in.
\* Bookings without a battery come from customer_reservations.py, whose check
\* knows only ACTIVE ones.
LiveExclusive ==
    \A r, x \in BookingId \ (overtaken \cup doubled) :
        /\ r # x /\ Live(r) /\ Live(x)
        /\ booking[r].battery # Null /\ booking[x].battery # Null
        => booking[r].user # booking[x].user /\ booking[r].battery # booking[x].battery

\* A booking is paid once, and one that is paid is neither waiting to be paid
\* nor expired for want of payment, unless a late write changed it.
PaidIsKept ==
    \A r \in BookingId \ overtaken : payments[r] > 0 => payments[r] = 1 /\ booking[r].status \notin {"PENDING", "EXPIRED"}

\* A finished booking stays as it is, but for the cancellation that asks
\* nothing and late writes.
TerminalIsFinal ==
    [][\A r \in BookingId : booking[r].status \in Terminal /\ r \notin overtaken'
                               => booking'[r].status \in {booking[r].status, "CANCELLED"}]_vars
=============================================================================
