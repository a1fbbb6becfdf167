---------------------------- MODULE BookingProofs ----------------------------
(***************************************************************************)
(* Proofs about Booking, for any number of users, batteries, bookings and  *)
(* processes, and any amounts.                                             *)
(***************************************************************************)
EXTENDS Booking, TLAPS

-----------------------------------------------------------------------------
(* What the calls under way know, and the type invariant.                  *)

\* The bookings a call names exist, and exist for good.
Known(r) == r \in BookingId /\ booking[r].status # "none"

CallOK(q) ==
    /\ q.pc \in {"reserve", "insert", "activate", "settle", "pay"} => q.user \in User
    /\ q.next = "reserve" => q.user \in User
    /\ q.pc \in {"update", "pay", "settle"} => Known(q.booking)
    /\ q.pc \in {"pay", "settle"} => q.seen = "PENDING"
    /\ q.pc = "settle" => q.amount <= q.balance
    /\ \A r \in q.rows : Known(r)

\* The strengthening: wallets hold what the bound allows, rows belong to users.
Sound ==
    /\ TypeOK
    /\ balance \in [User -> 0 .. MaxBalance]
    /\ \A r \in BookingId : booking[r].status # "none" => booking[r].user \in User
    /\ \A w \in Worker : CallOK(req[w])

\* A step that changes only statuses keeps the rows and whom they belong to.
SameRows ==
    \A x \in BookingId : /\ booking'[x].user = booking[x].user
                         /\ booking[x].status # "none" => booking'[x].status # "none"
                         /\ booking'[x].status # "none" => booking[x].status # "none"

LEMMA IdleOK == Idle \in ReqRow /\ CallOK(Idle)
<1>1. 0 \in 0 .. MaxBalance
  BY BookingAssumption
<1> QED  BY <1>1 DEF Idle, ReqRow, CallOK

LEMMA SoundInit == Init => Sound
<1> SUFFICES ASSUME Init PROVE Sound
  OBVIOUS
<1>1. balance \in [User -> 0 .. MaxBalance] /\ ledger \in [User -> Int] /\ balance \in [User -> Int]
  BY BookingAssumption DEF Init
<1>2. NoBooking \in BookingRow
  BY DEF NoBooking, BookingRow
<1> QED  BY <1>1, <1>2, IdleOK DEF Init, Sound, TypeOK, NoBooking

\* A step that changes the call of one worker and forgets no booking leaves the
\* other calls sound.
LEMMA OneCall ==
    ASSUME Sound, NEW w \in Worker, \A v \in Worker \ {w} : req'[v] = req[v],
           \A r \in BookingId : booking[r].status # "none" => booking'[r].status # "none",
           CallOK(req[w])'
    PROVE  \A v \in Worker : CallOK(req[v])'
<1>1. ASSUME NEW v \in Worker, v # w PROVE CallOK(req[v])'
  <2>1. CallOK(req[v]) /\ req'[v] = req[v]
    BY <1>1 DEF Sound
  <2> QED  BY <2>1 DEF CallOK, Known
<1> QED  BY <1>1

\* Ending a call is always sound.
LEMMA ReplyOK ==
    ASSUME Sound, NEW w \in Worker, Reply(w),
           \A r \in BookingId : booking[r].status # "none" => booking'[r].status # "none"
    PROVE  req' \in [Worker -> ReqRow] /\ \A v \in Worker : CallOK(req[v])'
<1>1. req' \in [Worker -> ReqRow] /\ req'[w] = Idle /\ \A v \in Worker \ {w} : req'[v] = req[v]
  BY IdleOK DEF Reply, Sound, TypeOK
<1>2. CallOK(req[w])'
  BY <1>1 DEF CallOK, Idle
<1> QED  BY <1>1, <1>2, OneCall

LEMMA SoundNext == Sound /\ [Next]_vars => Sound'
<1> SUFFICES ASSUME Sound, [Next]_vars PROVE Sound'
  OBVIOUS
<1> USE DEF bookingVars, walletVars
<1>1. ASSUME NEW w \in Worker, NEW u \in User, NEW next \in {"idle", "reserve"}, BeginForUser(w, u, next) PROVE Sound'
  <2> DEFINE new == IF StaleOf(u) = {} THEN [Idle EXCEPT !.pc = next, !.user = u] ELSE Expiring(u, StaleOf(u), next)
  <2>1. new \in ReqRow
    BY IdleOK DEF Expiring, Idle, ReqRow, StaleOf
  <2>2. req' \in [Worker -> ReqRow] /\ req'[w] = new /\ \A v \in Worker \ {w} : req'[v] = req[v]
    BY <1>1, <2>1 DEF BeginForUser, Sound, TypeOK
  <2>3. CallOK(req[w])'
    BY <1>1, <2>2 DEF BeginForUser, CallOK, Known, Expiring, Idle, StaleOf, Stale
  <2>4. \A v \in Worker : CallOK(req[v])'
    BY <1>1, <2>2, <2>3, OneCall DEF BeginForUser
  <2> QED  BY <1>1, <2>2, <2>4 DEF BeginForUser, Sound, TypeOK
<1>2. ASSUME NEW w \in Worker, NEW r \in BookingId, BeginForBooking(w, r) PROVE Sound'
  <2>1. booking[r].status \in Open /\ booking[r].user \in User
    BY <1>2 DEF BeginForBooking, Allowed, Open, Sound, TypeOK, BookingRow, Terminal
  <2>2. PICK new \in ReqRow : req' = [req EXCEPT ![w] = new] /\ CallOK(new)
    <3>1. CASE Stale(r)
      <4>1. Expiring(booking[r].user, {r}, "idle") \in ReqRow
        BY <2>1, IdleOK DEF Expiring, Idle, ReqRow
      <4>2. CallOK(Expiring(booking[r].user, {r}, "idle"))
        BY <2>1 DEF Expiring, Idle, CallOK, Known, Open
      <4> QED  BY <1>2, <3>1, <4>1, <4>2 DEF BeginForBooking
    <3>2. CASE ~Stale(r)
      <4>1. PICK step \in {"update"} \cup (IF booking[r].status = "PENDING" THEN {"pay"} ELSE {}) :
                req' = [req EXCEPT ![w] = [Idle EXCEPT !.pc = step, !.user = booking[r].user,
                                                       !.booking = r, !.seen = booking[r].status]]
        BY <1>2, <3>2 DEF BeginForBooking
      <4> DEFINE new == [Idle EXCEPT !.pc = step, !.user = booking[r].user, !.booking = r, !.seen = booking[r].status]
      <4>2. new \in ReqRow
        BY <2>1, IdleOK DEF Idle, ReqRow, Open
      <4>3. CallOK(new)
        BY <2>1 DEF Idle, CallOK, Known, Open
      <4> QED  BY <4>1, <4>2, <4>3
    <3> QED  BY <3>1, <3>2
  <2>3. req' \in [Worker -> ReqRow] /\ req'[w] = new /\ \A v \in Worker \ {w} : req'[v] = req[v]
    BY <2>2 DEF Sound, TypeOK
  <2>4. booking' = booking
    BY <1>2 DEF BeginForBooking
  <2>5. CallOK(req[w])'
    BY <2>2, <2>3, <2>4 DEF CallOK, Known
  <2>6. \A v \in Worker : CallOK(req[v])'
    BY <2>3, <2>4, <2>5, OneCall
  <2> QED  BY <1>2, <2>3, <2>6 DEF BeginForBooking, Sound, TypeOK
<1>3. ASSUME NEW w \in Worker, Expire(w) PROVE Sound'
  <2>1. \A r \in BookingId : /\ booking'[r] \in BookingRow /\ booking'[r].user = booking[r].user
                             /\ booking[r].status # "none" => booking'[r].status # "none"
                             /\ booking[r].status = "none" => booking'[r] = booking[r]
    BY <1>3 DEF Expire, Sound, TypeOK, BookingRow, Terminal, CallOK, Known
  <2>2. booking' \in [BookingId -> BookingRow]
    BY <1>3, <2>1 DEF Expire
  <2>3. req[w].next = "reserve" => req[w].user \in User
    BY DEF Sound, CallOK
  <2> DEFINE new == IF req[w].next = "idle" THEN Idle ELSE [Idle EXCEPT !.pc = req[w].next, !.user = req[w].user]
  <2>4. new \in ReqRow
    BY <2>3, IdleOK DEF Idle, ReqRow, Sound, TypeOK
  <2>5. req' \in [Worker -> ReqRow] /\ req'[w] = new /\ \A v \in Worker \ {w} : req'[v] = req[v]
    BY <1>3, <2>4 DEF Expire, Sound, TypeOK
  <2>6. CallOK(req[w])'
    BY <2>3, <2>5 DEF CallOK, Idle, Sound, TypeOK, ReqRow
  <2>7. \A v \in Worker : CallOK(req[v])'
    BY <2>1, <2>5, <2>6, OneCall
  <2>8. req[w].rows \subseteq BookingId
    BY DEF Sound, TypeOK, ReqRow
  <2> QED  BY <1>3, <2>1, <2>2, <2>5, <2>7, <2>8 DEF Expire, Sound, TypeOK
<1>4. ASSUME NEW w \in Worker, ChooseBattery(w) PROVE Sound'
  <2>1. PICK b \in Battery : 
            req' = [req EXCEPT ![w] = [req[w] EXCEPT !.pc = "insert", !.battery = b, !.rows = Rivals(req[w].user, b)]]
    BY <1>4 DEF ChooseBattery, Choosable
  <2> DEFINE new == [req[w] EXCEPT !.pc = "insert", !.battery = b, !.rows = Rivals(req[w].user, b)]
  <2>a. new \in ReqRow
    BY DEF Sound, TypeOK, ReqRow, Rivals
  <2>2. req' \in [Worker -> ReqRow] /\ req'[w] = new /\ \A v \in Worker \ {w} : req'[v] = req[v]
    BY <2>1, <2>a DEF Sound, TypeOK
  <2>3. CallOK(req[w])'
    <3>1. /\ new.pc = "insert" /\ new.user = req[w].user /\ new.next = req[w].next
          /\ new.rows = Rivals(req[w].user, b)
      BY DEF Sound, TypeOK, ReqRow
    <3>2. req[w].user \in User
      BY <1>4 DEF ChooseBattery, Sound, CallOK
    <3>3. \A r \in new.rows : Known(r)'
      BY <1>4, <3>1 DEF ChooseBattery, Rivals, Known
    <3> HIDE DEF new
    <3> QED  BY <2>2, <3>1, <3>2, <3>3 DEF CallOK
  <2>4. \A v \in Worker : CallOK(req[v])'
    BY <1>4, <2>2, <2>3, OneCall DEF ChooseBattery
  <2> QED  BY <1>4, <2>2, <2>4 DEF ChooseBattery, Sound, TypeOK
<1>5. ASSUME NEW w \in Worker, NEW r \in BookingId, Insert(w, r) PROVE Sound'
  <2>1. req[w].user \in User /\ req[w].battery \in Battery \cup {Null}
    BY <1>5 DEF Insert, Sound, CallOK, TypeOK, ReqRow
  <2>2. booking' \in [BookingId -> BookingRow]
    BY <1>5, <2>1 DEF Insert, Sound, TypeOK, BookingRow, Open
  <2>3. \A x \in BookingId : booking'[x].status # "none" => booking'[x].user \in User
    BY <1>5, <2>1 DEF Insert, Sound, TypeOK
  <2>4. \A x \in BookingId : booking[x].status # "none" => booking'[x].status # "none"
    BY <1>5 DEF Insert, Sound, TypeOK
  <2>5. req' \in [Worker -> ReqRow] /\ \A v \in Worker : CallOK(req[v])'
    BY <1>5, <2>4, ReplyOK DEF Insert
  <2> QED  BY <1>5, <2>2, <2>3, <2>5 DEF Insert, Sound, TypeOK
<1>6. ASSUME NEW w \in Worker, Update(w) PROVE Sound'
  <2>1. PICK st \in Allowed(req[w].seen) : SetStatus(req[w].booking, st)
    BY <1>6 DEF Update
  <2>2. st \in Open \cup Terminal /\ st # "none"
    BY DEF Allowed, Open, Terminal
  <2>3. Known(req[w].booking)
    BY <1>6 DEF Update, Sound, CallOK
  <2>4. booking' \in [BookingId -> BookingRow] /\ SameRows
    BY <2>1, <2>2, <2>3 DEF SameRows, SetStatus, Sound, TypeOK, BookingRow, Known
  <2>5. req' \in [Worker -> ReqRow] /\ \A v \in Worker : CallOK(req[v])'
    BY <1>6, <2>4, ReplyOK DEF Update, SameRows
  <2> QED  BY <1>6, <2>3, <2>4, <2>5 DEF Update, SameRows, Sound, TypeOK, Known
<1>7. ASSUME NEW w \in Worker, ReadWallet(w) PROVE Sound'
  <2>1. req[w].user \in User /\ balance[req[w].user] \in 0 .. MaxBalance
    BY <1>7 DEF ReadWallet, Sound, CallOK
  <2>2. PICK a \in Payment : /\ a <= balance[req[w].user]
                             /\ req' = [req EXCEPT ![w] = [req[w] EXCEPT !.pc = "settle", !.balance = balance[req[w].user], !.amount = a]]
    BY <1>7 DEF ReadWallet, Affordable
  <2>3. a \in 0 .. MaxBalance
    BY <2>1, <2>2, BookingAssumption
  <2> DEFINE new == [req[w] EXCEPT !.pc = "settle", !.balance = balance[req[w].user], !.amount = a]
  <2>a. new \in ReqRow
    BY <2>1, <2>3 DEF Sound, TypeOK, ReqRow
  <2>4. req' \in [Worker -> ReqRow] /\ req'[w] = new /\ \A v \in Worker \ {w} : req'[v] = req[v]
    BY <2>2, <2>a DEF Sound, TypeOK
  <2>5. CallOK(req[w])'
    <3>1. /\ new.pc = "settle" /\ new.user = req[w].user /\ new.next = req[w].next /\ new.booking = req[w].booking
          /\ new.seen = req[w].seen /\ new.rows = req[w].rows /\ new.amount = a /\ new.balance = balance[req[w].user]
      BY DEF Sound, TypeOK, ReqRow
    <3>2. CallOK(req[w]) /\ req[w].pc = "pay" /\ booking' = booking
      BY <1>7 DEF ReadWallet, Sound
    <3> HIDE DEF new
    <3> QED  BY <2>1, <2>2, <2>4, <3>1, <3>2 DEF CallOK, Known
  <2>6. \A v \in Worker : CallOK(req[v])'
    BY <1>7, <2>4, <2>5, OneCall DEF ReadWallet
  <2> QED  BY <1>7, <2>4, <2>6 DEF ReadWallet, Sound, TypeOK
<1>8. ASSUME NEW w \in Worker, Settle(w) PROVE Sound'
  <2>1. /\ req[w].user \in User /\ Known(req[w].booking)
        /\ req[w].balance \in 0 .. MaxBalance /\ req[w].amount \in 0 .. MaxBalance /\ req[w].amount <= req[w].balance
    BY <1>8 DEF Settle, Sound, CallOK, TypeOK, ReqRow
  <2>2. req[w].balance - req[w].amount \in 0 .. MaxBalance
    BY <2>1, BookingAssumption
  <2>3. balance' \in [User -> 0 .. MaxBalance] /\ balance' \in [User -> Int] /\ ledger' \in [User -> Int]
    BY <1>8, <2>1, <2>2, BookingAssumption DEF Settle, Sound, TypeOK
  <2>4. booking' \in [BookingId -> BookingRow] /\ SameRows
    BY <1>8, <2>1 DEF SameRows, Settle, SetStatus, Sound, TypeOK, BookingRow, Known, Open
  <2>5. req' \in [Worker -> ReqRow] /\ \A v \in Worker : CallOK(req[v])'
    BY <1>8, <2>4, ReplyOK DEF Settle, SameRows
  <2>6. payments' \in [BookingId -> Nat]
    BY <1>8, <2>1 DEF Settle, Sound, TypeOK, Known
  <2> QED  BY <1>8, <2>1, <2>3, <2>4, <2>5, <2>6 DEF Settle, SameRows, Sound, TypeOK, Known
<1>9. ASSUME NEW w \in Worker, Fail(w) PROVE Sound'
  BY <1>9, ReplyOK DEF Fail, Sound, TypeOK
<1>10. ASSUME NEW r \in BookingId, CancelAny(r) PROVE Sound'
  <2>1. booking' \in [BookingId -> BookingRow] /\ SameRows
    BY <1>10 DEF SameRows, CancelAny, SetStatus, Sound, TypeOK, BookingRow, Terminal
  <2>2. \A v \in Worker : CallOK(req[v])'
    BY <1>10, <2>1 DEF CancelAny, Sound, CallOK, Known, SameRows
  <2> QED  BY <1>10, <2>1, <2>2 DEF CancelAny, SameRows, Sound, TypeOK
<1>11. ASSUME NEW r \in BookingId, FallsDue(r) PROVE Sound'
  BY <1>11 DEF FallsDue, Sound, TypeOK, CallOK, Known
<1>12. ASSUME NEW w \in Worker, NEW u \in User, FindNoActive(w, u) PROVE Sound'
  <2> DEFINE new == [Idle EXCEPT !.pc = "activate", !.user = u]
  <2>1. new \in ReqRow
    BY IdleOK DEF Idle, ReqRow
  <2>2. req' \in [Worker -> ReqRow] /\ req'[w] = new /\ \A v \in Worker \ {w} : req'[v] = req[v]
    BY <1>12, <2>1 DEF FindNoActive, Sound, TypeOK
  <2>3. CallOK(req[w])'
    BY <2>2 DEF CallOK, Idle
  <2>4. \A v \in Worker : CallOK(req[v])'
    BY <1>12, <2>2, <2>3, OneCall DEF FindNoActive
  <2> QED  BY <1>12, <2>2, <2>4 DEF FindNoActive, Sound, TypeOK
<1>13. ASSUME NEW w \in Worker, NEW r \in BookingId, ReserveActive(w, r) PROVE Sound'
  <2>1. req[w].user \in User
    BY <1>13 DEF ReserveActive, Sound, CallOK
  <2>2. booking' \in [BookingId -> BookingRow]
    BY <1>13, <2>1 DEF ReserveActive, Sound, TypeOK, BookingRow, Open
  <2>3. \A x \in BookingId : /\ booking'[x].status # "none" => booking'[x].user \in User
                             /\ booking[x].status # "none" => booking'[x].status # "none"
    BY <1>13, <2>1 DEF ReserveActive, Sound, TypeOK
  <2>4. req' \in [Worker -> ReqRow] /\ \A v \in Worker : CallOK(req[v])'
    BY <1>13, <2>3, ReplyOK DEF ReserveActive
  <2> QED  BY <1>13, <2>2, <2>3, <2>4 DEF ReserveActive, Sound, TypeOK
<1>14. ASSUME NEW u \in User, NEW a \in Int, Transact(u, a) PROVE Sound'
  <2>1. balance' \in [User -> 0 .. MaxBalance] /\ balance' \in [User -> Int] /\ ledger' \in [User -> Int]
    BY <1>14, BookingAssumption DEF Transact, Sound, TypeOK
  <2> QED  BY <1>14, <2>1 DEF Transact, Sound, TypeOK, CallOK, Known
<1>15. \A a \in Payment : a \in Int /\ -a \in Int
  BY BookingAssumption
<1>16. CASE UNCHANGED vars
  BY <1>16 DEF vars, Sound, TypeOK, CallOK, Known
<1> QED  BY <1>1, <1>2, <1>3, <1>4, <1>5, <1>6, <1>7, <1>8, <1>9, <1>10, <1>11, <1>12, <1>13, <1>14, <1>15, <1>16 DEF Next, Serve

\* Every reachable state is well typed: statuses, snapshots and balances stay in
\* the sets the handlers know.
THEOREM BookingTypeCorrect == Spec => []TypeOK
<1>1. Sound => TypeOK
  BY DEF Sound
<1> QED  BY <1>1, SoundInit, SoundNext, PTL DEF Spec

\* No interleaving of unlocked payments and wallet operations overdraws a wallet.
THEOREM WalletsNeverOverdrawn == Spec => []NeverOverdrawn
<1>1. Sound => NeverOverdrawn
  BY BookingAssumption DEF Sound, NeverOverdrawn
<1> QED  BY <1>1, SoundInit, SoundNext, PTL DEF Spec

-----------------------------------------------------------------------------
(* Money.                                                                  *)

LEMMA LedgerNext == Sound /\ LedgerAgrees /\ [Next]_vars => LedgerAgrees'
<1> SUFFICES ASSUME Sound, LedgerAgrees, [Next]_vars PROVE LedgerAgrees'
  OBVIOUS
<1>1. ASSUME NEW w \in Worker, Settle(w) PROVE LedgerAgrees'
  <2>1. req[w].user \in User /\ req[w].balance \in Int /\ req[w].amount \in Int
    BY <1>1 DEF Settle, Sound, CallOK, TypeOK, ReqRow
  <2>2. ASSUME NEW u \in User \ miscounted' PROVE balance'[u] = ledger'[u]
    <3>1. u \notin miscounted /\ balance[u] = ledger[u]
      BY <1>1, <2>2 DEF Settle, LedgerAgrees
    <3>2. CASE u = req[w].user
      BY <1>1, <2>1, <2>2, <3>1, <3>2 DEF Settle, Sound, TypeOK
    <3>3. CASE u # req[w].user
      BY <1>1, <3>1, <3>3 DEF Settle, Sound, TypeOK
    <3> QED  BY <3>2, <3>3
  <2> QED  BY <2>2 DEF LedgerAgrees
<1>2. ASSUME NEW u \in User, NEW a \in Int, Transact(u, a) PROVE LedgerAgrees'
  BY <1>2 DEF Transact, LedgerAgrees, Sound, TypeOK
<1>3. \A a \in Payment : a \in Int /\ -a \in Int
  BY BookingAssumption
<1>4. CASE UNCHANGED walletVars
  BY <1>4 DEF walletVars, LedgerAgrees
<1>5. UNCHANGED walletVars \/ (\E w \in Worker : Settle(w)) \/ \E u \in User, a \in Payment : Transact(u, a) \/ Transact(u, -a)
  BY DEF Next, Serve, FindNoActive, BeginForUser, BeginForBooking, Expire, ChooseBattery, Insert, Update, ReadWallet, Fail,
         CancelAny, FallsDue, ReserveActive, vars, walletVars
<1> QED  BY <1>1, <1>2, <1>3, <1>4, <1>5

\* A balance that no payment has written over equals its transactions.
THEOREM BalanceIsTheLedger == Spec => []LedgerAgrees
<1>1. Init => LedgerAgrees
  BY DEF Init, LedgerAgrees
<1> QED  BY <1>1, SoundInit, SoundNext, LedgerNext, PTL DEF Spec

-----------------------------------------------------------------------------
(* The life of a booking.                                                  *)

\* What a step may do to a booking that no late write has changed.
Step(r) ==
    LET from == booking[r].status
        to == booking'[r].status
        unpaid == payments'[r] = payments[r]
    IN  \/ to = from /\ unpaid
        \/ from = "none" /\ to \in Open /\ unpaid
        \/ from # "none" /\ to = "CANCELLED" /\ unpaid
        \/ from = "PENDING" /\ to = "ACTIVE" /\ payments'[r] \in {payments[r], payments[r] + 1}
        \/ from = "PENDING" /\ to = "EXPIRED" /\ unpaid
        \/ from = "ACTIVE" /\ to = "COMPLETED" /\ unpaid

LEMMA EveryStep ==
    Sound /\ [Next]_vars => \A r \in BookingId : /\ r \notin overtaken' => r \notin overtaken /\ Step(r)
                                                 /\ booking[r].status # "none" => /\ booking'[r].user = booking[r].user
                                                                                  /\ booking'[r].battery = booking[r].battery
<1> SUFFICES ASSUME Sound, [Next]_vars, NEW r \in BookingId
             PROVE  /\ r \notin overtaken' => r \notin overtaken /\ Step(r)
                    /\ booking[r].status # "none" => booking'[r].user = booking[r].user /\ booking'[r].battery = booking[r].battery
  OBVIOUS
<1> DEFINE Goal == /\ r \notin overtaken' => r \notin overtaken /\ Step(r)
                   /\ booking[r].status # "none" => booking'[r].user = booking[r].user /\ booking'[r].battery = booking[r].battery
<1> USE DEF bookingVars, walletVars
<1>1. CASE booking' = booking /\ payments' = payments /\ overtaken' = overtaken
  BY <1>1 DEF Step
<1>2. ASSUME NEW w \in Worker, Expire(w) PROVE Goal
  BY <1>2 DEF Expire, Step, Sound, TypeOK, BookingRow
<1>3. ASSUME NEW w \in Worker, NEW x \in BookingId, Insert(w, x) PROVE Goal
  BY <1>3 DEF Insert, Step, Sound, TypeOK, BookingRow, Open
<1>4. ASSUME NEW w \in Worker, Update(w) PROVE Goal
  <2>1. PICK st \in Allowed(req[w].seen) : SetStatus(req[w].booking, st)
    BY <1>4 DEF Update
  <2>2. req[w].seen # "none" /\ req[w].booking \in BookingId
    BY <1>4, <2>1 DEF Update, Allowed, Sound, CallOK, Known
  <2>3. CASE r # req[w].booking
    BY <1>4, <2>1, <2>2, <2>3 DEF Update, SetStatus, Step, Sound, TypeOK
  <2>4. CASE r = req[w].booking
    <3>1. /\ booking'[r].status = st /\ booking'[r].user = booking[r].user /\ booking'[r].battery = booking[r].battery
          /\ payments' = payments
      BY <1>4, <2>1, <2>4 DEF Update, SetStatus, Sound, TypeOK, BookingRow
    <3>2. ASSUME r \notin overtaken' PROVE r \notin overtaken /\ booking[r].status = req[w].seen
      BY <1>4, <2>4, <3>2 DEF Update
    <3>3. ASSUME r \notin overtaken' PROVE Step(r)
      BY <3>1, <3>2, <3>3, <2>1, <2>2 DEF Step, Allowed
    <3> QED  BY <3>1, <3>2, <3>3
  <2> QED  BY <2>3, <2>4
<1>5. ASSUME NEW w \in Worker, Settle(w) PROVE Goal
  <2>1. req[w].booking \in BookingId
    BY <1>5 DEF Settle, Sound, CallOK, Known
  <2>2. CASE r # req[w].booking
    BY <1>5, <2>1, <2>2 DEF Settle, SetStatus, Step, Sound, TypeOK
  <2>3. CASE r = req[w].booking
    <3>1. /\ booking'[r].status = "ACTIVE" /\ booking'[r].user = booking[r].user /\ booking'[r].battery = booking[r].battery
          /\ payments'[r] = payments[r] + 1
      BY <1>5, <2>3 DEF Settle, SetStatus, Sound, TypeOK, BookingRow
    <3>2. r \notin overtaken' => r \notin overtaken /\ booking[r].status = "PENDING"
      BY <1>5, <2>3 DEF Settle
    <3> QED  BY <3>1, <3>2 DEF Step
  <2> QED  BY <2>2, <2>3
<1>6. ASSUME NEW x \in BookingId, CancelAny(x) PROVE Goal
  BY <1>6 DEF CancelAny, SetStatus, Step, Sound, TypeOK, BookingRow
<1>7. ASSUME NEW w \in Worker, NEW x \in BookingId, ReserveActive(w, x) PROVE Goal
  BY <1>7 DEF ReserveActive, Step, Sound, TypeOK, BookingRow, Open
<1>8. \/ booking' = booking /\ payments' = payments /\ overtaken' = overtaken
      \/ \E w \in Worker : Expire(w) \/ Update(w) \/ Settle(w) \/ \E x \in BookingId : Insert(w, x) \/ ReserveActive(w, x)
      \/ \E x \in BookingId : CancelAny(x)
  BY DEF Next, Serve, FindNoActive, BeginForUser, BeginForBooking, ChooseBattery, ReadWallet, Fail, FallsDue, Transact, vars
<1> QED  BY <1>1, <1>2, <1>3, <1>4, <1>5, <1>6, <1>7, <1>8

\* A booking that does not exist was not paid.
Unpaid == \A r \in BookingId : booking[r].status = "none" => payments[r] = 0

LEMMA UnpaidNext == Sound /\ Unpaid /\ [Next]_vars => Unpaid'
<1> SUFFICES ASSUME Sound, Unpaid, [Next]_vars PROVE Unpaid'
  OBVIOUS
<1>1. ASSUME NEW r \in BookingId, booking'[r].status = "none" PROVE booking[r].status = "none" /\ payments'[r] = payments[r]
  <2> USE DEF bookingVars, walletVars
  <2>1. ASSUME NEW w \in Worker, Expire(w) PROVE booking[r].status = "none" /\ payments'[r] = payments[r]
    BY <1>1, <2>1 DEF Expire, Sound, TypeOK, BookingRow, CallOK, Known
  <2>2. ASSUME NEW w \in Worker, NEW x \in BookingId, Insert(w, x) PROVE booking[r].status = "none" /\ payments'[r] = payments[r]
    BY <1>1, <2>2 DEF Insert, Sound, TypeOK
  <2>3. ASSUME NEW w \in Worker, Update(w) PROVE booking[r].status = "none" /\ payments'[r] = payments[r]
    <3>1. PICK st \in Allowed(req[w].seen) : SetStatus(req[w].booking, st)
      BY <2>3 DEF Update
    <3>2. st # "none"
      BY DEF Allowed
    <3> QED  BY <1>1, <2>3, <3>1, <3>2 DEF Update, SetStatus, Sound, TypeOK, BookingRow
  <2>4. ASSUME NEW w \in Worker, Settle(w) PROVE booking[r].status = "none" /\ payments'[r] = payments[r]
    BY <1>1, <2>4 DEF Settle, SetStatus, Sound, TypeOK, BookingRow
  <2>5. ASSUME NEW x \in BookingId, CancelAny(x) PROVE booking[r].status = "none" /\ payments'[r] = payments[r]
    BY <1>1, <2>5 DEF CancelAny, SetStatus, Sound, TypeOK, BookingRow
  <2>6. ASSUME NEW w \in Worker, NEW x \in BookingId, ReserveActive(w, x) PROVE booking[r].status = "none" /\ payments'[r] = payments[r]
    BY <1>1, <2>6 DEF ReserveActive, Sound, TypeOK
  <2>7. \/ booking' = booking /\ payments' = payments
        \/ \E w \in Worker : Expire(w) \/ Update(w) \/ Settle(w) \/ \E x \in BookingId : Insert(w, x) \/ ReserveActive(w, x)
        \/ \E x \in BookingId : CancelAny(x)
    BY DEF Next, Serve, FindNoActive, BeginForUser, BeginForBooking, ChooseBattery, ReadWallet, Fail, FallsDue, Transact, vars
  <2> QED  BY <1>1, <2>1, <2>2, <2>3, <2>4, <2>5, <2>6, <2>7
<1> QED  BY <1>1 DEF Unpaid

LEMMA PaidNext == Sound /\ Unpaid /\ PaidIsKept /\ [Next]_vars => PaidIsKept'
<1> SUFFICES ASSUME Sound, Unpaid, PaidIsKept, [Next]_vars, NEW r \in BookingId \ overtaken', payments'[r] > 0
             PROVE  payments'[r] = 1 /\ booking'[r].status \notin {"PENDING", "EXPIRED"}
  BY DEF PaidIsKept
<1>1. r \notin overtaken /\ Step(r)
  BY EveryStep
<1>2. payments[r] \in Nat /\ (payments[r] > 0 => payments[r] = 1 /\ booking[r].status \notin {"PENDING", "EXPIRED"})
  BY <1>1 DEF PaidIsKept, Sound, TypeOK
<1>3. booking[r].status = "none" => payments[r] = 0
  BY DEF Unpaid
<1> QED  BY <1>1, <1>2, <1>3 DEF Step, Open

\* A booking that no late write has changed is charged once, and once charged it
\* is neither pending nor expired.
THEOREM PaidBookingsKept == Spec => []PaidIsKept
<1>1. Init => PaidIsKept /\ Unpaid
  BY DEF Init, PaidIsKept, Unpaid
<1> QED  BY <1>1, SoundInit, SoundNext, UnpaidNext, PaidNext, PTL DEF Spec

\* Finished bookings change only by the unchecked cancellation or a late write.
THEOREM FinishedBookingsFinal == Spec => TerminalIsFinal
<1>1. ASSUME Sound, [Next]_vars, NEW r \in BookingId, booking[r].status \in Terminal, r \notin overtaken'
      PROVE  booking'[r].status \in {booking[r].status, "CANCELLED"}
  <2>1. Step(r)
    BY <1>1, EveryStep
  <2> QED  BY <1>1, <2>1 DEF Step, Terminal
<1>2. Sound /\ [Next]_vars
        => [\A r \in BookingId : booking[r].status \in Terminal /\ r \notin overtaken'
                                    => booking'[r].status \in {booking[r].status, "CANCELLED"}]_vars
  BY <1>1
<1> QED  BY <1>2, SoundInit, SoundNext, PTL DEF Spec, TerminalIsFinal

-----------------------------------------------------------------------------
(* Exclusive reservations.                                                 *)

\* What a call saw of its user's and its battery's bookings when it chose is
\* over, and stays so: only a late write brings one of them back.
RivalsGone ==
    \A w \in Worker : req[w].pc = "insert" => \A r \in req[w].rows : r \in overtaken \/ ~Live(r)

\* A booking is live after a step only if it was before, or is new, or a late
\* write has changed it.
LEMMA StaysOver ==
    ASSUME Sound, [Next]_vars, NEW r \in BookingId, booking[r].status # "none", r \notin overtaken', Live(r)'
    PROVE  r \notin overtaken /\ Live(r)
<1>1. due \subseteq due'
  BY DEF Next, Serve, FindNoActive, BeginForUser, BeginForBooking, Expire, ChooseBattery, Insert, Update, ReadWallet, Settle, Fail,
         CancelAny, FallsDue, ReserveActive, Transact, vars, bookingVars
<1>2. r \notin overtaken /\ Step(r)
  BY EveryStep
<1> QED  BY <1>1, <1>2 DEF Live, Step, Open

LEMMA RivalsNext == Sound /\ RivalsGone /\ [Next]_vars => RivalsGone'
<1> SUFFICES ASSUME Sound, RivalsGone, [Next]_vars, NEW w \in Worker, req'[w].pc = "insert",
                    NEW r \in req'[w].rows, r \notin overtaken', Live(r)'
             PROVE  FALSE
  BY DEF RivalsGone
<1>1. CASE req'[w] = req[w]
  <2>1. r \in BookingId /\ booking[r].status # "none"
    BY <1>1 DEF Sound, CallOK, Known
  <2>2. r \notin overtaken /\ Live(r)
    BY <2>1, StaysOver
  <2> QED  BY <1>1, <2>2 DEF RivalsGone
<1>2. CASE ChooseBattery(w)
  <2>1. PICK b \in Choosable(req[w].user) :
            req' = [req EXCEPT ![w] = [req[w] EXCEPT !.pc = "insert", !.battery = b, !.rows = Rivals(req[w].user, b)]]
    BY <1>2 DEF ChooseBattery
  <2>2. req'[w].rows = Rivals(req[w].user, b) /\ booking' = booking /\ due' = due
    BY <1>2, <2>1 DEF ChooseBattery, bookingVars, Sound, TypeOK, ReqRow
  <2> QED  BY <2>1, <2>2 DEF Rivals, Choosable, Conflicts, Live
<1>3. req'[w] = req[w] \/ ChooseBattery(w)
  <2>1. ASSUME NEW v \in Worker, Serve(v), v # w PROVE req'[w] = req[w]
    BY <2>1 DEF Serve, FindNoActive, ReserveActive, BeginForUser, BeginForBooking, Expire, ChooseBattery, Insert, Update, ReadWallet, Settle, Fail,
                Reply, Sound, TypeOK
  <2>2. ASSUME Serve(w) PROVE ChooseBattery(w)
    <3>1. \A x : req' = [req EXCEPT ![w] = x] => x.pc = "insert"
      BY DEF Sound, TypeOK
    <3>2. Idle.pc # "insert"
      BY DEF Idle
    <3>3. ~ \E u \in User, next \in {"idle", "reserve"} : BeginForUser(w, u, next)
      BY <3>1 DEF BeginForUser, Expiring, Idle
    <3>4. ~ \E x \in BookingId : BeginForBooking(w, x)
      BY <3>1 DEF BeginForBooking, Expiring, Idle
    <3>5. ~ Expire(w)
      <4>1. req[w].next \in {"idle", "reserve"}
        BY DEF Sound, TypeOK, ReqRow
      <4>2. [Idle EXCEPT !.pc = req[w].next, !.user = req[w].user].pc # "insert"
        BY <4>1 DEF Idle
      <4> QED  BY <3>1, <3>2, <4>2 DEF Expire
    <3>6. ~ ReadWallet(w)
      BY <3>1 DEF ReadWallet, Sound, TypeOK, ReqRow
    <3>7. ~ Reply(w)
      BY <3>1, <3>2 DEF Reply
    <3>8. ~ \E u \in User : FindNoActive(w, u)
      BY <3>1 DEF FindNoActive, Idle
    <3> QED  BY <2>2, <3>3, <3>4, <3>5, <3>6, <3>7, <3>8 DEF Serve, Insert, ReserveActive, Update, Settle, Fail
  <2>3. (\E v \in Worker : Serve(v)) \/ req' = req
    BY DEF Next, CancelAny, FallsDue, Transact, vars
  <2> QED  BY <2>1, <2>2, <2>3
<1> QED  BY <1>1, <1>2, <1>3

LEMMA ExclusiveNext == Sound /\ RivalsGone /\ LiveExclusive /\ [Next]_vars => LiveExclusive'
<1> SUFFICES ASSUME Sound, RivalsGone, LiveExclusive, [Next]_vars,
                    NEW r \in BookingId, NEW x \in BookingId, r \notin (overtaken \cup doubled)', x \notin (overtaken \cup doubled)',
                    r # x, Live(r)', Live(x)', booking'[r].battery # Null, booking'[x].battery # Null
             PROVE  booking'[r].user # booking'[x].user /\ booking'[r].battery # booking'[x].battery
  BY DEF LiveExclusive
<1>1. doubled \subseteq doubled'
  BY DEF Next, Serve, FindNoActive, BeginForUser, BeginForBooking, Expire, ChooseBattery, Insert, Update, ReadWallet, Settle, Fail,
         CancelAny, FallsDue, ReserveActive, Transact, vars, bookingVars
<1>2. CASE booking[r].status # "none" /\ booking[x].status # "none"
  <2>1. r \notin overtaken /\ x \notin overtaken /\ Live(r) /\ Live(x)
    BY <1>2, StaysOver
  <2>2. /\ booking'[r].user = booking[r].user /\ booking'[r].battery = booking[r].battery
        /\ booking'[x].user = booking[x].user /\ booking'[x].battery = booking[x].battery
    BY <1>2, EveryStep
  <2> QED  BY <1>1, <2>1, <2>2 DEF LiveExclusive
\* One of the two is new: the call that inserted it saw the other was over.
<1>3. ASSUME NEW a \in {r, x}, NEW c \in {r, x}, a # c, booking[a].status = "none"
      PROVE  booking'[a].user # booking'[c].user /\ booking'[a].battery # booking'[c].battery
  <2>0. booking'[a].status \in Open /\ booking'[a].battery # Null
    BY DEF Live
  <2>1. PICK w \in Worker : Insert(w, a)
    <3>1. \A w \in Worker : ~Expire(w)
      BY <1>3, <2>0 DEF Expire, Sound, CallOK, Known, TypeOK, Open
    <3>2. ASSUME NEW w \in Worker, Update(w) PROVE FALSE
      <4>1. req[w].booking # a
        BY <1>3, <3>2 DEF Update, Sound, CallOK, Known
      <4>2. booking'[a] = booking[a]
        BY <1>3, <3>2, <4>1 DEF Update, SetStatus, Sound, TypeOK
      <4> QED  BY <1>3, <2>0, <4>2 DEF Open
    <3>3. \A w \in Worker : ~Settle(w)
      BY <1>3, <2>0 DEF Settle, SetStatus, Sound, CallOK, Known, TypeOK, Open
    <3>4. \A y \in BookingId : ~CancelAny(y)
      BY <1>3, <2>0 DEF CancelAny, SetStatus, Sound, TypeOK, Open
    <3>5. \A w \in Worker, y \in BookingId : ~ReserveActive(w, y)
      BY <1>3, <2>0 DEF ReserveActive, Sound, TypeOK, Open
    <3>6. booking' # booking
      BY <1>3, <2>0 DEF Open
    <3>7. \A w \in Worker, y \in BookingId : Insert(w, y) => y = a
      BY <1>3, <2>0 DEF Insert, Sound, TypeOK, Open
    <3> QED  BY <3>1, <3>2, <3>3, <3>4, <3>5, <3>6, <3>7
             DEF Next, Serve, FindNoActive, BeginForUser, BeginForBooking, ChooseBattery, ReadWallet, Fail, FallsDue, Transact, vars, bookingVars
  <2>2. booking'[a].user = req[w].user /\ booking'[a].battery = req[w].battery /\ booking'[c] = booking[c] /\ due' = due
    BY <1>3, <2>1 DEF Insert, Sound, TypeOK
  <2>3. Conflicts(req[w].user, req[w].battery) \subseteq req[w].rows
    BY <2>1 DEF Insert
  <2>4. Live(c) /\ c \notin overtaken
    BY <2>1, <2>2 DEF Live, Insert
  <2>5. c \notin req[w].rows
    BY <2>1, <2>4 DEF RivalsGone, Insert
  <2> QED  BY <2>2, <2>3, <2>4, <2>5 DEF Conflicts
<1> QED  BY <1>2, <1>3

\* Live reservations share neither a user nor a battery, but for the overlaps
\* the ghosts name.
THEOREM LiveBookingsExclusive == Spec => []LiveExclusive
<1>1. Init => RivalsGone /\ LiveExclusive
  BY DEF Init, RivalsGone, LiveExclusive, Idle, Live, NoBooking, Open
<1> QED  BY <1>1, SoundInit, SoundNext, RivalsNext, ExclusiveNext, PTL DEF Spec
=============================================================================
