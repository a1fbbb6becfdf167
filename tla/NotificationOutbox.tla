------------------------- MODULE NotificationOutbox -------------------------
(***************************************************************************)
(* Deferred notifications: notification_service.py writes a notification   *)
(* and its outbox row, notification_outbox_service.py claims rows, calls   *)
(* the provider inside the claiming transaction and commits afterwards.    *)
(*                                                                         *)
(* Two callers dispatch: the notification worker, for the one notification *)
(* its stream event names, and process_pending_scheduled_notifications,    *)
(* for all.  Nothing in the repository calls the latter.  The wallet       *)
(* stages rows under a key of its own, so that sweep adds a second row to  *)
(* the same notification; and since no constraint of the table keeps keys  *)
(* apart, sweeps that overlap each add one.                                *)
(***************************************************************************)
EXTENDS Naturals, FiniteSets

CONSTANTS
    Notification,
    Dispatcher,     \* worker threads and callers of the sweep
    MaxAttempts,    \* NOTIFICATION_OUTBOX_MAX_ATTEMPTS
    Columns,        \* columns _dispatch_claimed_row reads that Notification maps
    Budget          \* bound: how many crashes, rollbacks and lost answers a behaviour contains

ASSUME NotificationAssumption ==
    /\ MaxAttempts \in Nat \ {0} /\ Budget \in Nat /\ Columns \subseteq {"app_scope"}
    /\ Dispatcher \cap {"own", "wallet"} = {}

VARIABLES
    notif,          \* Notification.status
    due,            \* notifications whose scheduled_at has come
    row,            \* outbox rows, by notification and who inserted them
    queue,          \* notifications with a stream event nobody has read
    budget,         \* crashes, rollbacks and lost answers left
    missing,        \* per dispatcher, the notifications its sweep found without a row
    scope,          \* per dispatcher, the notifications its call is about
    batch,          \* rows its open transaction has locked
    out,            \* what it has decided about them
    draft,          \* notification statuses it has written and not committed
    sent,           \* rows of the batch the provider has answered for
    sends,          \* how often the provider accepted each row
    lost            \* ghost: how many of these left no record: the answer never
                    \* came, or what it led to was rolled back

dispatchVars == <<missing, scope, batch, out, draft, sent>>
vars == <<notif, due, row, queue, budget, dispatchVars, sends, lost>>

\* The row of send_notification, the one _stage_recharge_notifications adds under
\* a key derived from the payment, and those that sweeps add.  All but the
\* wallet's have the key "notification:<id>".
Row == Notification \X ({"own", "wallet"} \cup Dispatcher)

Status == {"absent", "deleted", "queued", "sent", "failed", "skipped", "dead_letter"}
NoRow == [status |-> "absent", attempts |-> 0]
Exists(r) == row[r].status # "absent"
RowsOf(n) == {r \in Row : r[1] = n /\ Exists(r)}
HasKey(n) == \E r \in RowsOf(n) : r[2] # "wallet"

Init ==
    /\ notif = [n \in Notification |-> "absent"] /\ due = {}
    /\ row = [r \in Row |-> NoRow]
    /\ queue = {} /\ budget = Budget
    /\ missing = [d \in Dispatcher |-> {}]
    /\ scope = [d \in Dispatcher |-> {}] /\ batch = [d \in Dispatcher |-> {}]
    /\ out = [d \in Dispatcher |-> [r \in Row |-> "undecided"]]
    /\ draft = [d \in Dispatcher |-> [n \in Notification |-> "unwritten"]]
    /\ sent = [d \in Dispatcher |-> {}]
    /\ sends = [r \in Row |-> 0] /\ lost = [r \in Row |-> 0]

-----------------------------------------------------------------------------
(* Producers.                                                              *)

\* send_notification at once: the provider is called before the insert.
SendNow(n) ==
    /\ notif[n] = "absent"
    /\ \E st \in {"sent", "failed", "skipped"} : notif' = [notif EXCEPT ![n] = st]
    /\ UNCHANGED <<due, row, queue, budget, dispatchVars, sends, lost>>

\* send_notification deferred, now or at a later time: notification and row in
\* one transaction, then a stream event if it is due and the queue is on.
SendLater(n) ==
    /\ notif[n] = "absent"
    /\ notif' = [notif EXCEPT ![n] = "queued"]
    /\ row' = [row EXCEPT ![<<n, "own">>].status = "pending"]
    /\ \/ UNCHANGED <<due, queue>>
       \/ due' = due \cup {n} /\ queue' \in {queue, queue \cup {n}}
    /\ UNCHANGED <<budget, dispatchVars, sends, lost>>

\* _stage_recharge_notifications
StageRecharge(n) ==
    /\ notif[n] = "absent"
    /\ notif' = [notif EXCEPT ![n] = "queued"]
    /\ row' = [row EXCEPT ![<<n, "wallet">>].status = "pending"]
    /\ due' = due \cup {n}
    /\ UNCHANGED <<queue, budget, dispatchVars, sends, lost>>

FallsDue(n) ==
    /\ notif[n] = "queued" /\ n \notin due
    /\ due' = due \cup {n}
    /\ UNCHANGED <<notif, row, queue, budget, dispatchVars, sends, lost>>

\* delete_notification and clear_all_notifications: the foreign key of an
\* outbox row refuses the whole delete.
Delete(S) ==
    /\ S # {} /\ \A n \in S : notif[n] \notin {"absent", "deleted"} /\ RowsOf(n) = {}
    /\ notif' = [n \in Notification |-> IF n \in S THEN "deleted" ELSE notif[n]]
    /\ UNCHANGED <<due, row, queue, budget, dispatchVars, sends, lost>>

-----------------------------------------------------------------------------
(* Dispatchers.                                                            *)

Free(d) == scope[d] = {}

\* _process_notification_event
TakeEvent(d, n) ==
    /\ Free(d) /\ n \in queue
    /\ queue' = queue \ {n}
    /\ scope' = [scope EXCEPT ![d] = {n}]
    /\ UNCHANGED <<notif, due, row, budget, missing, batch, out, draft, sent, sends, lost>>

\* process_pending_scheduled_notifications looks for what is due and, in
\* enqueue, for a row that has the key already, ...
Sweep(d) ==
    /\ Free(d)
    /\ missing' = [missing EXCEPT ![d] = {n \in due : notif[n] = "queued" /\ ~HasKey(n)}]
    /\ scope' = [scope EXCEPT ![d] = Notification]
    /\ UNCHANGED <<notif, due, row, queue, budget, batch, out, draft, sent, sends, lost>>

\* ... and commits the rows it found missing.
Enqueue(d) ==
    /\ missing[d] # {}
    /\ row' = [r \in Row |-> IF r[1] \in missing[d] /\ r[2] = d THEN [NoRow EXCEPT !.status = "pending"] ELSE row[r]]
    /\ missing' = [missing EXCEPT ![d] = {}]
    /\ UNCHANGED <<notif, due, queue, budget, scope, batch, out, draft, sent, sends, lost>>

Locked == UNION {batch[d] : d \in Dispatcher}

\* Mutant: rows another transaction has locked are read all the same.
Claimable_unlocked(d) ==
    {r \in Row : /\ row[r].status \in {"pending", "failed"} /\ row[r].attempts < MaxAttempts
                 /\ r[1] \in due \cap scope[d]}

\* Mutant: whatever is not published is tried again, however often it was.
Claimable_unpublished(d) ==
    {r \in Row : Exists(r) /\ row[r].status # "published" /\ r[1] \in due \cap scope[d]} \ Locked

\* _RETRYABLE_STATUSES, FOR UPDATE SKIP LOCKED
Claimable(d) ==
    {r \in Row : /\ row[r].status \in {"pending", "failed"} /\ row[r].attempts < MaxAttempts
                 /\ r[1] \in due \cap scope[d]} \ Locked

\* A failed row waits for its next_attempt_at: which of them are due again is
\* up to the clock.
DueNow(d) == {S \in SUBSET Claimable(d) : {r \in Claimable(d) : row[r].status = "pending"} \subseteq S}

\* _claim_rows: a batch is large enough for all that are due.
ClaimRows(d) ==
    /\ ~Free(d) /\ missing[d] = {} /\ batch[d] = {}
    /\ \E S \in DueNow(d) \ {{}} : batch' = [batch EXCEPT ![d] = S]
    /\ UNCHANGED <<notif, due, row, queue, budget, missing, scope, out, draft, sent, sends, lost>>

\* Nothing to claim: the call returns.
ClaimNone(d) ==
    /\ ~Free(d) /\ missing[d] = {} /\ batch[d] = {} /\ {} \in DueNow(d)
    /\ scope' = [scope EXCEPT ![d] = {}]
    /\ UNCHANGED <<notif, due, row, queue, budget, missing, batch, out, draft, sent, sends, lost>>

\* The notification as this session sees it.
Seen(d, n) == IF draft[d][n] # "unwritten" THEN draft[d][n] ELSE notif[n]

Decide(d, r, outcome) == out' = [out EXCEPT ![d][r] = outcome]

\* The ORM writes a column only when its value changed.
Write(d, n, st) == draft' = IF Seen(d, n) = st THEN draft ELSE [draft EXCEPT ![d][n] = st]

GivesUp(r) == row[r].attempts + 1 >= MaxAttempts

Undecided(d) == {r \in batch[d] : out[d][r] = "undecided"}

\* _handle_terminal_without_send applies
HandledBefore(d, r) == Seen(d, r[1]) \in {"sent", "skipped", "dead_letter"}

CloseWithoutSend(d, r) ==
    /\ r \in Undecided(d) /\ HandledBefore(d, r)
    /\ Decide(d, r, IF Seen(d, r[1]) = "dead_letter" THEN "dead_letter" ELSE "published")
    /\ UNCHANGED <<draft, sent, sends, lost, budget>>

\* The call of the provider names notification.app_scope.  models/notification.py
\* has no such column: without it the call raises before it is made.
CallsProvider == "app_scope" \in Columns

Delivered(d, r) ==
    /\ r \in Undecided(d) /\ ~HandledBefore(d, r) /\ CallsProvider
    /\ Decide(d, r, "published") /\ Write(d, r[1], "sent")
    /\ sent' = [sent EXCEPT ![d] = @ \cup {r}]
    /\ sends' = [sends EXCEPT ![r] = @ + 1]
    /\ UNCHANGED <<lost, budget>>

\* The provider accepts and its answer is lost.
Unanswered(r) ==
    /\ CallsProvider /\ budget > 0
    /\ budget' = budget - 1
    /\ sends' = [sends EXCEPT ![r] = @ + 1] /\ lost' = [lost EXCEPT ![r] = @ + 1]

\* No such user (checked before the provider is called), no device, the provider
\* refuses, or the call fails, before or after it accepted: the three providers
\* return False on every exception.
NotDelivered(d, r) ==
    LET outcome == IF GivesUp(r) THEN "dead_letter" ELSE "failed" IN
    /\ r \in Undecided(d) /\ ~HandledBefore(d, r)
    /\ Decide(d, r, outcome) /\ Write(d, r[1], outcome)
    /\ UNCHANGED sent
    /\ Unanswered(r) \/ UNCHANGED <<sends, lost, budget>>

\* An exception on the way to the provider (the providers catch their own):
\* only the row is written.
Raised(d, r) ==
    /\ r \in Undecided(d) /\ ~HandledBefore(d, r)
    /\ Decide(d, r, IF GivesUp(r) THEN "dead_letter" ELSE "failed")
    /\ UNCHANGED <<draft, sent, sends, lost, budget>>

\* _dispatch_claimed_row
DispatchRow(d, r) ==
    /\ CloseWithoutSend(d, r) \/ Delivered(d, r) \/ NotDelivered(d, r) \/ Raised(d, r)
    /\ UNCHANGED <<notif, due, row, queue, missing, scope, batch>>

EndCall(d) ==
    /\ scope' = [scope EXCEPT ![d] = {}]
    /\ batch' = [batch EXCEPT ![d] = {}]
    /\ out' = [out EXCEPT ![d] = [r \in Row |-> "undecided"]]
    /\ draft' = [draft EXCEPT ![d] = [n \in Notification |-> "unwritten"]]
    /\ sent' = [sent EXCEPT ![d] = {}]

\* Mutant: a row that could not be delivered is recorded as published.
Outcome_blind(d, r) == [status |-> "published", attempts |-> row[r].attempts + 1]

Outcome(d, r) == [status |-> out[d][r], attempts |-> row[r].attempts + 1]

\* Mutant: the notifications of the batch are not saved.
Saved_rowsOnly(d, n) == notif[n]

Saved(d, n) == Seen(d, n)

\* dispatch_pending_once commits the whole batch.
Commit(d) ==
    /\ batch[d] # {} /\ Undecided(d) = {}
    /\ row' = [r \in Row |-> IF r \in batch[d] THEN Outcome(d, r) ELSE row[r]]
    /\ notif' = [n \in Notification |-> Saved(d, n)]
    /\ EndCall(d)
    /\ UNCHANGED <<due, queue, budget, missing, sends, lost>>

\* The process dies or the database fails: the batch is rolled back, attempts
\* included, and only the sends remain.  A worker that is still alive publishes
\* its event again.
Undo(d) ==
    /\ batch[d] # {} /\ budget > 0
    /\ budget' = budget - 1
    /\ lost' = [r \in Row |-> IF r \in sent[d] THEN lost[r] + 1 ELSE lost[r]]
    /\ EndCall(d)
    /\ \/ Cardinality(scope[d]) = 1 /\ queue' = queue \cup scope[d]
       \/ UNCHANGED queue
    /\ UNCHANGED <<notif, due, row, missing, sends>>

-----------------------------------------------------------------------------
Call(d) == Enqueue(d) \/ ClaimRows(d) \/ ClaimNone(d) \/ Commit(d) \/ \E r \in Row : DispatchRow(d, r)

Worker(d) == Call(d) \/ \E n \in Notification : TakeEvent(d, n)

Next ==
    \/ \E n \in Notification : SendNow(n) \/ SendLater(n) \/ StageRecharge(n) \/ FallsDue(n)
    \/ \E S \in SUBSET Notification : Delete(S)
    \/ \E d \in Dispatcher : Worker(d) \/ Sweep(d) \/ Undo(d)

Spec == Init /\ [][Next]_vars

-----------------------------------------------------------------------------
(* Properties.                                                             *)

TypeOK ==
    /\ notif \in [Notification -> Status] /\ due \subseteq Notification /\ queue \subseteq Notification
    /\ row \in [Row -> [status : {"absent", "pending", "failed", "published", "dead_letter"}, attempts : 0 .. MaxAttempts]]
    /\ budget \in 0 .. Budget
    /\ missing \in [Dispatcher -> SUBSET Notification]
    /\ scope \in [Dispatcher -> SUBSET Notification] /\ batch \in [Dispatcher -> SUBSET Row]
    /\ out \in [Dispatcher -> [Row -> {"undecided", "published", "failed", "dead_letter"}]]
    /\ draft \in [Dispatcher -> [Notification -> {"unwritten", "sent", "failed", "dead_letter"}]]
    /\ sent \in [Dispatcher -> SUBSET Row]
    /\ sends \in [Row -> Nat] /\ lost \in [Row -> Nat]

\* A row is delivered a second time only when the provider's answer to an earlier
\* delivery never came or what it led to was rolled back: workers and sweeps
\* that overlap never repeat one.
ResentOnlyIfLost == \A r \in Row : sends[r] <= lost[r] + 1

\* A published row stands for a notification the provider has accepted under
\* one of its rows, also when it was closed without a send of its own.
PublishedWasSent == \A r \in Row : row[r].status = "published" => \E q \in RowsOf(r[1]) : sends[q] > 0

\* A notification with one row is "sent" exactly when its row is published:
\* the two tables are committed together.
SentAgrees ==
    \A n \in Notification : \A r \in RowsOf(n) : RowsOf(n) = {r} => (notif[n] = "sent" <=> row[r].status = "published")

Channel == INSTANCE AtLeastOnce WITH
    Message <- Row,
    accepted <- {r \in Row : Exists(r)},
    confirmed <- {r \in Row : row[r].status = "published" /\ sends[r] > 0},
    abandoned <- {r \in Row : row[r].status = "dead_letter" \/ (row[r].status = "published" /\ sends[r] = 0)}

\* The outbox is an at-least-once channel, rows closed without a send counting
\* as given up.
ImplementsChannel == Channel!Spec
=============================================================================
