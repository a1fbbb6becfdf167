--------------------------- MODULE RealtimeOutbox ---------------------------
(***************************************************************************)
(* Which API process runs the embedded background work                     *)
(* (background_runtime_service.py, main.py) and how the elected one drains *)
(* the order events (order_realtime_outbox_service.py and the loop of      *)
(* websocket_service.py).                                                  *)
(*                                                                         *)
(* Two Redis locks with a time to live: the leader lock, taken once when a *)
(* process starts, and the dispatch lock, taken by each round.  A lock is  *)
(* worth the token it holds; Dead stands for the token of a process or of  *)
(* a round that is gone.  Rows are published inside the transaction that   *)
(* locks them, and committed afterwards.                                   *)
(***************************************************************************)
EXTENDS Naturals, FiniteSets

CONSTANTS
    Row,            \* order events
    Process,        \* API processes
    BatchSize,      \* ORDER_REALTIME_OUTBOX_BATCH_SIZE
    MaxAttempts,    \* ORDER_REALTIME_OUTBOX_MAX_ATTEMPTS
    Budget,         \* bound: how many disturbances a behaviour contains
    Free, Dead

ASSUME OutboxAssumption ==
    /\ BatchSize \in Nat \ {0} /\ MaxAttempts \in Nat \ {0} /\ Budget \in Nat
    /\ Free # Dead /\ Free \notin Process /\ Dead \notin Process

VARIABLES
    required,       \* BACKGROUND_RUNTIME_LOCK_REQUIRED
    redis,          \* whether the processes reach Redis
    budget,         \* disturbances left
    leaderLock,     \* who owns BACKGROUND_RUNTIME_LEADER_LOCK_KEY
    role,           \* what each process decided when it started
    expired,        \* ghost: the leader lock ran out under a live leader
    dispatchLock,   \* who owns ORDER_DISPATCH_LOCK_KEY
    row,            \* the committed outbox rows
    pc,             \* where each dispatching thread is
    batch,          \* rows its open transaction has locked
    sent,           \* rows of the batch it has published
    failed,         \* rows of the batch it could not publish
    sends,          \* how often each event reached the channel
    lost            \* ghost: how many of these sends left no record

runtimeVars == <<required, leaderLock, role, expired>>
rowVars == <<row, batch, sent, failed, sends, lost>>
vars == <<runtimeVars, rowVars, redis, budget, dispatchLock, pc>>

Role == {"down", "follower", "leader", "deposed", "local"}

\* run_outbox_dispatch: these processes started the dispatch loop.
Running(p) == role[p] \in {"leader", "deposed", "local"}

Init ==
    /\ required \in BOOLEAN /\ redis = "up" /\ budget = Budget
    /\ leaderLock = Free /\ dispatchLock = Free /\ expired = FALSE
    /\ role = [p \in Process |-> "down"]
    /\ row = [r \in Row |-> [status |-> "none", attempts |-> 0]]
    /\ pc = [p \in Process |-> "idle"]
    /\ batch = [p \in Process |-> {}] /\ sent = [p \in Process |-> {}] /\ failed = [p \in Process |-> {}]
    /\ sends = [r \in Row |-> 0] /\ lost = [r \in Row |-> 0]

Goto(p, to) == pc' = [pc EXCEPT ![p] = to]

Disturb == budget > 0 /\ budget' = budget - 1

-----------------------------------------------------------------------------
(* The leader.                                                             *)

\* Mutant: SET without NX.
Start_noNX(p) ==
    /\ role[p] = "down" /\ pc[p] = "idle"
    /\ redis = "up"
    /\ leaderLock' = p
    /\ role' = [role EXCEPT ![p] = "leader"]
    /\ UNCHANGED <<required, expired, rowVars, redis, budget, dispatchLock, pc>>

\* initialize: the decision is taken once, for the life of the process.
Start(p) ==
    /\ role[p] = "down" /\ pc[p] = "idle"
    /\ \/ /\ redis = "up" /\ leaderLock = Free
          /\ leaderLock' = p
          /\ role' = [role EXCEPT ![p] = "leader"]
       \/ /\ redis = "up" /\ leaderLock # Free
          /\ role' = [role EXCEPT ![p] = "follower"]
          /\ UNCHANGED leaderLock
       \/ /\ redis = "down"
          /\ role' = [role EXCEPT ![p] = IF required THEN "follower" ELSE "local"]
          /\ UNCHANGED leaderLock
    /\ UNCHANGED <<required, expired, rowVars, redis, budget, dispatchLock, pc>>

\* _renew_leader_loop finds another token in the lock: it stops renewing, and
\* the work the process had started goes on.
Renew(p) ==
    /\ role[p] = "leader"
    /\ redis = "up"
    /\ leaderLock # p
    /\ role' = [role EXCEPT ![p] = "deposed"]
    /\ UNCHANGED <<required, leaderLock, expired, rowVars, redis, budget, dispatchLock, pc>>

\* The time to live passes; a live leader did not get to renew it in time.
ExpireLeaderLock ==
    /\ leaderLock \in Process
    /\ Disturb
    /\ leaderLock' = Free
    /\ expired' = TRUE
    /\ UNCHANGED <<required, role, rowVars, redis, dispatchLock, pc>>

\* The lock of a process that is gone runs out by itself.
ExpireDeadLock ==
    /\ leaderLock = Dead
    /\ leaderLock' = Free
    /\ UNCHANGED <<required, role, expired, rowVars, redis, budget, dispatchLock, pc>>

\* shutdown releases the lock if it still holds this process's token and Redis
\* answers.  The loop is cancelled; a round that is under way ends in its thread.
Shutdown(p) ==
    /\ role[p] # "down"
    /\ Disturb
    /\ role' = [role EXCEPT ![p] = "down"]
    /\ leaderLock' = IF leaderLock # p THEN leaderLock ELSE IF redis = "up" THEN Free ELSE Dead
    /\ UNCHANGED <<required, expired, rowVars, redis, dispatchLock, pc>>

\* The process dies: its locks keep its token, its transaction is rolled back.
Crash(p) ==
    /\ role[p] # "down" \/ pc[p] # "idle"
    /\ Disturb
    /\ role' = [role EXCEPT ![p] = "down"]
    /\ leaderLock' = IF leaderLock = p THEN Dead ELSE leaderLock
    /\ dispatchLock' = IF dispatchLock = p THEN Dead ELSE dispatchLock
    /\ lost' = [r \in Row |-> IF r \in sent[p] THEN lost[r] + 1 ELSE lost[r]]
    /\ batch' = [batch EXCEPT ![p] = {}] /\ sent' = [sent EXCEPT ![p] = {}] /\ failed' = [failed EXCEPT ![p] = {}]
    /\ Goto(p, "idle")
    /\ UNCHANGED <<required, expired, row, sends, redis>>

RedisFails ==
    /\ redis = "up" /\ Disturb /\ redis' = "down"
    /\ UNCHANGED <<runtimeVars, rowVars, dispatchLock, pc>>

RedisRecovers ==
    /\ redis = "down" /\ redis' = "up"
    /\ UNCHANGED <<runtimeVars, rowVars, budget, dispatchLock, pc>>

-----------------------------------------------------------------------------
(* The outbox.                                                             *)

\* enqueue, in the transaction of the order operation it tells about
Enqueue(r) ==
    /\ row[r].status = "none"
    /\ row' = [row EXCEPT ![r].status = "pending"]
    /\ UNCHANGED <<runtimeVars, batch, sent, failed, sends, lost, redis, budget, dispatchLock, pc>>

\* _acquire_dispatch_lock: a held lock ends the round; without Redis the round
\* goes on without a lock.
AcquireDispatchLock(p) ==
    /\ Running(p) /\ pc[p] = "idle"
    /\ \/ redis = "up" /\ dispatchLock = Free /\ dispatchLock' = p
       \/ redis = "down" /\ UNCHANGED dispatchLock
    /\ Goto(p, "claim")
    /\ UNCHANGED <<runtimeVars, rowVars, redis, budget>>

Locked == UNION {batch[p] : p \in Process}

\* Mutant: a row that failed is not looked at again.
Claimable_pendingOnly == {r \in Row : row[r].status = "pending" /\ row[r].attempts < MaxAttempts} \ Locked

\* Mutant: without SKIP LOCKED on a read that does not lock.
Claimable_unlocked == {r \in Row : row[r].status \in {"pending", "failed"} /\ row[r].attempts < MaxAttempts}

\* PENDING_STATUSES, FOR UPDATE SKIP LOCKED.  "processing" is written and
\* overwritten in one transaction: no other session ever sees it.
Claimable == {r \in Row : row[r].status \in {"pending", "failed"} /\ row[r].attempts < MaxAttempts} \ Locked

\* Which of the failed rows are due again is up to the clock.
ClaimRows(p) ==
    /\ pc[p] = "claim"
    /\ \/ /\ \E S \in SUBSET Claimable \ {{}} : /\ Cardinality(S) <= BatchSize
                                                /\ batch' = [batch EXCEPT ![p] = S]
          /\ Goto(p, "publish")
       \/ /\ Claimable = {}
          /\ Goto(p, "release")
          /\ UNCHANGED batch
    /\ UNCHANGED <<runtimeVars, row, sent, failed, sends, lost, redis, budget, dispatchLock>>

Waiting(p) == batch[p] \ (sent[p] \cup failed[p])

\* _publish_payload.  A publish that times out may have reached the channel.
PublishRow(p) ==
    /\ pc[p] = "publish"
    /\ \E r \in Waiting(p) :
          \/ /\ redis = "up"
             /\ sent' = [sent EXCEPT ![p] = @ \cup {r}]
             /\ sends' = [sends EXCEPT ![r] = @ + 1]
             /\ UNCHANGED <<failed, lost, budget>>
          \/ /\ failed' = [failed EXCEPT ![p] = @ \cup {r}]
             /\ UNCHANGED <<sent, sends, lost, budget>>
          \/ /\ redis = "up" /\ Disturb
             /\ failed' = [failed EXCEPT ![p] = @ \cup {r}]
             /\ sends' = [sends EXCEPT ![r] = @ + 1]
             /\ lost' = [lost EXCEPT ![r] = @ + 1]
             /\ UNCHANGED sent
    /\ UNCHANGED <<runtimeVars, row, batch, redis, dispatchLock, pc>>

\* Mutant: every row of the batch is taken for published.
Outcome_blind(p, r) == [status |-> "published", attempts |-> row[r].attempts + 1]

Outcome(p, r) ==
    [status |-> IF r \in sent[p] THEN "published" ELSE "failed", attempts |-> row[r].attempts + 1]

EndTransaction(p) ==
    /\ batch' = [batch EXCEPT ![p] = {}]
    /\ sent' = [sent EXCEPT ![p] = {}]
    /\ failed' = [failed EXCEPT ![p] = {}]
    /\ Goto(p, "release")

Commit(p) ==
    /\ pc[p] = "publish" /\ Waiting(p) = {}
    /\ row' = [r \in Row |-> IF r \in batch[p] THEN Outcome(p, r) ELSE row[r]]
    /\ EndTransaction(p)
    /\ UNCHANGED <<runtimeVars, sends, lost, redis, budget, dispatchLock>>

\* The database fails: everything but the sends is undone.
Rollback(p) ==
    /\ pc[p] = "publish"
    /\ Disturb
    /\ lost' = [r \in Row |-> IF r \in sent[p] THEN lost[r] + 1 ELSE lost[r]]
    /\ EndTransaction(p)
    /\ UNCHANGED <<runtimeVars, row, sends, redis, dispatchLock>>

\* _release_dispatch_lock, only with its own token; a lock it cannot release
\* keeps a token that no later round has.
ReleaseDispatchLock(p) ==
    /\ pc[p] = "release"
    /\ dispatchLock' = IF dispatchLock # p THEN dispatchLock ELSE IF redis = "up" THEN Free ELSE Dead
    /\ Goto(p, "idle")
    /\ UNCHANGED <<runtimeVars, rowVars, redis, budget>>

\* Its time to live passes; the round that holds it may still be under way.
ExpireDispatchLock ==
    /\ dispatchLock # Free
    /\ dispatchLock' = Free
    /\ UNCHANGED <<runtimeVars, rowVars, redis, budget, pc>>

-----------------------------------------------------------------------------
Leadership ==
    \/ \E p \in Process : Start(p) \/ Renew(p) \/ Shutdown(p) \/ Crash(p)
    \/ ExpireLeaderLock \/ ExpireDeadLock

\* The steps of one round of _order_outbox_dispatch_loop.
Round(p) ==
    AcquireDispatchLock(p) \/ ClaimRows(p) \/ PublishRow(p) \/ Commit(p) \/ ReleaseDispatchLock(p)

Next ==
    \/ Leadership \/ RedisFails \/ RedisRecovers \/ ExpireDispatchLock
    \/ \E r \in Row : Enqueue(r)
    \/ \E p \in Process : Round(p) \/ Rollback(p)

Spec == Init /\ [][Next]_vars

\* The loop of a process that runs goes on, and Redis drops keys that are due.
FairSpec ==
    /\ Spec
    /\ WF_vars(ExpireDispatchLock)
    /\ \A p \in Process : WF_vars(Round(p))

-----------------------------------------------------------------------------
(* Properties.                                                             *)

TypeOK ==
    /\ required \in BOOLEAN /\ redis \in {"up", "down"} /\ budget \in 0 .. Budget
    /\ leaderLock \in Process \cup {Free, Dead} /\ dispatchLock \in Process \cup {Free, Dead}
    /\ role \in [Process -> Role] /\ expired \in BOOLEAN
    /\ row \in [Row -> [status : {"none", "pending", "failed", "published"}, attempts : 0 .. MaxAttempts]]
    /\ pc \in [Process -> {"idle", "claim", "publish", "release"}]
    /\ batch \in [Process -> SUBSET Row]
    /\ sent \in [Process -> SUBSET Row] /\ failed \in [Process -> SUBSET Row]
    /\ sends \in [Row -> Nat] /\ lost \in [Row -> Nat]

\* While the leader lock is compulsory and does not run out under its holder, at
\* most one process runs the embedded background work, whichever of them start,
\* stop and crash.
OneRuns ==
    required /\ ~expired => \A p, q \in Process : Running(p) /\ Running(q) => p = q

\* An event is published a second time only when the record of an earlier
\* publication was lost, whatever the two locks do: rows locked by one round are
\* skipped by every other.
ResentOnlyIfLost == \A r \in Row : sends[r] <= lost[r] + 1

Channel == INSTANCE AtLeastOnce WITH
    Message <- Row,
    accepted <- {r \in Row : row[r].status # "none"},
    confirmed <- {r \in Row : row[r].status = "published"},
    abandoned <- {r \in Row : row[r].status = "failed" /\ row[r].attempts = MaxAttempts}

\* The outbox is an at-least-once channel: an event is marked published only
\* when it was, and no round publishes one that is settled.
ImplementsChannel == Channel!Spec

Settled(r) == row[r].status = "published" \/ row[r].attempts = MaxAttempts

\* Once some process keeps its dispatch loop and Redis stays up, every event is
\* published or its attempts are used up: no lock left behind by a dead process
\* or an earlier round stops the loop for good.
EventuallySettled ==
    <>[](redis = "up" /\ \E p \in Process : Running(p))
       => \A r \in Row : row[r].status = "pending" ~> Settled(r)
=============================================================================
