------------------------ MODULE RealtimeOutboxProofs ------------------------
(* Proofs about RealtimeOutbox, for every set of events and processes,     *)
(* every batch size, every bound on attempts and on disturbances.          *)
EXTENDS RealtimeOutbox, TLAPS

-----------------------------------------------------------------------------
(* Types.                                                                  *)

LEMMA TypeInit == Init => TypeOK
<1> SUFFICES ASSUME Init PROVE TypeOK
  OBVIOUS
<1>1. budget \in 0 .. Budget /\ row \in [Row -> [status : {"none", "pending", "failed", "published"}, attempts : 0 .. MaxAttempts]]
  BY OutboxAssumption DEF Init
<1>2. role \in [Process -> Role] /\ pc \in [Process -> {"idle", "claim", "publish", "release"}]
  BY DEF Init, Role
<1>3. batch \in [Process -> SUBSET Row] /\ sent \in [Process -> SUBSET Row] /\ failed \in [Process -> SUBSET Row]
  BY DEF Init
<1>4. sends \in [Row -> Nat] /\ lost \in [Row -> Nat]
  BY DEF Init
<1> QED  BY <1>1, <1>2, <1>3, <1>4 DEF Init, TypeOK


\* The rows of an open transaction are unsettled, held by one round only, and
\* what was sent or failed is part of the batch.
LocksHold ==
    /\ \A p \in Process : pc[p] # "publish" => batch[p] = {}
    /\ \A p \in Process : sent[p] \subseteq batch[p] /\ failed[p] \subseteq batch[p] /\ sent[p] \cap failed[p] = {}
    /\ \A p, q \in Process : p # q => batch[p] \cap batch[q] = {}
    /\ \A p \in Process : \A r \in batch[p] : row[r].status \in {"pending", "failed"} /\ row[r].attempts < MaxAttempts

\* A disturbance leaves a typed budget.
LEMMA BudgetType ==
    ASSUME TypeOK, Disturb
    PROVE  budget' \in 0 .. Budget
BY OutboxAssumption DEF TypeOK, Disturb

\* Every step keeps the types.
LEMMA TypeStep == TypeOK /\ LocksHold /\ [Next]_vars => TypeOK'
<1> SUFFICES ASSUME TypeOK, LocksHold, [Next]_vars PROVE TypeOK'
  OBVIOUS
<1> USE DEF runtimeVars, rowVars
<1>1. ASSUME NEW p \in Process, Start(p) PROVE TypeOK'
  BY <1>1 DEF Start, TypeOK, Role
<1>2. ASSUME NEW p \in Process, Renew(p) PROVE TypeOK'
  BY <1>2 DEF Renew, TypeOK, Role
<1>3. ASSUME NEW p \in Process, Shutdown(p) PROVE TypeOK'
  <2>1. role' \in [Process -> Role] /\ leaderLock' \in Process \cup {Free, Dead} /\ budget' \in 0 .. Budget
    BY <1>3, BudgetType DEF Shutdown, TypeOK, Role
  <2> QED  BY <1>3, <2>1 DEF Shutdown, TypeOK
<1>4. ASSUME NEW p \in Process, Crash(p) PROVE TypeOK'
  <2>1. role' \in [Process -> Role] /\ leaderLock' \in Process \cup {Free, Dead} /\ budget' \in 0 .. Budget
    BY <1>4, BudgetType DEF Crash, TypeOK, Role
  <2>2. dispatchLock' \in Process \cup {Free, Dead} /\ lost' \in [Row -> Nat]
    BY <1>4 DEF Crash, TypeOK
  <2>3. /\ batch' \in [Process -> SUBSET Row] /\ sent' \in [Process -> SUBSET Row] /\ failed' \in [Process -> SUBSET Row]
        /\ pc' \in [Process -> {"idle", "claim", "publish", "release"}]
    BY <1>4 DEF Crash, Goto, TypeOK
  <2> QED  BY <1>4, <2>1, <2>2, <2>3 DEF Crash, TypeOK
<1>5. CASE ExpireLeaderLock
  BY <1>5, BudgetType DEF ExpireLeaderLock, TypeOK
<1>6. CASE ExpireDeadLock
  BY <1>6 DEF ExpireDeadLock, TypeOK
<1>7. CASE RedisFails
  BY <1>7, BudgetType DEF RedisFails, TypeOK
<1>8. CASE RedisRecovers
  BY <1>8 DEF RedisRecovers, TypeOK
<1>9. CASE ExpireDispatchLock
  BY <1>9 DEF ExpireDispatchLock, TypeOK
<1>10. ASSUME NEW r \in Row, Enqueue(r) PROVE TypeOK'
  BY <1>10 DEF Enqueue, TypeOK
<1>11. ASSUME NEW p \in Process, AcquireDispatchLock(p) PROVE TypeOK'
  BY <1>11 DEF AcquireDispatchLock, Goto, TypeOK
<1>12. ASSUME NEW p \in Process, ClaimRows(p) PROVE TypeOK'
  <2>1. batch' \in [Process -> SUBSET Row]
    BY <1>12 DEF ClaimRows, Claimable, TypeOK
  <2>2. pc' \in [Process -> {"idle", "claim", "publish", "release"}]
    BY <1>12 DEF ClaimRows, Goto, TypeOK
  <2> QED  BY <1>12, <2>1, <2>2 DEF ClaimRows, TypeOK
<1>13. ASSUME NEW p \in Process, PublishRow(p) PROVE TypeOK'
  <2>1. PICK r \in Waiting(p) :
          \/ /\ sent' = [sent EXCEPT ![p] = @ \cup {r}]
             /\ sends' = [sends EXCEPT ![r] = @ + 1]
             /\ UNCHANGED <<failed, lost, budget>>
          \/ /\ failed' = [failed EXCEPT ![p] = @ \cup {r}]
             /\ UNCHANGED <<sent, sends, lost, budget>>
          \/ /\ Disturb
             /\ failed' = [failed EXCEPT ![p] = @ \cup {r}]
             /\ sends' = [sends EXCEPT ![r] = @ + 1]
             /\ lost' = [lost EXCEPT ![r] = @ + 1]
             /\ UNCHANGED sent
    BY <1>13 DEF PublishRow
  <2>2. r \in Row
    BY DEF Waiting, TypeOK
  <2>3. /\ sent' \in [Process -> SUBSET Row] /\ failed' \in [Process -> SUBSET Row]
        /\ sends' \in [Row -> Nat] /\ lost' \in [Row -> Nat]
    <3>1. sent' \in [Process -> SUBSET Row]
      BY <2>1, <2>2 DEF TypeOK
    <3>2. failed' \in [Process -> SUBSET Row]
      BY <2>1, <2>2 DEF TypeOK
    <3>3. \A f \in [Row -> Nat] : [f EXCEPT ![r] = f[r] + 1] \in [Row -> Nat]
      BY <2>2
    <3>4. sends' \in [Row -> Nat] /\ lost' \in [Row -> Nat]
      BY <2>1, <3>3 DEF TypeOK
    <3> QED  BY <3>1, <3>2, <3>4
  <2>4. budget' \in 0 .. Budget
    BY <2>1, BudgetType DEF TypeOK
  <2> QED  BY <1>13, <2>3, <2>4 DEF PublishRow, TypeOK
<1>14. ASSUME NEW p \in Process, EndTransaction(p)
       PROVE  /\ batch' \in [Process -> SUBSET Row] /\ sent' \in [Process -> SUBSET Row]
              /\ failed' \in [Process -> SUBSET Row] /\ pc' \in [Process -> {"idle", "claim", "publish", "release"}]
  BY <1>14 DEF EndTransaction, Goto, TypeOK
<1>15. ASSUME NEW p \in Process, Commit(p) PROVE TypeOK'
  <2>1. \A r \in batch[p] : r \in Row /\ row[r].attempts \in 0 .. MaxAttempts /\ row[r].attempts < MaxAttempts
    BY DEF TypeOK, LocksHold
  <2>2. \A r \in batch[p] :
           Outcome(p, r) \in [status : {"none", "pending", "failed", "published"}, attempts : 0 .. MaxAttempts]
    BY <2>1, OutboxAssumption DEF Outcome
  <2>3. row' \in [Row -> [status : {"none", "pending", "failed", "published"}, attempts : 0 .. MaxAttempts]]
    BY <1>15, <2>2 DEF Commit, TypeOK
  <2> QED  BY <1>14, <1>15, <2>3 DEF Commit, TypeOK
<1>16. ASSUME NEW p \in Process, Rollback(p) PROVE TypeOK'
  <2>1. lost' \in [Row -> Nat] /\ budget' \in 0 .. Budget
    BY <1>16, BudgetType DEF Rollback, TypeOK
  <2> QED  BY <1>14, <1>16, <2>1 DEF Rollback, TypeOK
<1>17. ASSUME NEW p \in Process, ReleaseDispatchLock(p) PROVE TypeOK'
  BY <1>17 DEF ReleaseDispatchLock, Goto, TypeOK
<1>18. CASE UNCHANGED vars
  BY <1>18 DEF vars, TypeOK
<1> QED
  BY <1>1, <1>2, <1>3, <1>4, <1>5, <1>6, <1>7, <1>8, <1>9, <1>10, <1>11, <1>12, <1>13, <1>15, <1>16, <1>17, <1>18
  DEF Next, Leadership, Round

-----------------------------------------------------------------------------
(* Rows that a round has locked.                                           *)

\* A step that touches no row and no transaction keeps the locks.
LEMMA LocksKept ==
    ASSUME LocksHold, UNCHANGED <<row, batch, sent, failed>>,
           \A p \in Process : pc'[p] # "publish" => batch[p] = {}
    PROVE  LocksHold'
BY DEF LocksHold

\* A round that ends gives its rows back.
LEMMA LocksReleased ==
    ASSUME TypeOK, LocksHold, NEW p \in Process,
           batch' = [batch EXCEPT ![p] = {}], sent' = [sent EXCEPT ![p] = {}], failed' = [failed EXCEPT ![p] = {}],
           NEW to \in {"idle", "release"}, Goto(p, to),
           \A r \in Row : r \notin batch[p] => row'[r] = row[r]
    PROVE  LocksHold'
<1>1. /\ batch'[p] = {} /\ sent'[p] = {} /\ failed'[p] = {}
      /\ \A q \in Process : q # p => batch'[q] = batch[q] /\ sent'[q] = sent[q] /\ failed'[q] = failed[q] /\ pc'[q] = pc[q]
  BY DEF TypeOK, Goto
<1>2. \A q \in Process : \A r \in batch[q] : q # p => r \in Row /\ row'[r] = row[r]
  BY DEF LocksHold, TypeOK
<1>3. \A q \in Process : \A r \in batch'[q] : row'[r].status \in {"pending", "failed"} /\ row'[r].attempts < MaxAttempts
  BY <1>1, <1>2 DEF LocksHold
<1>4. \A q \in Process : pc'[q] # "publish" => batch'[q] = {}
  BY <1>1 DEF LocksHold
<1>5. \A q \in Process : sent'[q] \subseteq batch'[q] /\ failed'[q] \subseteq batch'[q] /\ sent'[q] \cap failed'[q] = {}
  BY <1>1 DEF LocksHold
<1>6. \A q, v \in Process : q # v => batch'[q] \cap batch'[v] = {}
  BY <1>1 DEF LocksHold
<1> QED  BY <1>3, <1>4, <1>5, <1>6 DEF LocksHold

\* Every step keeps the locks.
LEMMA LocksStep == TypeOK /\ LocksHold /\ [Next]_vars => LocksHold'
<1> SUFFICES ASSUME TypeOK, LocksHold, [Next]_vars PROVE LocksHold'
  OBVIOUS
<1> USE DEF runtimeVars, rowVars
<1>1. CASE UNCHANGED <<rowVars, pc>>
  BY <1>1, LocksKept DEF LocksHold
<1>2. ASSUME NEW p \in Process, Crash(p) PROVE LocksHold'
  BY <1>2, LocksReleased DEF Crash
<1>3. ASSUME NEW r \in Row, Enqueue(r) PROVE LocksHold'
  <2>1. \A p \in Process : \A x \in batch[p] : x \in Row /\ x # r
    BY <1>3 DEF Enqueue, LocksHold, TypeOK
  <2>2. \A x \in Row : x # r => row'[x] = row[x]
    BY <1>3 DEF Enqueue, TypeOK
  <2> QED  BY <1>3, <2>1, <2>2 DEF Enqueue, LocksHold
<1>4. ASSUME NEW p \in Process, NEW to \in {"idle", "claim", "release"}, pc[p] # "publish", Goto(p, to), UNCHANGED rowVars
      PROVE  LocksHold'
  <2>1. \A q \in Process : pc'[q] # "publish" => batch[q] = {}
    BY <1>4 DEF Goto, LocksHold, TypeOK
  <2> QED  BY <1>4, <2>1, LocksKept
<1>5. ASSUME NEW p \in Process, AcquireDispatchLock(p) PROVE LocksHold'
  BY <1>4, <1>5 DEF AcquireDispatchLock
<1>6. ASSUME NEW p \in Process, ReleaseDispatchLock(p) PROVE LocksHold'
  BY <1>4, <1>6 DEF ReleaseDispatchLock
<1>7. ASSUME NEW p \in Process, ClaimRows(p) PROVE LocksHold'
  <2>1. CASE UNCHANGED batch /\ Goto(p, "release")
    BY <1>4, <1>7, <2>1 DEF ClaimRows
  <2>2. ASSUME NEW S \in SUBSET Claimable, batch' = [batch EXCEPT ![p] = S], Goto(p, "publish") PROVE LocksHold'
    <3>1. batch[p] = {} /\ sent[p] = {} /\ failed[p] = {}
      BY <1>7 DEF ClaimRows, LocksHold
    <3>2. \A q \in Process : q # p => batch'[q] = batch[q] /\ pc'[q] = pc[q]
      BY <2>2 DEF Goto, TypeOK
    <3>3. batch'[p] = S /\ pc'[p] = "publish"
      BY <2>2 DEF Goto, TypeOK
    <3>4. \A q \in Process : batch[q] \cap S = {}
      BY <2>2 DEF Claimable, Locked
    <3>5. \A r \in S : row[r].status \in {"pending", "failed"} /\ row[r].attempts < MaxAttempts
      BY <2>2 DEF Claimable
    <3>6. UNCHANGED <<row, sent, failed>>
      BY <1>7 DEF ClaimRows
    <3>7. \A q, v \in Process : q # v => batch'[q] \cap batch'[v] = {}
      BY <3>2, <3>3, <3>4 DEF LocksHold
    <3>8. \A q \in Process : pc'[q] # "publish" => batch'[q] = {}
      BY <3>2, <3>3 DEF LocksHold
    <3>9. \A q \in Process : sent'[q] \subseteq batch'[q] /\ failed'[q] \subseteq batch'[q] /\ sent'[q] \cap failed'[q] = {}
      BY <3>1, <3>2, <3>6 DEF LocksHold
    <3>10. \A q \in Process : \A r \in batch'[q] : row'[r].status \in {"pending", "failed"} /\ row'[r].attempts < MaxAttempts
      BY <3>2, <3>3, <3>5, <3>6 DEF LocksHold
    <3> QED  BY <3>7, <3>8, <3>9, <3>10 DEF LocksHold
  <2> QED  BY <1>7, <2>1, <2>2 DEF ClaimRows
<1>8. ASSUME NEW p \in Process, PublishRow(p) PROVE LocksHold'
  <2>1. PICK r \in Waiting(p) :
          \/ sent' = [sent EXCEPT ![p] = @ \cup {r}] /\ UNCHANGED failed
          \/ failed' = [failed EXCEPT ![p] = @ \cup {r}] /\ UNCHANGED sent
    BY <1>8 DEF PublishRow
  <2>2. r \in batch[p] /\ r \notin sent[p] /\ r \notin failed[p]
    BY DEF Waiting
  <2>3. \A q \in Process : sent'[q] \subseteq batch[q] /\ failed'[q] \subseteq batch[q] /\ sent'[q] \cap failed'[q] = {}
    BY <2>1, <2>2 DEF LocksHold, TypeOK
  <2> QED  BY <1>8, <2>3 DEF PublishRow, LocksHold
<1>9. ASSUME NEW p \in Process, Commit(p) PROVE LocksHold'
  <2>1. \A r \in Row : r \notin batch[p] => row'[r] = row[r]
    BY <1>9 DEF Commit
  <2> QED  BY <1>9, <2>1, LocksReleased DEF Commit, EndTransaction
<1>10. ASSUME NEW p \in Process, Rollback(p) PROVE LocksHold'
  BY <1>10, LocksReleased DEF Rollback, EndTransaction
<1>11. CASE UNCHANGED vars
  BY <1>1, <1>11 DEF vars
<1>12. CASE Leadership
  <2>1. ASSUME NEW p \in Process, Start(p) \/ Renew(p) \/ Shutdown(p) PROVE LocksHold'
    BY <1>1, <2>1 DEF Start, Renew, Shutdown
  <2>2. CASE ExpireLeaderLock \/ ExpireDeadLock
    BY <1>1, <2>2 DEF ExpireLeaderLock, ExpireDeadLock
  <2> QED  BY <1>2, <1>12, <2>1, <2>2 DEF Leadership
<1>13. CASE RedisFails \/ RedisRecovers \/ ExpireDispatchLock
  BY <1>1, <1>13 DEF RedisFails, RedisRecovers, ExpireDispatchLock
<1> QED  BY <1>3, <1>5, <1>6, <1>7, <1>8, <1>9, <1>10, <1>11, <1>12, <1>13 DEF Next, Round

LEMMA LocksInit == Init => LocksHold
BY DEF Init, LocksHold

\* The types hold in every reachable state.
THEOREM OutboxTypeCorrect == Spec => []TypeOK
<1>1. Init => TypeOK /\ LocksHold
  BY TypeInit, LocksInit
<1>2. TypeOK /\ LocksHold /\ [Next]_vars => (TypeOK /\ LocksHold)'
  BY TypeStep, LocksStep
<1> QED  BY <1>1, <1>2, PTL DEF Spec

\* The locks hold in every reachable state.
LEMMA LocksAlways == Spec => []LocksHold
<1>1. Init => TypeOK /\ LocksHold
  BY TypeInit, LocksInit
<1>2. TypeOK /\ LocksHold /\ [Next]_vars => (TypeOK /\ LocksHold)'
  BY TypeStep, LocksStep
<1> QED  BY <1>1, <1>2, PTL DEF Spec

-----------------------------------------------------------------------------
(* At most one process runs the background work.                           *)

\* A lock that holds a process's token belongs to a leader, and while locks are
\* compulsory and none ran out, whoever runs owns the lock.
LeaderHoldsLock ==
    /\ \A p \in Process : leaderLock = p => role[p] = "leader"
    /\ required /\ ~expired => \A p \in Process : Running(p) => leaderLock = p

\* Every step keeps the leader and its lock together.
LEMMA LeaderStep == TypeOK /\ LeaderHoldsLock /\ [Next]_vars => LeaderHoldsLock'
<1> SUFFICES ASSUME TypeOK, LeaderHoldsLock, [Next]_vars PROVE LeaderHoldsLock'
  OBVIOUS
<1> USE DEF runtimeVars, Running
<1>1. CASE UNCHANGED runtimeVars
  BY <1>1 DEF LeaderHoldsLock
<1>2. ASSUME NEW p \in Process, Start(p) PROVE LeaderHoldsLock'
  <2>1. \A q \in Process : q # p => role'[q] = role[q]
    BY <1>2 DEF Start, TypeOK
  <2>2. CASE leaderLock = Free /\ leaderLock' = p /\ role' = [role EXCEPT ![p] = "leader"]
    <3>1. role'[p] = "leader"
      BY <2>2 DEF TypeOK
    <3>2. required /\ ~expired => \A q \in Process : ~Running(q)
      BY <2>2, OutboxAssumption DEF LeaderHoldsLock
    <3> QED  BY <1>2, <2>1, <2>2, <3>1, <3>2 DEF Start, LeaderHoldsLock
  <2>3. CASE leaderLock' = leaderLock /\ (role'[p] = "follower" \/ ~required)
    <3>1. role[p] = "down" /\ UNCHANGED <<required, expired>>
      BY <1>2 DEF Start
    <3>2. leaderLock # p
      BY <3>1 DEF LeaderHoldsLock
    <3> QED  BY <2>1, <2>3, <3>1, <3>2 DEF LeaderHoldsLock
  <2> QED  BY <1>2, <2>2, <2>3 DEF Start, TypeOK
<1>3. ASSUME NEW p \in Process, Renew(p) PROVE LeaderHoldsLock'
  BY <1>3 DEF Renew, LeaderHoldsLock, TypeOK
<1>4. ASSUME NEW p \in Process, Shutdown(p) \/ Crash(p) PROVE LeaderHoldsLock'
  <2>1. role'[p] = "down" /\ \A q \in Process : q # p => role'[q] = role[q]
    BY <1>4 DEF Shutdown, Crash, TypeOK
  <2>2. (leaderLock' = leaderLock /\ leaderLock # p) \/ (leaderLock = p /\ leaderLock' \in {Free, Dead})
    <3>1. CASE leaderLock = p
      BY <1>4, <3>1 DEF Shutdown, Crash
    <3>2. CASE leaderLock # p
      BY <1>4, <3>2 DEF Shutdown, Crash
    <3> QED  BY <3>1, <3>2
  <2>3. UNCHANGED <<required, expired>>
    BY <1>4 DEF Shutdown, Crash
  <2> QED  BY <2>1, <2>2, <2>3, OutboxAssumption DEF LeaderHoldsLock
<1>5. CASE ExpireLeaderLock
  BY <1>5, OutboxAssumption DEF ExpireLeaderLock, LeaderHoldsLock
<1>6. CASE ExpireDeadLock
  BY <1>6, OutboxAssumption DEF ExpireDeadLock, LeaderHoldsLock
<1>7. ASSUME NEW p \in Process, Round(p) \/ Rollback(p) PROVE LeaderHoldsLock'
  BY <1>1, <1>7
  DEF Round, AcquireDispatchLock, ClaimRows, PublishRow, Commit, ReleaseDispatchLock, Rollback
<1>8. CASE RedisFails \/ RedisRecovers \/ ExpireDispatchLock \/ \E r \in Row : Enqueue(r)
  BY <1>1, <1>8 DEF RedisFails, RedisRecovers, ExpireDispatchLock, Enqueue
<1>9. CASE UNCHANGED vars
  BY <1>1, <1>9 DEF vars
<1> QED  BY <1>2, <1>3, <1>4, <1>5, <1>6, <1>7, <1>8, <1>9 DEF Next, Leadership

\* While the leader lock is compulsory and does not run out under its holder, at
\* most one process runs the embedded background work, however processes start,
\* stop, crash and lose Redis.
THEOREM OneProcessRuns == Spec => []OneRuns
<1>1. Init => LeaderHoldsLock
  BY OutboxAssumption DEF Init, LeaderHoldsLock, Running
<1>2. LeaderHoldsLock => OneRuns
  BY DEF LeaderHoldsLock, OneRuns
<1> QED  BY <1>1, <1>2, LeaderStep, OutboxTypeCorrect, PTL DEF Spec

-----------------------------------------------------------------------------
(* Resends.                                                                *)

InFlight(r) == \E p \in Process : r \in sent[p]

\* Every send is accounted for: it was lost, or it is the one of the open
\* transaction, or the one the row records.
SendsRecorded ==
    \A r \in Row : sends[r] = lost[r] + (IF row[r].status = "published" \/ InFlight(r) THEN 1 ELSE 0)

\* A transaction that is undone turns its sends into lost ones.
LEMMA SendsUndone ==
    ASSUME TypeOK, LocksHold, SendsRecorded, NEW p \in Process, UNCHANGED <<row, sends>>,
           sent' = [sent EXCEPT ![p] = {}],
           lost' = [r \in Row |-> IF r \in sent[p] THEN lost[r] + 1 ELSE lost[r]]
    PROVE  SendsRecorded'
<1> SUFFICES ASSUME NEW r \in Row
             PROVE  sends[r] = lost'[r] + (IF row[r].status = "published" \/ InFlight(r)' THEN 1 ELSE 0)
  BY DEF SendsRecorded
<1>0. sends[r] \in Nat /\ lost[r] \in Nat
  BY DEF TypeOK
<1>1. sent'[p] = {} /\ \A q \in Process : q # p => sent'[q] = sent[q]
  BY DEF TypeOK
<1>2. CASE r \in sent[p]
  <2>1. row[r].status # "published" /\ \A q \in Process : q # p => r \notin sent[q]
    BY <1>2 DEF LocksHold
  <2>2. ~InFlight(r)' /\ InFlight(r)
    BY <1>1, <1>2, <2>1 DEF InFlight
  <2> QED  BY <1>0, <1>2, <2>1, <2>2 DEF SendsRecorded
<1>3. CASE r \notin sent[p]
  <2>1. InFlight(r)' <=> InFlight(r)
    BY <1>1, <1>3 DEF InFlight
  <2> QED  BY <1>0, <1>3, <2>1 DEF SendsRecorded
<1> QED  BY <1>2, <1>3

\* Every step accounts for the sends it makes.
LEMMA SendsStep == TypeOK /\ LocksHold /\ SendsRecorded /\ [Next]_vars => SendsRecorded'
<1> SUFFICES ASSUME TypeOK, LocksHold, SendsRecorded, [Next]_vars PROVE SendsRecorded'
  OBVIOUS
<1> USE DEF rowVars
<1>1. CASE UNCHANGED <<row, sent, sends, lost>>
  BY <1>1 DEF SendsRecorded, InFlight
<1>2. ASSUME NEW p \in Process, Crash(p) \/ Rollback(p) PROVE SendsRecorded'
  BY <1>2, SendsUndone DEF Crash, Rollback, EndTransaction
<1>3. ASSUME NEW r \in Row, Enqueue(r) PROVE SendsRecorded'
  <2>1. \A x \in Row : row'[x].status = "published" <=> row[x].status = "published"
    BY <1>3 DEF Enqueue, TypeOK
  <2>2. UNCHANGED <<sent, sends, lost>>
    BY <1>3 DEF Enqueue
  <2> QED  BY <2>1, <2>2 DEF SendsRecorded, InFlight
<1>4. ASSUME NEW p \in Process, PublishRow(p) PROVE SendsRecorded'
  <2>0. PICK r \in Waiting(p) :
          \/ /\ sent' = [sent EXCEPT ![p] = @ \cup {r}]
             /\ sends' = [sends EXCEPT ![r] = @ + 1]
             /\ UNCHANGED lost
          \/ UNCHANGED <<sent, sends, lost>>
          \/ /\ sends' = [sends EXCEPT ![r] = @ + 1]
             /\ lost' = [lost EXCEPT ![r] = @ + 1]
             /\ UNCHANGED sent
    BY <1>4 DEF PublishRow
  <2>1. r \in Row /\ r \in batch[p] /\ r \notin sent[p] /\ row' = row
    BY <1>4 DEF PublishRow, Waiting, TypeOK
  <2>2. row[r].status # "published" /\ ~InFlight(r)
    BY <2>1 DEF LocksHold, InFlight
  <2>3. sends \in [Row -> Nat] /\ lost \in [Row -> Nat] /\ DOMAIN sent = Process
    BY DEF TypeOK
  <2>4. CASE sent' = [sent EXCEPT ![p] = @ \cup {r}] /\ sends' = [sends EXCEPT ![r] = @ + 1] /\ UNCHANGED lost
    <3>1. InFlight(r)' /\ \A x \in Row : x # r => (InFlight(x)' <=> InFlight(x))
      BY <2>3, <2>4 DEF InFlight
    <3>2. sends'[r] = sends[r] + 1 /\ \A x \in Row : x # r => sends'[x] = sends[x]
      BY <2>1, <2>3, <2>4
    <3> QED  BY <2>1, <2>2, <2>3, <2>4, <3>1, <3>2 DEF SendsRecorded
  <2>5. CASE sends' = [sends EXCEPT ![r] = @ + 1] /\ lost' = [lost EXCEPT ![r] = @ + 1] /\ UNCHANGED sent
    <3>1. sends'[r] = sends[r] + 1 /\ lost'[r] = lost[r] + 1
      BY <2>1, <2>3, <2>5
    <3>2. \A x \in Row : x # r => sends'[x] = sends[x] /\ lost'[x] = lost[x]
      BY <2>3, <2>5
    <3>3. \A x \in Row : InFlight(x)' <=> InFlight(x)
      BY <2>5 DEF InFlight
    <3>4. \A x \in Row : sends[x] \in Nat /\ lost[x] \in Nat
      BY <2>3
    <3>5. sends'[r] = lost'[r] + (IF row'[r].status = "published" \/ InFlight(r)' THEN 1 ELSE 0)
      BY <2>1, <2>2, <3>1, <3>3, <3>4 DEF SendsRecorded
    <3>6. \A x \in Row : x # r => sends'[x] = lost'[x] + (IF row'[x].status = "published" \/ InFlight(x)' THEN 1 ELSE 0)
      BY <2>1, <3>2, <3>3 DEF SendsRecorded
    <3> QED  BY <3>5, <3>6 DEF SendsRecorded
  <2> QED  BY <1>1, <2>0, <2>1, <2>4, <2>5
<1>5. ASSUME NEW p \in Process, Commit(p) PROVE SendsRecorded'
  <2>1. sent'[p] = {} /\ \A q \in Process : q # p => sent'[q] = sent[q]
    BY <1>5 DEF Commit, EndTransaction, TypeOK
  <2>2. UNCHANGED <<sends, lost>>
    BY <1>5 DEF Commit
  <2>3. ASSUME NEW r \in Row
        PROVE  (row'[r].status = "published" \/ InFlight(r)') <=> (row[r].status = "published" \/ InFlight(r))
    <3>1. CASE r \in batch[p]
      <4>1. row'[r].status = "published" <=> r \in sent[p]
        BY <1>5, <3>1 DEF Commit, Outcome
      <4>2. row[r].status # "published" /\ \A q \in Process : q # p => r \notin sent[q]
        BY <3>1 DEF LocksHold
      <4> QED  BY <2>1, <4>1, <4>2 DEF InFlight
    <3>2. CASE r \notin batch[p]
      <4>1. row'[r] = row[r] /\ r \notin sent[p]
        BY <1>5, <3>2 DEF Commit, LocksHold
      <4> QED  BY <2>1, <4>1 DEF InFlight
    <3> QED  BY <3>1, <3>2
  <2> QED  BY <2>2, <2>3 DEF SendsRecorded
<1>6. ASSUME NEW p \in Process, AcquireDispatchLock(p) \/ ClaimRows(p) \/ ReleaseDispatchLock(p) PROVE SendsRecorded'
  BY <1>1, <1>6 DEF AcquireDispatchLock, ClaimRows, ReleaseDispatchLock
<1>7. ASSUME NEW p \in Process, Start(p) \/ Renew(p) \/ Shutdown(p) PROVE SendsRecorded'
  BY <1>1, <1>7 DEF Start, Renew, Shutdown
<1>8. CASE RedisFails \/ RedisRecovers \/ ExpireDispatchLock \/ ExpireLeaderLock \/ ExpireDeadLock
  BY <1>1, <1>8 DEF RedisFails, RedisRecovers, ExpireDispatchLock, ExpireLeaderLock, ExpireDeadLock
<1>9. CASE UNCHANGED vars
  BY <1>1, <1>9 DEF vars
<1> QED  BY <1>2, <1>3, <1>4, <1>5, <1>6, <1>7, <1>8, <1>9 DEF Next, Leadership, Round

LEMMA SendsAlways == Spec => []SendsRecorded
<1>1. Init => SendsRecorded
  BY DEF Init, SendsRecorded, InFlight
<1> QED  BY <1>1, SendsStep, OutboxTypeCorrect, LocksAlways, PTL DEF Spec

\* An event reaches the channel once more than its sends were lost, never
\* oftener: neither an expired lock nor two dispatching processes repeat it.
THEOREM ResentOnlyAfterLoss == Spec => []ResentOnlyIfLost
<1>1. TypeOK /\ SendsRecorded => ResentOnlyIfLost
  <2> SUFFICES ASSUME TypeOK, SendsRecorded, NEW r \in Row PROVE sends[r] <= lost[r] + 1
    BY DEF ResentOnlyIfLost
  <2>1. sends[r] \in Nat /\ lost[r] \in Nat
    BY DEF TypeOK
  <2> QED  BY <2>1 DEF SendsRecorded
<1> QED  BY <1>1, SendsAlways, OutboxTypeCorrect, PTL

-----------------------------------------------------------------------------
(* The outbox implements AtLeastOnce.                                      *)

\* No row is settled, none was sent.
LEMMA ChannelInit == Init => Channel!Init
BY OutboxAssumption DEF Init, Channel!Init

\* A step that leaves the rows and the counters alone is invisible.
LEMMA ChannelStutter ==
    ASSUME UNCHANGED <<row, sends>>
    PROVE  UNCHANGED Channel!channelVars
BY DEF Channel!channelVars

\* Every step is a step of the abstract channel, or invisible to it.
LEMMA ChannelStep ==
    TypeOK /\ LocksHold /\ SendsRecorded /\ [Next]_vars => [Channel!Next]_(Channel!channelVars)
<1> SUFFICES ASSUME TypeOK, LocksHold, SendsRecorded, [Next]_vars PROVE [Channel!Next]_(Channel!channelVars)
  OBVIOUS
<1> USE DEF rowVars
<1>1. ASSUME NEW r \in Row, Enqueue(r) PROVE Channel!Next
  <2>1. \A x \in Row : x # r => row'[x] = row[x]
    BY <1>1 DEF Enqueue, TypeOK
  <2>2. row[r].status = "none" /\ row'[r].status = "pending"
    BY <1>1 DEF Enqueue, TypeOK
  <2>3. {x \in Row : row'[x].status # "none"} = {x \in Row : row[x].status # "none"} \cup {r}
    BY <2>1, <2>2
  <2>4. {x \in Row : row'[x].status = "published"} = {x \in Row : row[x].status = "published"}
    BY <2>1, <2>2
  <2>5. {x \in Row : row'[x].status = "failed" /\ row'[x].attempts = MaxAttempts}
          = {x \in Row : row[x].status = "failed" /\ row[x].attempts = MaxAttempts}
    BY <2>1, <2>2
  <2>6. {r} \in SUBSET (Row \ {x \in Row : row[x].status # "none"})
    BY <2>2
  <2> QED  BY <1>1, <2>3, <2>4, <2>5, <2>6 DEF Enqueue, Channel!Next, Channel!Accept
<1>2. ASSUME NEW p \in Process, PublishRow(p) PROVE [Channel!Next]_(Channel!channelVars)
  <2>1. row' = row
    BY <1>2 DEF PublishRow
  <2>2. PICK r \in Waiting(p) : sends' = sends \/ sends' = [sends EXCEPT ![r] = @ + 1]
    BY <1>2 DEF PublishRow
  <2>3. r \in Channel!Open
    BY OutboxAssumption DEF Waiting, LocksHold, TypeOK, Channel!Open
  <2>4. CASE sends' = sends
    BY <2>1, <2>4, ChannelStutter
  <2>5. CASE sends' = [sends EXCEPT ![r] = @ + 1]
    BY <2>1, <2>3, <2>5 DEF Channel!Next, Channel!Send
  <2> QED  BY <2>2, <2>4, <2>5
<1>3. ASSUME NEW p \in Process, Commit(p) PROVE Channel!Next
  <2> DEFINE C == sent[p]
             A == {r \in failed[p] : row[r].attempts + 1 = MaxAttempts}
  <2>1. \A r \in batch[p] : r \in Row /\ row[r].status \in {"pending", "failed"} /\ row[r].attempts \in Nat
                            /\ row[r].attempts < MaxAttempts
    BY DEF LocksHold, TypeOK
  <2>2. batch[p] = sent[p] \cup failed[p] /\ sent[p] \cap failed[p] = {}
    BY <1>3 DEF Commit, Waiting, LocksHold
  <2>3. batch[p] \subseteq Channel!Open
    BY <2>1, OutboxAssumption DEF Channel!Open
  <2>4. C \in SUBSET Channel!Open /\ A \in SUBSET Channel!Open /\ C \cap A = {}
    BY <2>2, <2>3
  <2>5. \A r \in C : sends[r] > 0
    <3> SUFFICES ASSUME NEW r \in sent[p] PROVE sends[r] > 0
      OBVIOUS
    <3>1. r \in Row /\ InFlight(r) /\ lost[r] \in Nat
      BY <2>1, <2>2 DEF InFlight, TypeOK
    <3> QED  BY <3>1 DEF SendsRecorded
  <2>6. \A r \in Row : row'[r] = IF r \in batch[p] THEN Outcome(p, r) ELSE row[r]
    BY <1>3 DEF Commit
  <2>7. ASSUME NEW r \in sent[p]
        PROVE  row'[r].status = "published" /\ row[r].status # "none" /\ row[r].status # "published"
    <3>1. r \in batch[p] /\ r \in Row
      BY <2>1, <2>2
    <3>2. row'[r] = Outcome(p, r)
      BY <2>6, <3>1
    <3>3. Outcome(p, r).status = "published"
      BY DEF Outcome
    <3>4. row[r].status # "none" /\ row[r].status # "published"
      BY <2>1, <3>1
    <3> QED  BY <3>2, <3>3, <3>4
  <2>8. ASSUME NEW r \in failed[p]
        PROVE  /\ row'[r].status = "failed" /\ row'[r].attempts = row[r].attempts + 1
               /\ row[r].status # "none" /\ row[r].status # "published"
    <3>1. r \in batch[p] /\ r \in Row /\ r \notin sent[p]
      BY <2>1, <2>2
    <3>2. row'[r] = Outcome(p, r)
      BY <2>6, <3>1
    <3>3. Outcome(p, r).status = "failed" /\ Outcome(p, r).attempts = row[r].attempts + 1
      BY <3>1 DEF Outcome
    <3>4. row[r].status # "none" /\ row[r].status # "published"
      BY <2>1, <3>1
    <3> QED  BY <3>2, <3>3, <3>4
  <2>9. {r \in Row : row'[r].status # "none"} = {r \in Row : row[r].status # "none"}
    BY <2>2, <2>6, <2>7, <2>8
  <2>10. {r \in Row : row'[r].status = "published"} = {r \in Row : row[r].status = "published"} \cup C
    BY <2>1, <2>2, <2>6, <2>7, <2>8
  <2>11. {r \in Row : row'[r].status = "failed" /\ row'[r].attempts = MaxAttempts}
           = {r \in Row : row[r].status = "failed" /\ row[r].attempts = MaxAttempts} \cup A
    BY <2>1, <2>2, <2>6, <2>7, <2>8, OutboxAssumption
  <2>12. sends' = sends
    BY <1>3 DEF Commit
  <2> HIDE DEF C, A
  <2> QED  BY <2>4, <2>5, <2>9, <2>10, <2>11, <2>12 DEF Channel!Next, Channel!Settle
<1>4. ASSUME NEW p \in Process, AcquireDispatchLock(p) \/ ClaimRows(p) \/ ReleaseDispatchLock(p) \/ Rollback(p)
      PROVE  UNCHANGED Channel!channelVars
  BY <1>4, ChannelStutter DEF AcquireDispatchLock, ClaimRows, ReleaseDispatchLock, Rollback
<1>5. ASSUME NEW p \in Process, Start(p) \/ Renew(p) \/ Shutdown(p) \/ Crash(p)
      PROVE  UNCHANGED Channel!channelVars
  BY <1>5, ChannelStutter DEF Start, Renew, Shutdown, Crash
<1>6. CASE RedisFails \/ RedisRecovers \/ ExpireDispatchLock \/ ExpireLeaderLock \/ ExpireDeadLock
  BY <1>6, ChannelStutter DEF RedisFails, RedisRecovers, ExpireDispatchLock, ExpireLeaderLock, ExpireDeadLock
<1>7. CASE UNCHANGED vars
  BY <1>7, ChannelStutter DEF vars
<1> QED  BY <1>1, <1>2, <1>3, <1>4, <1>5, <1>6, <1>7 DEF Next, Leadership, Round

\* The order outbox is an at-least-once channel, whatever crashes, expires or is
\* rolled back, for every number of processes: an event is recorded as published
\* only after it was, and no round publishes a settled one.
THEOREM OutboxIsAtLeastOnce == Spec => ImplementsChannel
<1>1. Spec => Channel!Spec
  BY ChannelInit, ChannelStep, OutboxTypeCorrect, LocksAlways, SendsAlways, PTL DEF Spec, Channel!Spec
<1> QED  BY <1>1 DEF ImplementsChannel
=============================================================================
