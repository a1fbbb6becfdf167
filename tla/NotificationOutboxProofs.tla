---------------------- MODULE NotificationOutboxProofs ----------------------
(***************************************************************************)
(* Proofs about NotificationOutbox, for any number of notifications and    *)
(* dispatchers, any limit of attempts and any number of failures.          *)
(***************************************************************************)
EXTENDS NotificationOutbox, TLAPS

LEMMA RowFacts ==
    /\ \A r \in Row : r[1] \in Notification
    /\ \A n \in Notification : <<n, "own">> \in Row /\ <<n, "wallet">> \in Row
    /\ \A n \in Notification, d \in Dispatcher : <<n, d>> \in Row
    /\ \A d \in Dispatcher : d # "own" /\ d # "wallet"
BY NotificationAssumption DEF Row

-----------------------------------------------------------------------------
(* Types, and what an open transaction knows of its rows.                  *)

RowType == [status : {"absent", "pending", "failed", "published", "dead_letter"}, attempts : 0 .. MaxAttempts]

\* The rows of a batch are locked by it alone, are still to be delivered, and
\* have an attempt left.
Locks ==
    /\ \A d, e \in Dispatcher : d # e => batch[d] \cap batch[e] = {}
    /\ \A d \in Dispatcher : \A r \in batch[d] : row[r].status \in {"pending", "failed"} /\ row[r].attempts < MaxAttempts
    /\ \A d \in Dispatcher : sent[d] \subseteq batch[d]
    /\ \A d \in Dispatcher : \A r \in Row : out[d][r] # "undecided" => r \in batch[d]

\* Absent rows have no attempts.
Fresh == \A r \in Row : row[r].status = "absent" => row[r] = NoRow

\* Only a notification that was queued has rows.
Rowless == \A r \in Row : notif[r[1]] \in {"absent", "deleted", "skipped"} => row[r].status = "absent"

\* A dispatcher writes the notifications of its batch.
Drafts == \A d \in Dispatcher, n \in Notification : draft[d][n] # "unwritten" => \E r \in batch[d] : r[1] = n

\* A queued notification has a row, and so has one that a sweep is about to add
\* its row to.
Swept ==
    /\ \A n \in Notification : notif[n] = "queued" => RowsOf(n) # {}
    /\ \A d \in Dispatcher : \A n \in missing[d] : RowsOf(n) # {} /\ row[<<n, d>>].status = "absent"

Sound == TypeOK /\ Locks /\ Fresh /\ Rowless /\ Drafts /\ Swept

LEMMA Attempts == 0 \in 0 .. MaxAttempts
BY NotificationAssumption

LEMMA SoundInit == Init => Sound
<1>1. MaxAttempts \in Nat /\ Budget \in Nat /\ MaxAttempts # 0
  BY NotificationAssumption
<1> QED  BY <1>1, Attempts, RowFacts DEF Init, Sound, TypeOK, Locks, Fresh, Rowless, Drafts, Swept, NoRow, Status

\* What committing or giving up leaves behind.
LEMMA EndCallType ==
    ASSUME TypeOK, NEW d \in Dispatcher, EndCall(d)
    PROVE  /\ scope' \in [Dispatcher -> SUBSET Notification] /\ batch' \in [Dispatcher -> SUBSET Row]
           /\ out' \in [Dispatcher -> [Row -> {"undecided", "published", "failed", "dead_letter"}]]
           /\ draft' \in [Dispatcher -> [Notification -> {"unwritten", "sent", "failed", "dead_letter"}]]
           /\ sent' \in [Dispatcher -> SUBSET Row]
           /\ batch'[d] = {} /\ sent'[d] = {} /\ out'[d] = [r \in Row |-> "undecided"]
           /\ draft'[d] = [n \in Notification |-> "unwritten"]
           /\ \A e \in Dispatcher : e # d => batch'[e] = batch[e] /\ sent'[e] = sent[e] /\ out'[e] = out[e] /\ draft'[e] = draft[e]
BY DEF EndCall, TypeOK

\* A step that only adds rows, all of them pending.
RowsAdded ==
    /\ row' \in [Row -> RowType]
    /\ \A r \in Row : row'[r] = row[r] \/ (row[r].status = "absent" /\ row'[r] = [status |-> "pending", attempts |-> 0])

LEMMA AddsRows ==
    ASSUME Sound
    PROVE  /\ \A n \in Notification : SendLater(n) \/ StageRecharge(n) => RowsAdded
           /\ \A d \in Dispatcher : Enqueue(d) => RowsAdded
<1>1. \A r \in Row : row[r] \in RowType
  BY DEF Sound, TypeOK, RowType
<1>2. ASSUME NEW n \in Notification, NEW k \in {"own", "wallet"}, row' = [row EXCEPT ![<<n, k>>].status = "pending"],
             notif[n] = "absent"
      PROVE  RowsAdded
  <2>1. <<n, k>> \in Row /\ <<n, k>>[1] = n
    BY RowFacts
  <2>2. row[<<n, k>>] = [status |-> "absent", attempts |-> 0]
    BY <1>2, <2>1 DEF Sound, Rowless, Fresh, NoRow
  <2>3. row'[<<n, k>>] = [status |-> "pending", attempts |-> 0] /\ \A r \in Row : r # <<n, k>> => row'[r] = row[r]
    BY <1>2, <2>1, <2>2 DEF Sound, TypeOK
  <2>4. row' \in [Row -> RowType]
    BY <1>2, <2>1, <2>2, <1>1, Attempts DEF Sound, TypeOK, RowType
  <2> QED  BY <1>2, <2>2, <2>3, <2>4 DEF RowsAdded
<1>3. ASSUME NEW n \in Notification, SendLater(n) \/ StageRecharge(n) PROVE RowsAdded
  BY <1>2, <1>3 DEF SendLater, StageRecharge
<1>4. ASSUME NEW d \in Dispatcher, Enqueue(d) PROVE RowsAdded
  <2>1. [NoRow EXCEPT !.status = "pending"] = [status |-> "pending", attempts |-> 0]
    BY DEF NoRow
  <2>2. [status |-> "pending", attempts |-> 0] \in RowType
    BY Attempts DEF RowType
  <2>3. ASSUME NEW r \in Row, r[1] \in missing[d], r[2] = d PROVE row[r].status = "absent"
    <3>1. r = <<r[1], d>>
      BY <2>3 DEF Row
    <3> QED  BY <2>3, <3>1 DEF Sound, Swept
  <2> QED  BY <1>1, <1>4, <2>1, <2>2, <2>3 DEF Enqueue, RowsAdded
<1> QED  BY <1>3, <1>4

\* Where rows stay, a notification keeps having one.
LEMMA RowsOfGrow ==
    ASSUME \A r \in Row : row'[r].status = "absent" => row[r].status = "absent", NEW n \in Notification
    PROVE  RowsOf(n) \subseteq RowsOf(n)'
BY DEF RowsOf, Exists

\* Steps that neither add rows a sweep has in hand nor queue a notification.
LEMMA SweptKept ==
    ASSUME Sound, \A r \in Row : row'[r].status = "absent" <=> row[r].status = "absent", missing' = missing,
           \A n \in Notification : notif'[n] = "queued" => notif[n] = "queued"
    PROVE  Swept'
<1>1. \A n \in Notification : RowsOf(n) \subseteq RowsOf(n)'
  BY RowsOfGrow
<1>2. \A d \in Dispatcher : \A n \in missing[d] : n \in Notification /\ <<n, d>> \in Row
  BY RowFacts DEF Sound, TypeOK
<1> QED  BY <1>1, <1>2 DEF Sound, Swept

\* Adding rows disturbs no transaction.
LEMMA AddingIsSound ==
    ASSUME Sound, RowsAdded, UNCHANGED <<batch, out, draft, sent>>
    PROVE  Locks' /\ Fresh' /\ Drafts'
<1>1. \A r \in Row : row[r].status # "absent" => row'[r] = row[r]
  BY DEF RowsAdded
<1>2. \A r \in Row : row'[r].status = "absent" => row'[r] = row[r]
  BY DEF RowsAdded
<1>3. Locks'
  BY <1>1 DEF Sound, Locks, TypeOK
<1> QED  BY <1>2, <1>3 DEF Sound, Fresh, Drafts

\* What handling one row does, whichever way it goes.
LEMMA Handled ==
    ASSUME Sound, NEW d \in Dispatcher, NEW r \in Row, DispatchRow(d, r)
    PROVE  /\ r \in batch[d] /\ out[d][r] = "undecided" /\ r[1] \in Notification
           /\ \E o \in {"published", "failed", "dead_letter"} : out' = [out EXCEPT ![d][r] = o]
           /\ out' \in [Dispatcher -> [Row -> {"undecided", "published", "failed", "dead_letter"}]]
           /\ \A e \in Dispatcher, x \in Row : e # d \/ x # r => out'[e][x] = out[e][x]
           /\ out'[d][r] # "undecided"
           /\ draft' \in [Dispatcher -> [Notification -> {"unwritten", "sent", "failed", "dead_letter"}]]
           /\ \A e \in Dispatcher, n \in Notification : e # d \/ n # r[1] => draft'[e][n] = draft[e][n]
           /\ \/ UNCHANGED <<sent, sends, lost, budget>>
              \/ /\ sent' = [sent EXCEPT ![d] = @ \cup {r}] /\ sends' = [sends EXCEPT ![r] = @ + 1] /\ out'[d][r] = "published"
                 /\ UNCHANGED <<lost, budget>>
              \/ UNCHANGED sent /\ Unanswered(r)
<1>1. r \in batch[d] /\ out[d][r] = "undecided" /\ r[1] \in Notification
  BY RowFacts DEF DispatchRow, CloseWithoutSend, Delivered, NotDelivered, Raised, Undecided
<1>2. PICK o \in {"published", "failed", "dead_letter"} : out' = [out EXCEPT ![d][r] = o]
  BY DEF DispatchRow, CloseWithoutSend, Delivered, NotDelivered, Raised, Decide
<1>3. /\ out' \in [Dispatcher -> [Row -> {"undecided", "published", "failed", "dead_letter"}]]
      /\ \A e \in Dispatcher, x \in Row : e # d \/ x # r => out'[e][x] = out[e][x]
      /\ out'[d][r] = o
  BY <1>2 DEF Sound, TypeOK
<1>4. draft' = draft \/ \E st \in {"sent", "failed", "dead_letter"} : draft' = [draft EXCEPT ![d][r[1]] = st]
  BY DEF DispatchRow, CloseWithoutSend, Delivered, NotDelivered, Raised, Write
<1>5. /\ draft' \in [Dispatcher -> [Notification -> {"unwritten", "sent", "failed", "dead_letter"}]]
      /\ \A e \in Dispatcher, n \in Notification : e # d \/ n # r[1] => draft'[e][n] = draft[e][n]
  <2>1. PICK k \in Notification : k = r[1]
    BY <1>1
  <2>2. CASE draft' = draft
    BY <2>2 DEF Sound, TypeOK
  <2>3. ASSUME NEW st \in {"sent", "failed", "dead_letter"}, draft' = [draft EXCEPT ![d][k] = st]
        PROVE  /\ draft' \in [Dispatcher -> [Notification -> {"unwritten", "sent", "failed", "dead_letter"}]]
               /\ \A e \in Dispatcher, n \in Notification : e # d \/ n # k => draft'[e][n] = draft[e][n]
    BY <2>3 DEF Sound, TypeOK
  <2> QED  BY <1>4, <2>1, <2>2, <2>3
<1>6. \/ UNCHANGED <<sent, sends, lost, budget>>
      \/ /\ sent' = [sent EXCEPT ![d] = @ \cup {r}] /\ sends' = [sends EXCEPT ![r] = @ + 1] /\ out'[d][r] = "published"
         /\ UNCHANGED <<lost, budget>>
      \/ UNCHANGED sent /\ Unanswered(r)
  <2>1. CASE Delivered(d, r)
    BY <2>1 DEF Delivered, Decide, Sound, TypeOK
  <2> QED  BY <2>1 DEF DispatchRow, CloseWithoutSend, NotDelivered, Raised
<1> QED  BY <1>1, <1>2, <1>3, <1>5, <1>6

LEMMA SoundNext == Sound /\ [Next]_vars => Sound'
<1> SUFFICES ASSUME Sound, [Next]_vars PROVE Sound'
  OBVIOUS
<1> USE DEF dispatchVars
<1>1. ASSUME NEW n \in Notification, SendNow(n) PROVE Sound'
  <2>1. TypeOK'
    BY <1>1 DEF SendNow, Sound, TypeOK, Status
  <2>2. Rowless'
    BY <1>1, RowFacts DEF SendNow, Sound, TypeOK, Rowless
  <2>3. Swept'
    BY <1>1, SweptKept DEF SendNow, Sound, TypeOK
  <2> QED  BY <1>1, <2>1, <2>2, <2>3 DEF SendNow, Sound, Locks, Fresh, Drafts
<1>2. ASSUME NEW n \in Notification, SendLater(n) \/ StageRecharge(n) PROVE Sound'
  <2>1. RowsAdded
    BY <1>2, AddsRows
  <2>2. TypeOK'
    <3>1. notif' \in [Notification -> Status] /\ due' \subseteq Notification /\ queue' \subseteq Notification
      BY <1>2 DEF SendLater, StageRecharge, Sound, TypeOK, Status
    <3> QED  BY <1>2, <2>1, <3>1 DEF SendLater, StageRecharge, RowsAdded, RowType, Sound, TypeOK
  <2>3. Locks' /\ Fresh' /\ Drafts'
    BY <1>2, <2>1, AddingIsSound DEF SendLater, StageRecharge
  <2>4. \A r \in Row : r[1] # n => row'[r] = row[r] /\ notif'[r[1]] = notif[r[1]]
    BY <1>2, RowFacts DEF SendLater, StageRecharge, Sound, TypeOK
  <2>5. notif'[n] = "queued"
    BY <1>2 DEF SendLater, StageRecharge, Sound, TypeOK
  <2>6. Rowless'
    BY <2>4, <2>5 DEF Sound, Rowless
  <2>7. Swept'
    <3>1. \A k \in Notification : RowsOf(k) \subseteq RowsOf(k)'
      BY <2>1, RowsOfGrow DEF RowsAdded
    <3>2. RowsOf(n)' # {}
      <4>1. PICK x \in {<<n, "own">>, <<n, "wallet">>} : row' = [row EXCEPT ![x].status = "pending"]
        BY <1>2 DEF SendLater, StageRecharge
      <4>2. x \in Row /\ x[1] = n
        <5>1. CASE x = <<n, "own">>
          BY <5>1, RowFacts
        <5>2. CASE x = <<n, "wallet">>
          BY <5>2, RowFacts
        <5> QED  BY <5>1, <5>2
      <4>3. row'[x].status = "pending"
        BY <4>1, <4>2 DEF Sound, TypeOK
      <4> QED  BY <4>2, <4>3 DEF RowsOf, Exists
    <3>3. \A k \in Notification : k # n => notif'[k] = notif[k]
      BY <1>2 DEF SendLater, StageRecharge, Sound, TypeOK
    <3>4. ASSUME NEW d \in Dispatcher, NEW k \in missing[d] PROVE RowsOf(k)' # {} /\ row'[<<k, d>>].status = "absent"
      <4>1. k \in Notification /\ <<k, d>> \in Row /\ <<k, d>>[1] = k
        BY RowFacts DEF Sound, TypeOK
      <4>2. RowsOf(k) # {} /\ row[<<k, d>>].status = "absent"
        BY <4>1 DEF Sound, Swept
      <4>3. k # n
        BY <1>2, <4>2 DEF SendLater, StageRecharge, Sound, Rowless, RowsOf, Exists
      <4> QED  BY <2>4, <3>1, <4>1, <4>2, <4>3
    <3>5. missing' = missing
      BY <1>2 DEF SendLater, StageRecharge
    <3> QED  BY <3>1, <3>2, <3>3, <3>4, <3>5 DEF Sound, Swept
  <2> QED  BY <2>2, <2>3, <2>6, <2>7 DEF Sound
<1>3. ASSUME NEW n \in Notification, FallsDue(n) PROVE Sound'
  <2>1. Swept'
    BY <1>3, SweptKept DEF FallsDue
  <2> QED  BY <1>3, <2>1 DEF FallsDue, Sound, TypeOK, Locks, Fresh, Rowless, Drafts
<1>4. ASSUME NEW S \in SUBSET Notification, Delete(S) PROVE Sound'
  <2>1. TypeOK'
    BY <1>4 DEF Delete, Sound, TypeOK, Status
  <2>2. Rowless'
    BY <1>4, RowFacts DEF Delete, RowsOf, Exists, Sound, TypeOK, Rowless
  <2>3. Swept'
    BY <1>4, SweptKept DEF Delete
  <2> QED  BY <1>4, <2>1, <2>2, <2>3 DEF Delete, Sound, Locks, Fresh, Drafts
<1>5. ASSUME NEW d \in Dispatcher, NEW n \in Notification, TakeEvent(d, n) PROVE Sound'
  <2>1. Swept'
    BY <1>5, SweptKept DEF TakeEvent
  <2> QED  BY <1>5, <2>1 DEF TakeEvent, Sound, TypeOK, Locks, Fresh, Rowless, Drafts
<1>6. ASSUME NEW d \in Dispatcher, Sweep(d) PROVE Sound'
  <2>1. TypeOK'
    BY <1>6 DEF Sweep, Sound, TypeOK
  <2>2. \A n \in Notification : RowsOf(n)' = RowsOf(n)
    BY <1>6 DEF Sweep, RowsOf, Exists
  <2>3. \A e \in Dispatcher : e # d => missing'[e] = missing[e]
    BY <1>6 DEF Sweep, Sound, TypeOK
  <2>4. ASSUME NEW n \in missing'[d] PROVE n \in Notification /\ RowsOf(n) # {} /\ row[<<n, d>>].status = "absent"
    <3>1. n \in Notification /\ notif[n] = "queued" /\ ~HasKey(n)
      BY <1>6, <2>4 DEF Sweep, Sound, TypeOK
    <3>2. <<n, d>> \in Row /\ <<n, d>>[1] = n /\ <<n, d>>[2] # "wallet"
      BY <3>1, RowFacts
    <3> QED  BY <3>1, <3>2 DEF HasKey, RowsOf, Exists, Sound, Swept
  <2>5. Swept'
    BY <1>6, <2>2, <2>3, <2>4 DEF Sweep, Sound, TypeOK, Swept
  <2> QED  BY <1>6, <2>1, <2>5 DEF Sweep, Sound, Locks, Fresh, Rowless, Drafts
<1>13. ASSUME NEW d \in Dispatcher, Enqueue(d) PROVE Sound'
  <2>1. RowsAdded
    BY <1>13, AddsRows
  <2>2. TypeOK'
    BY <1>13, <2>1 DEF Enqueue, RowsAdded, RowType, Sound, TypeOK
  <2>3. Locks' /\ Fresh' /\ Drafts'
    BY <1>13, <2>1, AddingIsSound DEF Enqueue
  <2>4. \A k \in Notification : RowsOf(k) \subseteq RowsOf(k)'
    BY <2>1, RowsOfGrow DEF RowsAdded
  <2>5. Rowless'
    <3>1. ASSUME NEW r \in Row, notif[r[1]] \in {"absent", "deleted", "skipped"} PROVE r[1] \notin missing[d]
      BY <3>1, RowFacts DEF Sound, Rowless, Swept, RowsOf, Exists
    <3> QED  BY <1>13, <3>1 DEF Enqueue, Sound, Rowless
  <2>6. Swept'
    <3>1. missing'[d] = {} /\ notif' = notif /\ \A e \in Dispatcher : e # d => missing'[e] = missing[e]
      BY <1>13 DEF Enqueue, Sound, TypeOK
    <3>2. ASSUME NEW e \in Dispatcher, e # d, NEW k \in missing[e] PROVE RowsOf(k)' # {} /\ row'[<<k, e>>].status = "absent"
      <4>1. k \in Notification /\ <<k, e>> \in Row /\ <<k, e>>[2] # d
        BY <3>2, RowFacts DEF Sound, TypeOK
      <4> QED  BY <1>13, <2>4, <4>1 DEF Enqueue, Sound, Swept
    <3> QED  BY <2>4, <3>1, <3>2 DEF Sound, Swept
  <2> QED  BY <2>2, <2>3, <2>5, <2>6 DEF Sound
<1>7. ASSUME NEW d \in Dispatcher, ClaimRows(d) PROVE Sound'
  <2>1. PICK S \in SUBSET Claimable(d) : batch' = [batch EXCEPT ![d] = S]
    BY <1>7 DEF ClaimRows, DueNow
  <2>2. S \subseteq Row /\ \A r \in S : /\ row[r].status \in {"pending", "failed"} /\ row[r].attempts < MaxAttempts
                                        /\ \A e \in Dispatcher : r \notin batch[e]
    BY <2>1 DEF Claimable, Locked
  <2>3. TypeOK'
    BY <1>7, <2>1, <2>2 DEF ClaimRows, Sound, TypeOK
  <2>4. batch'[d] = S /\ batch[d] = {} /\ \A e \in Dispatcher : e # d => batch'[e] = batch[e]
    BY <1>7, <2>1 DEF ClaimRows, Sound, TypeOK
  <2>5. Locks'
    <3>1. \A e, g \in Dispatcher : e # g => batch'[e] \cap batch'[g] = {}
      BY <2>2, <2>4 DEF Sound, Locks
    <3> QED  BY <1>7, <2>2, <2>4, <3>1 DEF ClaimRows, Sound, Locks
  <2>6. Drafts'
    BY <1>7, <2>4 DEF ClaimRows, Sound, Drafts
  <2>7. Swept'
    BY <1>7, SweptKept DEF ClaimRows
  <2> QED  BY <1>7, <2>3, <2>5, <2>6, <2>7 DEF ClaimRows, Sound, Fresh, Rowless
<1>8. ASSUME NEW d \in Dispatcher, ClaimNone(d) PROVE Sound'
  <2>1. Swept'
    BY <1>8, SweptKept DEF ClaimNone
  <2> QED  BY <1>8, <2>1 DEF ClaimNone, Sound, TypeOK, Locks, Fresh, Rowless, Drafts
<1>9. ASSUME NEW d \in Dispatcher, NEW r \in Row, DispatchRow(d, r) PROVE Sound'
  <2>1. UNCHANGED <<notif, due, row, queue, missing, scope, batch>>
    BY <1>9 DEF DispatchRow
  <2>2. /\ sent' \in [Dispatcher -> SUBSET Row] /\ \A e \in Dispatcher : sent'[e] \subseteq batch[e]
        /\ sends' \in [Row -> Nat] /\ lost' \in [Row -> Nat] /\ budget' \in 0 .. Budget
    <3>1. /\ r \in batch[d] /\ sent \in [Dispatcher -> SUBSET Row] /\ sends \in [Row -> Nat]
          /\ \A e \in Dispatcher : sent[e] \subseteq batch[e]
          /\ lost \in [Row -> Nat] /\ budget \in 0 .. Budget /\ Budget \in Nat
      BY <1>9, Handled, NotificationAssumption DEF Sound, TypeOK, Locks
    <3>2. CASE UNCHANGED <<sent, sends, lost, budget>>
      BY <3>1, <3>2
    <3>3. CASE sent' = [sent EXCEPT ![d] = @ \cup {r}] /\ sends' = [sends EXCEPT ![r] = @ + 1] /\ UNCHANGED <<lost, budget>>
      BY <3>1, <3>3
    <3>4. CASE UNCHANGED sent /\ Unanswered(r)
      BY <3>1, <3>4 DEF Unanswered
    <3> QED  BY <1>9, <3>2, <3>3, <3>4, Handled
  <2>3. TypeOK'
    BY <1>9, <2>1, <2>2, Handled DEF Sound, TypeOK
  <2>4. Locks'
    BY <1>9, <2>1, <2>2, Handled DEF Sound, Locks
  <2>5. Drafts'
    BY <1>9, <2>1, Handled DEF Sound, Drafts
  <2>6. Swept'
    BY <2>1, SweptKept
  <2> QED  BY <2>1, <2>3, <2>4, <2>5, <2>6 DEF Sound, Fresh, Rowless
<1>10. ASSUME NEW d \in Dispatcher, Commit(d) PROVE Sound'
  <2>1. ASSUME NEW r \in batch[d] PROVE Outcome(d, r) \in RowType /\ Outcome(d, r).status # "absent" /\ r \in Row
    <3>1. r \in Row /\ out[d][r] \in {"published", "failed", "dead_letter"}
      BY <1>10, <2>1 DEF Commit, Undecided, Sound, TypeOK
    <3>2. row[r].attempts \in Nat /\ row[r].attempts < MaxAttempts
      BY <2>1, <3>1 DEF Sound, TypeOK, Locks
    <3>3. row[r].attempts + 1 \in 0 .. MaxAttempts
      BY <3>2, NotificationAssumption
    <3> QED  BY <3>1, <3>3 DEF Outcome, RowType
  <2>2. row' \in [Row -> RowType]
    BY <1>10, <2>1 DEF Commit, Sound, TypeOK, RowType
  <2>3. \A r \in Row : r \notin batch[d] => row'[r] = row[r]
    BY <1>10 DEF Commit
  <2>4. notif' \in [Notification -> Status]
    BY <1>10 DEF Commit, Saved, Seen, Sound, TypeOK, Status
  <2>5. TypeOK'
    BY <1>10, <2>2, <2>4, EndCallType DEF Commit, Sound, TypeOK, RowType
  <2>6. Locks'
    <3>1. \A e \in Dispatcher : \A r \in batch'[e] : row'[r] = row[r] /\ r \in batch[e]
      BY <1>10, <2>3, EndCallType DEF Commit, Sound, Locks, TypeOK
    <3>2. \A e, g \in Dispatcher : e # g => batch'[e] \cap batch'[g] = {}
      BY <1>10, EndCallType DEF Commit, Sound, Locks
    <3>3. \A e \in Dispatcher : sent'[e] \subseteq batch'[e] /\ \A r \in Row : out'[e][r] # "undecided" => r \in batch'[e]
      <4>1. \A r \in Row : out'[d][r] = "undecided"
        BY <1>10, EndCallType DEF Commit, Sound
      <4>2. sent'[d] = {} /\ \A e \in Dispatcher : e # d => batch'[e] = batch[e] /\ sent'[e] = sent[e] /\ out'[e] = out[e]
        BY <1>10, EndCallType DEF Commit, Sound
      <4> QED  BY <4>1, <4>2 DEF Sound, Locks
    <3> QED  BY <3>1, <3>2, <3>3 DEF Sound, Locks
  <2>7. Fresh'
    BY <1>10, <2>1, <2>3 DEF Commit, Sound, Fresh
  <2>8. Rowless'
    <3>1. ASSUME NEW r \in Row, notif'[r[1]] \in {"absent", "deleted", "skipped"} PROVE row'[r].status = "absent"
      <4>1. r[1] \in Notification /\ notif'[r[1]] = Seen(d, r[1])
        BY <1>10, RowFacts DEF Commit, Saved
      <4>2. notif[r[1]] \in {"absent", "deleted", "skipped"}
        <5>1. draft[d][r[1]] \in {"unwritten", "sent", "failed", "dead_letter"}
          BY <4>1 DEF Sound, TypeOK
        <5> QED  BY <3>1, <4>1, <5>1 DEF Seen
      <4>3. r \notin batch[d]
        BY <4>2 DEF Sound, Rowless, Locks
      <4> QED  BY <2>3, <4>2, <4>3 DEF Sound, Rowless
    <3> QED  BY <3>1 DEF Rowless
  <2>9. Drafts'
    <3>1. \A n \in Notification : draft'[d][n] = "unwritten"
      BY <1>10, EndCallType DEF Commit, Sound
    <3>2. \A e \in Dispatcher : e # d => batch'[e] = batch[e] /\ draft'[e] = draft[e]
      BY <1>10, EndCallType DEF Commit, Sound
    <3> QED  BY <3>1, <3>2 DEF Sound, Drafts
  <2>10. Swept'
    <3>1. \A r \in Row : row'[r].status = "absent" <=> row[r].status = "absent"
      BY <1>10, <2>1, <2>3 DEF Commit, Sound, Locks
    <3>2. \A n \in Notification : notif'[n] = "queued" => notif[n] = "queued"
      BY <1>10 DEF Commit, Saved, Seen, Sound, TypeOK
    <3> QED  BY <1>10, <3>1, <3>2, SweptKept DEF Commit
  <2> QED  BY <2>5, <2>6, <2>7, <2>8, <2>9, <2>10 DEF Sound
<1>11. ASSUME NEW d \in Dispatcher, Undo(d) PROVE Sound'
  <2>1. budget' \in 0 .. Budget /\ lost' \in [Row -> Nat] /\ queue' \subseteq Notification
    BY <1>11, NotificationAssumption DEF Undo, Sound, TypeOK
  <2>2. TypeOK'
    BY <1>11, <2>1, EndCallType DEF Undo, Sound, TypeOK
  <2>3. Locks'
    <3>1. \A e \in Dispatcher : batch'[e] \subseteq batch[e]
      BY <1>11, EndCallType DEF Undo, Sound
    <3>2. \A e, g \in Dispatcher : e # g => batch'[e] \cap batch'[g] = {}
      BY <3>1 DEF Sound, Locks
    <3>3. \A e \in Dispatcher : sent'[e] \subseteq batch'[e] /\ \A r \in Row : out'[e][r] # "undecided" => r \in batch'[e]
      <4>1. \A r \in Row : out'[d][r] = "undecided"
        BY <1>11, EndCallType DEF Undo, Sound
      <4>2. sent'[d] = {} /\ \A e \in Dispatcher : e # d => batch'[e] = batch[e] /\ sent'[e] = sent[e] /\ out'[e] = out[e]
        BY <1>11, EndCallType DEF Undo, Sound
      <4> QED  BY <4>1, <4>2 DEF Sound, Locks
    <3> QED  BY <1>11, <3>1, <3>2, <3>3 DEF Undo, Sound, Locks
  <2>4. Drafts'
    <3>1. \A n \in Notification : draft'[d][n] = "unwritten"
      BY <1>11, EndCallType DEF Undo, Sound
    <3>2. \A e \in Dispatcher : e # d => batch'[e] = batch[e] /\ draft'[e] = draft[e]
      BY <1>11, EndCallType DEF Undo, Sound
    <3> QED  BY <3>1, <3>2 DEF Sound, Drafts
  <2>5. Swept'
    BY <1>11, SweptKept DEF Undo
  <2> QED  BY <1>11, <2>2, <2>3, <2>4, <2>5 DEF Undo, Sound, Fresh, Rowless
<1>12. CASE UNCHANGED vars
  <2>1. Swept'
    BY <1>12, SweptKept DEF vars
  <2> QED  BY <1>12, <2>1 DEF vars, Sound, TypeOK, Locks, Fresh, Rowless, Drafts
<1> QED
  BY <1>1, <1>2, <1>3, <1>4, <1>5, <1>6, <1>7, <1>8, <1>9, <1>10, <1>11, <1>12, <1>13 DEF Next, Worker, Call

\* Every reachable state is well typed: no row is ever left in processing, and
\* no row is tried more often than its limit.
THEOREM NotificationTypeCorrect == Spec => []TypeOK
<1>1. Sound => TypeOK
  BY DEF Sound
<1> QED  BY <1>1, SoundInit, SoundNext, PTL DEF Spec

-----------------------------------------------------------------------------
(* Deliveries are recorded or lost.                                        *)

Recorded(r) == row[r].status = "published" \/ \E d \in Dispatcher : r \in sent[d]

\* Of the deliveries of a row that were not lost, there is one if the row is
\* published or the transaction that delivered it is still open, else none.
SendsRecorded ==
    /\ \A r \in Row : sends[r] <= lost[r] + (IF Recorded(r) THEN 1 ELSE 0)
    /\ \A d \in Dispatcher : \A r \in sent[d] : out[d][r] = "published" /\ sends[r] > 0

\* Steps that leave deliveries and decisions alone.
LEMMA SendsKept ==
    ASSUME Sound, SendsRecorded, UNCHANGED <<out, sent, sends, lost>>,
           \A r \in Row : row[r].status = "published" => row'[r].status = "published"
    PROVE  SendsRecorded'
<1>1. ASSUME NEW r \in Row PROVE sends[r] <= lost[r] + (IF Recorded(r)' THEN 1 ELSE 0)
  <2>1. Recorded(r) => Recorded(r)'
    BY <1>1 DEF Recorded
  <2>2. sends[r] \in Nat /\ lost[r] \in Nat
    BY DEF Sound, TypeOK
  <2> QED  BY <2>1, <2>2 DEF SendsRecorded
<1> QED  BY <1>1 DEF SendsRecorded

LEMMA SendsStep == Sound /\ SendsRecorded /\ [Next]_vars => SendsRecorded'
<1> SUFFICES ASSUME Sound, SendsRecorded, [Next]_vars PROVE SendsRecorded'
  OBVIOUS
<1> USE DEF dispatchVars
<1>1. ASSUME NEW n \in Notification, SendNow(n) \/ FallsDue(n) PROVE SendsRecorded'
  BY <1>1, SendsKept DEF SendNow, FallsDue
<1>2. ASSUME NEW n \in Notification, SendLater(n) \/ StageRecharge(n) PROVE SendsRecorded'
  <2>1. RowsAdded
    BY <1>2, AddsRows
  <2> QED  BY <1>2, <2>1, SendsKept DEF RowsAdded, SendLater, StageRecharge
<1>3. ASSUME NEW S \in SUBSET Notification, Delete(S) PROVE SendsRecorded'
  BY <1>3, SendsKept DEF Delete
<1>4. ASSUME NEW d \in Dispatcher, Sweep(d) \/ ClaimRows(d) \/ ClaimNone(d) \/ \E n \in Notification : TakeEvent(d, n)
      PROVE  SendsRecorded'
  BY <1>4, SendsKept DEF Sweep, ClaimRows, ClaimNone, TakeEvent
<1>5. ASSUME NEW d \in Dispatcher, Enqueue(d) PROVE SendsRecorded'
  <2>1. RowsAdded
    BY <1>5, AddsRows
  <2> QED  BY <1>5, <2>1, SendsKept DEF RowsAdded, Enqueue
<1>6. ASSUME NEW d \in Dispatcher, NEW r \in Row, DispatchRow(d, r) PROVE SendsRecorded'
  <2>1. row' = row /\ batch' = batch
    BY <1>6 DEF DispatchRow
  <2>2. r \in batch[d] /\ out[d][r] = "undecided"
    BY <1>6, Handled
  <2>3. \A e \in Dispatcher : \A x \in sent[e] : (e # d \/ x # r) /\ x \in Row
    BY <2>2 DEF SendsRecorded, Sound, TypeOK
  <2>4. \A e \in Dispatcher : \A x \in sent[e] : out'[e][x] = "published"
    BY <1>6, <2>3, Handled DEF SendsRecorded
  <2>5. CASE UNCHANGED <<sent, sends, lost>>
    BY <2>1, <2>4, <2>5 DEF SendsRecorded, Recorded
  <2>7. CASE UNCHANGED sent /\ Unanswered(r)
    <3>1. sends \in [Row -> Nat] /\ lost \in [Row -> Nat] /\ sent \in [Dispatcher -> SUBSET Row]
      BY DEF Sound, TypeOK
    <3>2. /\ sends'[r] = sends[r] + 1 /\ lost'[r] = lost[r] + 1
          /\ \A x \in Row : x # r => sends'[x] = sends[x] /\ lost'[x] = lost[x]
      BY <2>7, <3>1 DEF Unanswered
    <3>3. \A x \in Row : Recorded(x)' <=> Recorded(x)
      BY <2>1, <2>7 DEF Recorded
    <3>4. ASSUME NEW x \in Row PROVE sends'[x] <= lost'[x] + (IF Recorded(x)' THEN 1 ELSE 0)
      <4>1. sends[x] <= lost[x] + (IF Recorded(x) THEN 1 ELSE 0) /\ sends[x] \in Nat /\ lost[x] \in Nat
        BY <3>1 DEF SendsRecorded
      <4> QED  BY <3>2, <3>3, <4>1
    <3>5. \A e \in Dispatcher : \A x \in sent'[e] : out'[e][x] = "published" /\ sends'[x] > 0
      BY <2>3, <2>4, <2>7, <3>1, <3>2 DEF SendsRecorded
    <3> QED  BY <3>4, <3>5 DEF SendsRecorded
  <2>6. CASE sent' = [sent EXCEPT ![d] = @ \cup {r}] /\ sends' = [sends EXCEPT ![r] = @ + 1] /\ out'[d][r] = "published" /\ lost' = lost
    <3>1. ~Recorded(r)
      <4>1. \A e \in Dispatcher : r \notin sent[e]
        BY <2>2, <2>3 DEF Sound, Locks
      <4> QED  BY <2>2, <4>1 DEF Sound, Locks, Recorded
    <3>2. sends \in [Row -> Nat] /\ lost \in [Row -> Nat] /\ sent \in [Dispatcher -> SUBSET Row]
      BY DEF Sound, TypeOK
    <3>3. sent'[d] = sent[d] \cup {r} /\ \A e \in Dispatcher : e # d => sent'[e] = sent[e]
      BY <2>6, <3>2
    <3>4. sends'[r] = sends[r] + 1 /\ \A x \in Row : x # r => sends'[x] = sends[x]
      BY <2>6, <3>2
    <3>5. sends[r] <= lost[r] /\ sends'[r] <= lost[r] + 1 /\ sends'[r] > 0
      BY <3>1, <3>2, <3>4 DEF SendsRecorded
    <3>6. Recorded(r)' /\ \A x \in Row : x # r => (Recorded(x) <=> Recorded(x)')
      BY <2>1, <3>3 DEF Recorded
    <3>7. \A e \in Dispatcher : \A x \in sent'[e] : out'[e][x] = "published" /\ sends'[x] > 0
      <4>1. ASSUME NEW e \in Dispatcher, NEW x \in sent'[e] PROVE out'[e][x] = "published" /\ sends'[x] > 0
        <5>1. CASE x = r
          <6>1. e = d
            BY <2>3, <3>3, <5>1, <4>1, <2>2 DEF Sound, Locks
          <6> QED  BY <2>6, <3>5, <5>1, <6>1
        <5>2. CASE x # r
          <6>1. x \in sent[e]
            BY <3>3, <4>1, <5>2
          <6> QED  BY <2>3, <2>4, <3>4, <5>2, <6>1 DEF SendsRecorded
        <5> QED  BY <5>1, <5>2
      <4> QED  BY <4>1
    <3>8. ASSUME NEW x \in Row PROVE sends'[x] <= lost'[x] + (IF Recorded(x)' THEN 1 ELSE 0)
      <4>1. CASE x = r
        BY <2>6, <3>5, <3>6, <4>1
      <4>2. CASE x # r
        BY <2>6, <3>4, <3>6, <4>2 DEF SendsRecorded
      <4> QED  BY <4>1, <4>2
    <3> QED  BY <3>7, <3>8 DEF SendsRecorded
  <2> QED  BY <1>6, <2>5, <2>6, <2>7, Handled
<1>7. ASSUME NEW d \in Dispatcher, Commit(d) PROVE SendsRecorded'
  <2>1. /\ sent'[d] = {} /\ \A e \in Dispatcher : e # d => sent'[e] = sent[e] /\ out'[e] = out[e]
        /\ sends' = sends /\ lost' = lost
    BY <1>7, EndCallType DEF Commit, Sound
  <2>2. ASSUME NEW r \in Row, Recorded(r) PROVE Recorded(r)'
    <3>1. CASE r \in sent[d]
      <4>1. r \in batch[d] /\ out[d][r] = "published"
        BY <3>1 DEF Sound, Locks, SendsRecorded
      <4> QED  BY <1>7, <4>1 DEF Commit, Outcome, Recorded
    <3>2. CASE row[r].status = "published"
      <4>1. r \notin batch[d]
        BY <3>2 DEF Sound, Locks
      <4> QED  BY <1>7, <3>2, <4>1 DEF Commit, Recorded
    <3>3. CASE \E e \in Dispatcher : e # d /\ r \in sent[e]
      BY <2>1, <3>3 DEF Recorded
    <3> QED  BY <2>2, <3>1, <3>2, <3>3 DEF Recorded
  <2>3. ASSUME NEW r \in Row PROVE sends'[r] <= lost'[r] + (IF Recorded(r)' THEN 1 ELSE 0)
    <3>1. sends[r] \in Nat /\ lost[r] \in Nat
      BY DEF Sound, TypeOK
    <3> QED  BY <2>1, <2>2, <3>1 DEF SendsRecorded
  <2> QED  BY <2>1, <2>3 DEF SendsRecorded
<1>8. ASSUME NEW d \in Dispatcher, Undo(d) PROVE SendsRecorded'
  <2>1. /\ sent'[d] = {} /\ \A e \in Dispatcher : e # d => sent'[e] = sent[e] /\ out'[e] = out[e]
        /\ sends' = sends /\ row' = row
    BY <1>8, EndCallType DEF Undo, Sound
  <2>2. ASSUME NEW r \in Row PROVE sends'[r] <= lost'[r] + (IF Recorded(r)' THEN 1 ELSE 0)
    <3>1. sends[r] \in Nat /\ lost[r] \in Nat /\ lost'[r] = IF r \in sent[d] THEN lost[r] + 1 ELSE lost[r]
      BY <1>8 DEF Undo, Sound, TypeOK
    <3>2. CASE r \in sent[d]
      BY <2>1, <3>1, <3>2 DEF SendsRecorded
    <3>3. CASE r \notin sent[d]
      <4>1. Recorded(r) => Recorded(r)'
        BY <2>1, <3>3 DEF Recorded
      <4> QED  BY <2>1, <3>1, <3>3, <4>1 DEF SendsRecorded
    <3> QED  BY <3>2, <3>3
  <2> QED  BY <2>1, <2>2 DEF SendsRecorded
<1>9. CASE UNCHANGED vars
  BY <1>9, SendsKept DEF vars
<1> QED  BY <1>1, <1>2, <1>3, <1>4, <1>5, <1>6, <1>7, <1>8, <1>9 DEF Next, Worker, Call

LEMMA SendsAlways == Spec => [](Sound /\ SendsRecorded)
<1>1. Init => SendsRecorded
  BY DEF Init, SendsRecorded, Recorded
<1> QED  BY <1>1, SoundInit, SoundNext, SendsStep, PTL DEF Spec

\* The provider accepts a row at most once more than its answers were lost and
\* its deliveries rolled back, however many workers and sweeps overlap.
THEOREM RedeliveredOnlyAfterLoss == Spec => []ResentOnlyIfLost
<1>1. Sound /\ SendsRecorded => ResentOnlyIfLost
  <2> SUFFICES ASSUME Sound, SendsRecorded, NEW r \in Row PROVE sends[r] <= lost[r] + 1
    BY DEF ResentOnlyIfLost
  <2>1. sends[r] \in Nat /\ lost[r] \in Nat
    BY DEF Sound, TypeOK
  <2> QED  BY <2>1 DEF SendsRecorded
<1> QED  BY <1>1, SendsAlways, PTL

-----------------------------------------------------------------------------
(* The outbox implements AtLeastOnce.                                      *)

LEMMA ChannelInit == Init => Channel!Init
BY DEF Init, Channel!Init, Exists, NoRow

LEMMA ChannelStutter ==
    ASSUME UNCHANGED <<row, sends>>
    PROVE  UNCHANGED Channel!channelVars
BY DEF Channel!channelVars, Exists

\* New rows are accepted together.
LEMMA ChannelAccepts ==
    ASSUME RowsAdded, sends' = sends
    PROVE  Channel!Next
<1> DEFINE N == {r \in Row : row[r].status = "absent" /\ row'[r].status = "pending"}
<1>1. \A r \in Row : row'[r].status # "absent" <=> row[r].status # "absent" \/ r \in N
  BY DEF RowsAdded
<1>2. \A r \in Row : \A st \in {"published", "dead_letter"} : row'[r].status = st <=> row[r].status = st
  BY DEF RowsAdded
<1>3. N \in SUBSET (Row \ {r \in Row : row[r].status # "absent"})
  OBVIOUS
<1>4. {r \in Row : row'[r].status # "absent"} = {r \in Row : row[r].status # "absent"} \cup N
  BY <1>1
<1>5. {r \in Row : row'[r].status = "published" /\ sends[r] > 0} = {r \in Row : row[r].status = "published" /\ sends[r] > 0}
  BY <1>2
<1>6. {r \in Row : row'[r].status = "dead_letter" \/ (row'[r].status = "published" /\ sends[r] = 0)}
        = {r \in Row : row[r].status = "dead_letter" \/ (row[r].status = "published" /\ sends[r] = 0)}
  BY <1>2
<1> HIDE DEF N
<1> QED  BY <1>3, <1>4, <1>5, <1>6 DEF Channel!Next, Channel!Accept, Exists

LEMMA ChannelStep == Sound /\ SendsRecorded /\ [Next]_vars => [Channel!Next]_(Channel!channelVars)
<1> SUFFICES ASSUME Sound, SendsRecorded, [Next]_vars PROVE [Channel!Next]_(Channel!channelVars)
  OBVIOUS
<1> USE DEF dispatchVars
<1>1. ASSUME NEW n \in Notification, SendLater(n) \/ StageRecharge(n) PROVE Channel!Next
  BY <1>1, AddsRows, ChannelAccepts DEF SendLater, StageRecharge
<1>2. ASSUME NEW d \in Dispatcher, Enqueue(d) PROVE Channel!Next
  BY <1>2, AddsRows, ChannelAccepts DEF Enqueue
<1>3. ASSUME NEW d \in Dispatcher, NEW r \in Row, DispatchRow(d, r) PROVE [Channel!Next]_(Channel!channelVars)
  <2>1. row' = row
    BY <1>3 DEF DispatchRow
  <2>2. r \in Channel!Open
    <3>1. row[r].status \in {"pending", "failed"}
      BY <1>3, Handled DEF Sound, Locks
    <3> QED  BY <3>1 DEF Channel!Open, Exists
  <2>3. CASE UNCHANGED <<sent, sends>>
    BY <2>1, <2>3, ChannelStutter
  <2>4. CASE sends' = [sends EXCEPT ![r] = @ + 1]
    <3>1. row[r].status \in {"pending", "failed"}
      BY <1>3, Handled DEF Sound, Locks
    <3>2. \A x \in Row : x # r => sends'[x] = sends[x]
      BY <2>4 DEF Sound, TypeOK
    <3>3. {x \in Row : row[x].status = "published" /\ sends'[x] > 0} = {x \in Row : row[x].status = "published" /\ sends[x] > 0}
      BY <3>1, <3>2
    <3>4. {x \in Row : row[x].status = "dead_letter" \/ (row[x].status = "published" /\ sends'[x] = 0)}
            = {x \in Row : row[x].status = "dead_letter" \/ (row[x].status = "published" /\ sends[x] = 0)}
      BY <3>1, <3>2
    <3> QED  BY <2>1, <2>2, <2>4, <3>3, <3>4 DEF Channel!Next, Channel!Send, Exists
  <2> QED  BY <1>3, <2>3, <2>4, Handled DEF Unanswered
<1>4. ASSUME NEW d \in Dispatcher, Commit(d) PROVE Channel!Next
  <2> DEFINE C == {r \in batch[d] : out[d][r] = "published" /\ sends[r] > 0}
             A == {r \in batch[d] : out[d][r] = "dead_letter" \/ (out[d][r] = "published" /\ sends[r] = 0)}
  <2>1. \A r \in batch[d] : r \in Row /\ row[r].status \in {"pending", "failed"} /\ sends[r] \in Nat
    BY DEF Sound, TypeOK, Locks
  <2>2. batch[d] \subseteq Channel!Open
    BY <2>1 DEF Channel!Open, Exists
  <2>3. C \in SUBSET Channel!Open /\ A \in SUBSET Channel!Open /\ C \cap A = {} /\ \A r \in C : sends[r] > 0
    BY <2>1, <2>2
  <2>4. sends' = sends /\ \A r \in Row : r \notin batch[d] => row'[r] = row[r]
    BY <1>4 DEF Commit
  <2>5. \A r \in batch[d] : row'[r].status = out[d][r] /\ out[d][r] \in {"published", "failed", "dead_letter"}
    BY <1>4, <2>1 DEF Commit, Outcome, Undecided, Sound, TypeOK
  <2>6. {r \in Row : row'[r].status # "absent"} = {r \in Row : row[r].status # "absent"}
    BY <2>1, <2>4, <2>5
  <2>7. {r \in Row : row'[r].status = "published" /\ sends'[r] > 0} = {r \in Row : row[r].status = "published" /\ sends[r] > 0} \cup C
    BY <2>1, <2>4, <2>5
  <2>8. {r \in Row : row'[r].status = "dead_letter" \/ (row'[r].status = "published" /\ sends'[r] = 0)}
          = {r \in Row : row[r].status = "dead_letter" \/ (row[r].status = "published" /\ sends[r] = 0)} \cup A
    BY <2>1, <2>4, <2>5
  <2> HIDE DEF C, A
  <2>9. {r \in Row : Exists(r)}' = {r \in Row : Exists(r)}
    BY <2>6 DEF Exists
  <2> QED  BY <2>3, <2>4, <2>7, <2>8, <2>9 DEF Channel!Next, Channel!Settle
<1>5. ASSUME NEW n \in Notification, SendNow(n) \/ FallsDue(n) PROVE UNCHANGED Channel!channelVars
  BY <1>5, ChannelStutter DEF SendNow, FallsDue
<1>6. ASSUME NEW S \in SUBSET Notification, Delete(S) PROVE UNCHANGED Channel!channelVars
  BY <1>6, ChannelStutter DEF Delete
<1>7. ASSUME NEW d \in Dispatcher, Sweep(d) \/ ClaimRows(d) \/ ClaimNone(d) \/ Undo(d) \/ \E n \in Notification : TakeEvent(d, n)
      PROVE  UNCHANGED Channel!channelVars
  BY <1>7, ChannelStutter DEF Sweep, ClaimRows, ClaimNone, Undo, TakeEvent
<1>8. CASE UNCHANGED vars
  BY <1>8, ChannelStutter DEF vars
<1> QED  BY <1>1, <1>2, <1>3, <1>4, <1>5, <1>6, <1>7, <1>8 DEF Next, Worker, Call

\* The notification outbox is an at-least-once channel for any number of
\* workers and sweeps: a row is confirmed only after the provider took it, and
\* no settled row is sent again.
THEOREM NotificationsAtLeastOnce == Spec => ImplementsChannel
<1>1. Spec => Channel!Spec
  BY ChannelInit, ChannelStep, SendsAlways, PTL DEF Spec, Channel!Spec
<1> QED  BY <1>1 DEF ImplementsChannel

-----------------------------------------------------------------------------
(* What "published" and "sent" stand for.                                  *)

Taken(n) == \E q \in RowsOf(n) : sends[q] > 0

\* Whatever says that a notification was delivered, in the tables or in an open
\* transaction, is right.
Evidence ==
    /\ \A r \in Row : row[r].status = "published" => Taken(r[1])
    /\ \A d \in Dispatcher, r \in Row : out[d][r] = "published" => Taken(r[1])
    /\ \A n \in Notification : notif[n] = "sent" /\ RowsOf(n) # {} => Taken(n)
    /\ \A d \in Dispatcher, n \in Notification : draft[d][n] = "sent" => Taken(n)

\* Where a notification has one row, what a transaction decides about the row
\* is what it writes about the notification.
Paired ==
    \A d \in Dispatcher, n \in Notification : \A r \in batch[d] : RowsOf(n) = {r} =>
        /\ out[d][r] = "undecided" => draft[d][n] = "unwritten"
        /\ out[d][r] = "published" <=> draft[d][n] = "sent"

\* Rows stay and counters grow.
LEMMA RowsStay ==
    ASSUME Sound, [Next]_vars
    PROVE  /\ \A r \in Row : row'[r].status = "absent" => row[r].status = "absent"
           /\ \A r \in Row : sends[r] > 0 => sends'[r] > 0
<1> USE DEF dispatchVars
<1>1. ASSUME RowsAdded
      PROVE  \A r \in Row : row'[r].status = "absent" => row[r].status = "absent"
  BY <1>1 DEF RowsAdded
<1>2. CASE \E n \in Notification : SendLater(n) \/ StageRecharge(n)
  BY <1>1, <1>2, AddsRows DEF SendLater, StageRecharge
<1>3. CASE \E d \in Dispatcher : Enqueue(d)
  BY <1>1, <1>3, AddsRows DEF Enqueue
<1>4. ASSUME NEW d \in Dispatcher, NEW r \in Row, DispatchRow(d, r)
      PROVE  row' = row /\ \A x \in Row : sends[x] > 0 => sends'[x] > 0
  <2>1. row' = row /\ sends \in [Row -> Nat]
    BY <1>4 DEF DispatchRow, Sound, TypeOK
  <2> QED  BY <1>4, <2>1, Handled DEF Unanswered
<1>5. ASSUME NEW d \in Dispatcher, Commit(d)
      PROVE  sends' = sends /\ \A r \in Row : row'[r].status = "absent" => row[r].status = "absent"
  <2>1. \A r \in batch[d] : row[r].status # "absent" /\ out[d][r] \in {"published", "failed", "dead_letter"}
    <3>1. \A r \in batch[d] : r \in Row /\ out[d][r] # "undecided"
      BY <1>5 DEF Commit, Undecided, Sound, TypeOK
    <3>2. \A r \in batch[d] : row[r].status # "absent"
      BY DEF Sound, Locks
    <3>3. \A r \in batch[d] : out[d][r] \in {"published", "failed", "dead_letter"}
      BY <3>1 DEF Sound, TypeOK
    <3> QED  BY <3>2, <3>3
  <2> QED  BY <1>5, <2>1 DEF Commit, Outcome
<1>6. CASE UNCHANGED <<row, sends>>
  BY <1>6
<1> QED  BY <1>2, <1>3, <1>4, <1>5, <1>6
         DEF Next, Worker, Call, vars, SendNow, FallsDue, Delete, Sweep, ClaimRows, ClaimNone, TakeEvent, Undo

LEMMA TakenStays ==
    ASSUME Sound, [Next]_vars, NEW n \in Notification
    PROVE  /\ Taken(n) => Taken(n)'
           /\ RowsOf(n) \subseteq RowsOf(n)'
BY RowsStay DEF Taken, RowsOf, Exists

\* A transaction decides on evidence.
LEMMA DecidedOnEvidence ==
    ASSUME Sound, Evidence, [Next]_vars, NEW d \in Dispatcher, NEW r \in Row, DispatchRow(d, r)
    PROVE  /\ out'[d][r] = "published" => Taken(r[1])'
           /\ draft'[d][r[1]] = "sent" => Taken(r[1])'
<1>1. r \in batch[d] /\ r[1] \in Notification /\ row' = row
  BY Handled DEF DispatchRow
<1>2. PICK n \in Notification : n = r[1]
  BY <1>1
<1>3. r \in RowsOf(n) /\ r \in RowsOf(n)' /\ notif[n] \notin {"absent", "deleted", "skipped"}
  BY <1>1, <1>2 DEF RowsOf, Exists, Sound, Locks, Rowless
<1>4. CASE CloseWithoutSend(d, r)
  <2>1. draft[d][n] \in {"unwritten", "sent", "failed", "dead_letter"}
    BY DEF Sound, TypeOK
  <2>2. out'[d][r] = IF Seen(d, n) = "dead_letter" THEN "dead_letter" ELSE "published"
    BY <1>2, <1>4 DEF CloseWithoutSend, Decide, Sound, TypeOK
  <2>3. Seen(d, n) \in {"sent", "skipped", "dead_letter"} /\ draft' = draft
    BY <1>2, <1>4 DEF CloseWithoutSend, HandledBefore
  <2>4. Seen(d, n) = "sent" => Taken(n)
    BY <1>3 DEF Seen, Evidence
  <2>5. Seen(d, n) # "skipped"
    BY <1>3, <2>1 DEF Seen
  <2> QED  BY <1>2, <2>2, <2>3, <2>4, <2>5, TakenStays DEF Evidence
<1>5. CASE Delivered(d, r)
  <2>1. sends'[r] > 0
    BY <1>5 DEF Delivered, Sound, TypeOK
  <2> QED  BY <1>2, <1>3, <2>1 DEF Taken
<1>6. CASE NotDelivered(d, r)
  <2>1. out'[d][r] # "published"
    BY <1>6 DEF NotDelivered, Decide, Sound, TypeOK
  <2>2. draft' = draft \/ \E st \in {"failed", "dead_letter"} : draft' = [draft EXCEPT ![d][n] = st]
    BY <1>2, <1>6 DEF NotDelivered, Write
  <2>3. draft'[d][n] = "sent" => draft[d][n] = "sent"
    BY <2>2 DEF Sound, TypeOK
  <2> QED  BY <1>2, <2>1, <2>3, TakenStays DEF Evidence
<1>7. CASE Raised(d, r)
  <2>1. out'[d][r] # "published" /\ draft' = draft
    BY <1>7 DEF Raised, Decide, Sound, TypeOK
  <2> QED  BY <1>2, <2>1, TakenStays DEF Evidence
<1> QED  BY <1>4, <1>5, <1>6, <1>7 DEF DispatchRow

LEMMA EvidenceStep == Sound /\ Evidence /\ [Next]_vars => Evidence'
<1> SUFFICES ASSUME Sound, Evidence, [Next]_vars PROVE Evidence'
  OBVIOUS
<1> USE DEF dispatchVars
\* It is enough that nothing new claims a delivery.
<1>1. ASSUME \A r \in Row : row'[r].status = "published" => row[r].status = "published" \/ Taken(r[1])',
             \A d \in Dispatcher, r \in Row : out'[d][r] = "published" => out[d][r] = "published" \/ Taken(r[1])',
             \A d \in Dispatcher, n \in Notification : draft'[d][n] = "sent" => draft[d][n] = "sent" \/ Taken(n)',
             \A n \in Notification : notif'[n] = "sent" /\ RowsOf(n)' # {} => (notif[n] = "sent" /\ RowsOf(n) # {}) \/ Taken(n)'
      PROVE  Evidence'
  <2>1. \A n \in Notification : Taken(n) => Taken(n)'
    BY TakenStays
  <2> QED  BY <1>1, <2>1, RowFacts DEF Evidence
<1>2. ASSUME NEW n \in Notification, SendNow(n) PROVE Evidence'
  <2>1. RowsOf(n) = {} /\ \A k \in Notification : RowsOf(k)' = RowsOf(k)
    BY <1>2 DEF SendNow, RowsOf, Exists, Sound, Rowless
  <2> QED  BY <1>1, <1>2, <2>1 DEF SendNow, Sound, TypeOK
<1>3. ASSUME RowsAdded, UNCHANGED <<out, draft>>,
             \A k \in Notification : notif'[k] = "sent" => notif[k] = "sent" /\ RowsOf(k)' = RowsOf(k)
      PROVE  Evidence'
  BY <1>1, <1>3 DEF RowsAdded
<1>4. ASSUME NEW n \in Notification, SendLater(n) \/ StageRecharge(n) PROVE Evidence'
  <2>1. \A r \in Row : r[1] # n => row'[r] = row[r]
    BY <1>4, RowFacts DEF SendLater, StageRecharge, Sound, TypeOK
  <2>2. notif'[n] = "queued" /\ \A k \in Notification : k # n => notif'[k] = notif[k]
    BY <1>4 DEF SendLater, StageRecharge, Sound, TypeOK
  <2>3. \A k \in Notification : k # n => RowsOf(k)' = RowsOf(k)
    BY <2>1 DEF RowsOf, Exists
  <2> QED  BY <1>3, <1>4, <2>2, <2>3, AddsRows DEF SendLater, StageRecharge
<1>5. ASSUME NEW d \in Dispatcher, Enqueue(d) PROVE Evidence'
  <2>1. RowsAdded /\ UNCHANGED <<notif, out, draft>>
    BY <1>5, AddsRows DEF Enqueue
  <2>2. \A r \in Row : row'[r].status = "published" => row[r].status = "published"
    BY <2>1 DEF RowsAdded
  <2>3. \A k \in Notification : RowsOf(k)' # {} => RowsOf(k) # {}
    <3>1. \A r \in Row : row'[r] = row[r] \/ r[1] \in missing[d]
      BY <1>5 DEF Enqueue
    <3>2. ASSUME NEW k \in Notification, RowsOf(k) = {} PROVE RowsOf(k)' = {}
      <4>1. k \notin missing[d]
        BY <3>2 DEF Sound, Swept
      <4> QED  BY <3>1, <3>2, <4>1 DEF RowsOf, Exists
    <3> QED  BY <3>2
  <2> QED  BY <1>1, <2>1, <2>2, <2>3
<1>6. ASSUME UNCHANGED <<row, out, draft, sends>>, \A k \in Notification : notif'[k] = "sent" => notif[k] = "sent"
      PROVE  Evidence'
  BY <1>1, <1>6 DEF RowsOf, Exists
<1>7. ASSUME NEW n \in Notification, FallsDue(n) PROVE Evidence'
  BY <1>6, <1>7 DEF FallsDue
<1>8. ASSUME NEW S \in SUBSET Notification, Delete(S) PROVE Evidence'
  BY <1>6, <1>8 DEF Delete
<1>9. ASSUME NEW d \in Dispatcher, Sweep(d) \/ ClaimRows(d) \/ ClaimNone(d) \/ \E n \in Notification : TakeEvent(d, n)
      PROVE  Evidence'
  BY <1>6, <1>9 DEF Sweep, ClaimRows, ClaimNone, TakeEvent
<1>10. ASSUME NEW d \in Dispatcher, NEW r \in Row, DispatchRow(d, r) PROVE Evidence'
  <2>1. row' = row /\ notif' = notif /\ \A n \in Notification : RowsOf(n)' = RowsOf(n)
    BY <1>10 DEF DispatchRow, RowsOf, Exists
  <2>2. /\ \A e \in Dispatcher, x \in Row : e # d \/ x # r => out'[e][x] = out[e][x]
        /\ \A e \in Dispatcher, n \in Notification : e # d \/ n # r[1] => draft'[e][n] = draft[e][n]
    BY <1>10, Handled
  <2> QED  BY <1>1, <1>10, <2>1, <2>2, DecidedOnEvidence
<1>11. ASSUME NEW d \in Dispatcher, Commit(d) PROVE Evidence'
  <2>1. /\ \A r \in Row : out'[d][r] = "undecided"
        /\ \A n \in Notification : draft'[d][n] = "unwritten"
        /\ \A e \in Dispatcher : e # d => out'[e] = out[e] /\ draft'[e] = draft[e]
    BY <1>11, EndCallType DEF Commit, Sound
  <2>2. \A r \in Row : row'[r].status = "published" => row[r].status = "published" \/ Taken(r[1])'
    <3>1. \A r \in Row : row'[r].status = "published" => row[r].status = "published" \/ out[d][r] = "published"
      BY <1>11 DEF Commit, Outcome
    <3> QED  BY <3>1, RowFacts, TakenStays DEF Evidence
  <2>3. ASSUME NEW n \in Notification, notif'[n] = "sent"
        PROVE  draft[d][n] = "sent" \/ notif[n] = "sent"
    BY <1>11, <2>3 DEF Commit, Saved, Seen
  <2>4. \A n \in Notification : RowsOf(n)' = RowsOf(n)
    <3>1. \A r \in Row : row'[r].status = "absent" <=> row[r].status = "absent"
      <4>1. \A r \in batch[d] : row[r].status # "absent"
        BY DEF Sound, Locks
      <4> QED  BY <1>11, <4>1, RowsStay DEF Commit
    <3> QED  BY <3>1 DEF RowsOf, Exists
  <2> QED  BY <1>1, <2>1, <2>2, <2>3, <2>4, TakenStays DEF Evidence
<1>12. ASSUME NEW d \in Dispatcher, Undo(d) PROVE Evidence'
  <2>1. /\ \A r \in Row : out'[d][r] = "undecided"
        /\ \A n \in Notification : draft'[d][n] = "unwritten"
        /\ \A e \in Dispatcher : e # d => out'[e] = out[e] /\ draft'[e] = draft[e]
    BY <1>12, EndCallType DEF Undo, Sound
  <2>2. row' = row /\ notif' = notif /\ \A n \in Notification : RowsOf(n)' = RowsOf(n)
    BY <1>12 DEF Undo, RowsOf, Exists
  <2> QED  BY <1>1, <2>1, <2>2
<1>13. CASE UNCHANGED vars
  BY <1>6, <1>13 DEF vars
<1> QED  BY <1>2, <1>4, <1>5, <1>7, <1>8, <1>9, <1>10, <1>11, <1>12, <1>13 DEF Next, Worker, Call

\* A published row is never a lie: the provider accepted the notification under
\* one of its rows, also where the row was closed without a send of its own.
THEOREM PublishedRowsWereSent == Spec => []PublishedWasSent
<1>1. Init => Evidence
  BY DEF Init, Evidence, NoRow
<1>2. Evidence => PublishedWasSent
  BY DEF Evidence, PublishedWasSent, Taken
<1> QED  BY <1>1, <1>2, SoundInit, SoundNext, EvidenceStep, PTL DEF Spec

\* Deciding about the only row of a notification.
LEMMA PairedDecision ==
    ASSUME Sound, Paired, SentAgrees, NEW d \in Dispatcher, NEW r \in Row, DispatchRow(d, r),
           NEW n \in Notification, RowsOf(n) = {r}
    PROVE  out'[d][r] = "published" <=> draft'[d][n] = "sent"
<1>1. r \in batch[d] /\ out[d][r] = "undecided" /\ row[r].status \in {"pending", "failed"} /\ r[1] = n /\ r \in RowsOf(n)
  BY Handled DEF Sound, Locks, RowsOf
<1>2. draft[d][n] = "unwritten" /\ Seen(d, n) = notif[n]
  BY <1>1 DEF Paired, Seen
<1>3. notif[n] # "sent" /\ notif[n] # "skipped"
  BY <1>1 DEF SentAgrees, Sound, Rowless
<1>4. CASE CloseWithoutSend(d, r)
  <2>1. notif[n] = "dead_letter"
    BY <1>1, <1>2, <1>3, <1>4 DEF CloseWithoutSend, HandledBefore
  <2>2. out'[d][r] = "dead_letter" /\ draft' = draft
    BY <1>1, <1>2, <1>4, <2>1 DEF CloseWithoutSend, Decide, Sound, TypeOK
  <2> QED  BY <1>2, <2>2
<1>5. CASE Delivered(d, r)
  <2>1. out'[d][r] = "published"
    BY <1>5 DEF Delivered, Decide, Sound, TypeOK
  <2>2. draft' = [draft EXCEPT ![d][n] = "sent"]
    BY <1>1, <1>2, <1>3, <1>5 DEF Delivered, Write
  <2> QED  BY <2>1, <2>2 DEF Sound, TypeOK
<1>6. CASE NotDelivered(d, r)
  <2>1. out'[d][r] # "published"
    BY <1>6 DEF NotDelivered, Decide, Sound, TypeOK
  <2>2. draft' = draft \/ \E st \in {"failed", "dead_letter"} : draft' = [draft EXCEPT ![d][n] = st]
    BY <1>1, <1>6 DEF NotDelivered, Write
  <2>3. draft'[d][n] # "sent"
    BY <1>2, <2>2 DEF Sound, TypeOK
  <2> QED  BY <2>1, <2>3
<1>7. CASE Raised(d, r)
  <2>1. out'[d][r] # "published" /\ draft' = draft
    BY <1>7 DEF Raised, Decide, Sound, TypeOK
  <2> QED  BY <1>2, <2>1
<1> QED  BY <1>4, <1>5, <1>6, <1>7 DEF DispatchRow

LEMMA PairedStep == Sound /\ Paired /\ SentAgrees /\ [Next]_vars => Paired' /\ SentAgrees'
<1> SUFFICES ASSUME Sound, Paired, SentAgrees, [Next]_vars PROVE Paired' /\ SentAgrees'
  OBVIOUS
<1> USE DEF dispatchVars
<1>1. \A d \in Dispatcher : \A r \in batch[d] : r \in Row /\ row[r].status \in {"pending", "failed"} /\ r \in RowsOf(r[1])
  BY DEF Sound, TypeOK, Locks, RowsOf, Exists
\* Rows that appear belong to notifications nobody has delivered, or are not
\* their only rows.
<1>2. ASSUME RowsAdded, UNCHANGED <<batch, out, draft>>,
             \A n \in Notification : \/ RowsOf(n)' = RowsOf(n) /\ (notif'[n] = "sent" <=> notif[n] = "sent")
                                     \/ RowsOf(n)' # RowsOf(n) /\ RowsOf(n) # {}
                                     \/ notif'[n] = "queued" /\ notif[n] # "sent"
      PROVE  Paired' /\ SentAgrees'
  <2>1. \A n \in Notification : RowsOf(n) \subseteq RowsOf(n)'
    BY TakenStays
  <2>2. ASSUME NEW d \in Dispatcher, NEW n \in Notification, NEW r \in batch[d], RowsOf(n)' = {r} PROVE RowsOf(n) = {r}
    <3>1. row'[r].status # "absent" /\ r[1] = n
      BY <2>2 DEF RowsOf, Exists
    <3> QED  BY <1>1, <2>1, <2>2, <3>1
  <2>3. Paired'
    BY <1>2, <2>2 DEF Paired
  <2>4. ASSUME NEW n \in Notification, NEW r \in RowsOf(n)', RowsOf(n)' = {r}
        PROVE  notif'[n] = "sent" <=> row'[r].status = "published"
    <3>1. r \in Row /\ r[1] = n
      BY <2>4 DEF RowsOf
    <3>2. CASE row'[r] = row[r]
      <4>1. RowsOf(n) = {r}
        BY <2>1, <2>4, <3>1, <3>2 DEF RowsOf, Exists
      <4>2. notif'[n] = "sent" <=> notif[n] = "sent"
        BY <1>2, <2>4, <4>1
      <4> QED  BY <3>2, <4>1, <4>2 DEF SentAgrees
    <3>3. CASE row[r].status = "absent" /\ row'[r].status = "pending"
      <4>1. r \notin RowsOf(n)
        BY <3>3 DEF RowsOf, Exists
      <4>2. RowsOf(n) = {}
        BY <2>1, <2>4, <4>1
      <4> QED  BY <1>2, <2>4, <3>3, <4>1, <4>2
    <3> QED  BY <1>2, <3>1, <3>2, <3>3 DEF RowsAdded
  <2> QED  BY <2>3, <2>4 DEF SentAgrees
<1>3. ASSUME NEW n \in Notification, SendLater(n) \/ StageRecharge(n) PROVE Paired' /\ SentAgrees'
  <2>1. \A r \in Row : r[1] # n => row'[r] = row[r]
    BY <1>3, RowFacts DEF SendLater, StageRecharge, Sound, TypeOK
  <2>2. notif[n] = "absent" /\ notif'[n] = "queued" /\ \A k \in Notification : k # n => notif'[k] = notif[k]
    BY <1>3 DEF SendLater, StageRecharge, Sound, TypeOK
  <2>3. \A k \in Notification : k # n => RowsOf(k)' = RowsOf(k)
    BY <2>1 DEF RowsOf, Exists
  <2> QED  BY <1>2, <1>3, <2>2, <2>3, AddsRows DEF SendLater, StageRecharge
<1>4. ASSUME NEW d \in Dispatcher, Enqueue(d) PROVE Paired' /\ SentAgrees'
  <2>1. \A r \in Row : row'[r] = row[r] \/ r[1] \in missing[d]
    BY <1>4 DEF Enqueue
  <2>2. \A k \in Notification : RowsOf(k)' = RowsOf(k) \/ RowsOf(k) # {}
    BY <2>1 DEF RowsOf, Exists, Sound, Swept
  <2>3. RowsAdded /\ UNCHANGED <<notif, batch, out, draft>>
    BY <1>4, AddsRows DEF Enqueue
  <2> QED  BY <1>2, <2>2, <2>3
\* Steps that leave the rows alone.
<1>5. ASSUME UNCHANGED <<row, batch, out, draft>>,
             \A n \in Notification : RowsOf(n) # {} => notif'[n] = notif[n]
      PROVE  Paired' /\ SentAgrees'
  <2>1. \A n \in Notification : RowsOf(n)' = RowsOf(n)
    BY <1>5 DEF RowsOf, Exists
  <2>2. Paired'
    BY <1>5, <2>1 DEF Paired
  <2> QED  BY <1>5, <2>1, <2>2 DEF SentAgrees
<1>6. ASSUME NEW n \in Notification, SendNow(n) PROVE Paired' /\ SentAgrees'
  <2>1. RowsOf(n) = {}
    BY <1>6 DEF SendNow, RowsOf, Exists, Sound, Rowless
  <2> QED  BY <1>5, <1>6, <2>1 DEF SendNow, Sound, TypeOK
<1>7. ASSUME NEW n \in Notification, FallsDue(n) PROVE Paired' /\ SentAgrees'
  BY <1>5, <1>7 DEF FallsDue
<1>8. ASSUME NEW S \in SUBSET Notification, Delete(S) PROVE Paired' /\ SentAgrees'
  BY <1>5, <1>8 DEF Delete
<1>9. ASSUME NEW d \in Dispatcher, Sweep(d) \/ ClaimNone(d) \/ \E n \in Notification : TakeEvent(d, n)
      PROVE  Paired' /\ SentAgrees'
  BY <1>5, <1>9 DEF Sweep, ClaimNone, TakeEvent
<1>10. ASSUME NEW d \in Dispatcher, ClaimRows(d) PROVE Paired' /\ SentAgrees'
  <2>1. \A n \in Notification : RowsOf(n)' = RowsOf(n) /\ notif'[n] = notif[n] /\ draft[d][n] = "unwritten"
    BY <1>10 DEF ClaimRows, RowsOf, Exists, Sound, Drafts
  <2>2. \A r \in Row : out[d][r] = "undecided"
    BY <1>10 DEF ClaimRows, Sound, Locks
  <2>3. PICK S \in SUBSET Row : batch' = [batch EXCEPT ![d] = S]
    BY <1>10 DEF ClaimRows, DueNow, Claimable
  <2>4. batch'[d] = S /\ (\A e \in Dispatcher : e # d => batch'[e] = batch[e]) /\ UNCHANGED <<row, out, draft>>
    BY <1>10, <2>3 DEF ClaimRows, Sound, TypeOK
  <2>5. ASSUME NEW e \in Dispatcher, NEW n \in Notification, NEW r \in batch'[e], RowsOf(n)' = {r}
        PROVE  /\ out'[e][r] = "undecided" => draft'[e][n] = "unwritten"
               /\ out'[e][r] = "published" <=> draft'[e][n] = "sent"
    <3>1. CASE e = d
      BY <2>1, <2>2, <2>4, <2>5, <3>1
    <3>2. CASE e # d
      BY <2>1, <2>4, <2>5, <3>2 DEF Paired
    <3> QED  BY <3>1, <3>2
  <2> QED  BY <2>1, <2>4, <2>5 DEF Paired, SentAgrees
<1>11. ASSUME NEW d \in Dispatcher, NEW r \in Row, DispatchRow(d, r) PROVE Paired' /\ SentAgrees'
  <2>1. UNCHANGED <<row, notif, batch>> /\ \A n \in Notification : RowsOf(n)' = RowsOf(n)
    BY <1>11 DEF DispatchRow, RowsOf, Exists
  <2>2. /\ r \in batch[d] /\ out'[d][r] # "undecided"
        /\ \A e \in Dispatcher, x \in Row : e # d \/ x # r => out'[e][x] = out[e][x]
        /\ \A e \in Dispatcher, n \in Notification : e # d \/ n # r[1] => draft'[e][n] = draft[e][n]
    BY <1>11, Handled
  <2>3. ASSUME NEW e \in Dispatcher, NEW n \in Notification, NEW x \in batch[e], RowsOf(n) = {x}
        PROVE  /\ out'[e][x] = "undecided" => draft'[e][n] = "unwritten"
               /\ out'[e][x] = "published" <=> draft'[e][n] = "sent"
    <3>1. CASE e = d /\ x = r
      BY <1>11, <2>2, <2>3, <3>1, PairedDecision
    <3>2. CASE e # d \/ x # r
      <4>1. x \in Row /\ x \in RowsOf(n) /\ (n = r[1] => r \in RowsOf(n))
        BY <1>1, <2>2, <2>3
      <4>2. e # d \/ n # r[1]
        BY <2>3, <3>2, <4>1
      <4> QED  BY <2>2, <2>3, <3>2, <4>1, <4>2 DEF Paired
    <3> QED  BY <3>1, <3>2
  <2> QED  BY <2>1, <2>3 DEF Paired, SentAgrees
<1>12. ASSUME NEW d \in Dispatcher, Undo(d) PROVE Paired' /\ SentAgrees'
  <2>1. UNCHANGED <<row, notif>> /\ \A n \in Notification : RowsOf(n)' = RowsOf(n)
    BY <1>12 DEF Undo, RowsOf, Exists
  <2>2. batch'[d] = {} /\ \A e \in Dispatcher : e # d => batch'[e] = batch[e] /\ out'[e] = out[e] /\ draft'[e] = draft[e]
    BY <1>12, EndCallType DEF Undo, Sound
  <2> QED  BY <2>1, <2>2 DEF Paired, SentAgrees
<1>13. ASSUME NEW d \in Dispatcher, Commit(d) PROVE Paired' /\ SentAgrees'
  <2>1. batch'[d] = {} /\ \A e \in Dispatcher : e # d => batch'[e] = batch[e] /\ out'[e] = out[e] /\ draft'[e] = draft[e]
    BY <1>13, EndCallType DEF Commit, Sound
  <2>2. \A r \in batch[d] : r \in Row /\ out[d][r] \in {"published", "failed", "dead_letter"} /\ row'[r].status = out[d][r]
    <3>1. \A r \in batch[d] : r \in Row /\ out[d][r] # "undecided"
      BY <1>13 DEF Commit, Undecided, Sound, TypeOK
    <3> QED  BY <1>13, <3>1 DEF Commit, Outcome, Sound, TypeOK
  <2>3. \A r \in Row : r \notin batch[d] => row'[r] = row[r]
    BY <1>13 DEF Commit
  <2>4. \A n \in Notification : RowsOf(n)' = RowsOf(n)
    <3>1. \A r \in Row : row'[r].status = "absent" <=> row[r].status = "absent"
      BY <1>1, <2>2, <2>3
    <3> QED  BY <3>1 DEF RowsOf, Exists
  <2>5. ASSUME NEW n \in Notification, NEW r \in RowsOf(n), RowsOf(n) = {r}
        PROVE  notif'[n] = "sent" <=> row'[r].status = "published"
    <3>1. r \in Row /\ r[1] = n /\ notif'[n] = IF draft[d][n] # "unwritten" THEN draft[d][n] ELSE notif[n]
      BY <1>13, <2>5 DEF Commit, Saved, Seen, RowsOf
    <3>2. CASE r \in batch[d]
      <4>1. notif[n] # "sent"
        BY <1>1, <2>5, <3>2 DEF SentAgrees
      <4>2. out[d][r] = "published" <=> draft[d][n] = "sent"
        BY <2>5, <3>2 DEF Paired
      <4> QED  BY <2>2, <3>1, <3>2, <4>1, <4>2
    <3>3. CASE r \notin batch[d]
      <4>1. draft[d][n] = "unwritten"
        BY <1>1, <2>5, <3>3 DEF Sound, Drafts
      <4> QED  BY <2>3, <2>5, <3>1, <3>3, <4>1 DEF SentAgrees
    <3> QED  BY <3>2, <3>3
  <2> QED  BY <2>1, <2>4, <2>5 DEF Paired, SentAgrees
<1>14. CASE UNCHANGED vars
  BY <1>5, <1>14 DEF vars
<1> QED  BY <1>3, <1>4, <1>6, <1>7, <1>8, <1>9, <1>10, <1>11, <1>12, <1>13, <1>14 DEF Next, Worker, Call

\* A notification with one row is marked sent exactly when its row is published:
\* no crash, rollback or overlapping call separates the two tables.
THEOREM TablesAgree == Spec => []SentAgrees
<1>1. Init => Paired /\ SentAgrees
  BY DEF Init, Paired, SentAgrees, RowsOf, Exists, NoRow
<1> QED  BY <1>1, SoundInit, SoundNext, PairedStep, PTL DEF Spec
=============================================================================
