----------------------- MODULE TelematicsWorkerProofs -----------------------
(* Proofs about TelematicsWorker, for every set of events and consumers,   *)
(* every batch size and every bound on retries.                            *)
EXTENDS TelematicsWorker, SequenceTheorems, FiniteSetTheorems, TLAPS

-----------------------------------------------------------------------------
(* Sequences of ids.                                                       *)

Distinct(s) == \A j, k \in 1 .. Len(s) : s[j] = s[k] => j = k

LEMMA EmptyIds == Ids(<< >>) = {} /\ Distinct(<< >>) /\ << >> \in Seq(Nat)
BY DEF Ids, Distinct

LEMMA HeadIds ==
    ASSUME NEW s \in Seq(Nat), s # << >>
    PROVE  /\ Head(s) \in Ids(s) /\ Head(s) \in Nat /\ Tail(s) \in Seq(Nat)
           /\ Ids(Tail(s)) \subseteq Ids(s) /\ Ids(s) \subseteq Ids(Tail(s)) \cup {Head(s)}
           /\ Distinct(s) => Distinct(Tail(s)) /\ Head(s) \notin Ids(Tail(s))
<1>1. Len(s) \in Nat \ {0} /\ Head(s) = s[1] /\ DOMAIN s = 1 .. Len(s)
  BY EmptySeq
<1>2. /\ Tail(s) \in Seq(Nat) /\ Len(Tail(s)) = Len(s) - 1 /\ \A k \in 1 .. Len(s) - 1 : Tail(s)[k] = s[k + 1]
  BY <1>1, HeadTailProperties
<1>3. DOMAIN Tail(s) = 1 .. Len(s) - 1
  BY <1>2
<1>4. \A k \in 1 .. Len(s) - 1 : k + 1 \in 1 .. Len(s) /\ k + 1 # 1
  BY <1>1
<1>5. Ids(Tail(s)) \subseteq Ids(s) /\ Head(s) \in Ids(s) /\ Head(s) \in Nat
  BY <1>1, <1>2, <1>3, <1>4 DEF Ids
<1>6. ASSUME NEW x \in Ids(s), x # Head(s) PROVE x \in Ids(Tail(s))
  <2>1. PICK k \in 1 .. Len(s) : s[k] = x
    BY <1>1 DEF Ids
  <2>2. k - 1 \in 1 .. Len(s) - 1 /\ Tail(s)[k - 1] = x
    BY <1>1, <1>2, <1>6, <2>1
  <2> QED  BY <1>3, <2>2 DEF Ids
<1>7. ASSUME Distinct(s) PROVE Distinct(Tail(s)) /\ Head(s) \notin Ids(Tail(s))
  <2>1. Distinct(Tail(s))
    BY <1>1, <1>2, <1>7 DEF Distinct
  <2>2. ASSUME NEW k \in 1 .. Len(s) - 1, Tail(s)[k] = Head(s) PROVE FALSE
    BY <1>1, <1>2, <1>4, <1>7, <2>2 DEF Distinct
  <2> QED  BY <1>3, <2>1, <2>2 DEF Ids
<1> QED  BY <1>2, <1>5, <1>6, <1>7

LEMMA AppendIds ==
    ASSUME NEW s \in Seq(Nat), NEW x \in Nat
    PROVE  Append(s, x) \in Seq(Nat) /\ Ids(Append(s, x)) = Ids(s) \cup {x}
<1>1. /\ Append(s, x) \in Seq(Nat) /\ Len(Append(s, x)) = Len(s) + 1 /\ Len(s) \in Nat
      /\ \A k \in 1 .. Len(s) : Append(s, x)[k] = s[k]
      /\ Append(s, x)[Len(s) + 1] = x
  BY AppendProperties
<1>2. DOMAIN s = 1 .. Len(s) /\ DOMAIN Append(s, x) = 1 .. Len(s) + 1
  BY <1>1
<1>3. 1 .. Len(s) + 1 = 1 .. Len(s) \cup {Len(s) + 1}
  BY <1>1
<1> QED  BY <1>1, <1>2, <1>3 DEF Ids

LEMMA PartIds ==
    ASSUME NEW s \in Seq(Nat), NEW a \in 1 .. Len(s) + 1, NEW b \in 0 .. Len(s)
    PROVE  \A x \in Ids(SubSeq(s, a, b)) : \E j \in a .. b : j \in DOMAIN s /\ x = s[j]
<1>1. Len(s) \in Nat /\ a \in Int /\ b \in Int /\ DOMAIN s = 1 .. Len(s)
  OBVIOUS
<1>2. \A j \in a .. b : j \in 1 .. Len(s) /\ s[j] \in Nat
  BY <1>1
<1>3. /\ SubSeq(s, a, b) \in Seq(Nat) /\ Len(SubSeq(s, a, b)) = IF a <= b THEN b - a + 1 ELSE 0
      /\ \A k \in 1 .. b - a + 1 : SubSeq(s, a, b)[k] = s[a + k - 1]
  BY <1>1, <1>2, SubSeqProperties
<1>4. ASSUME NEW x \in Ids(SubSeq(s, a, b)) PROVE \E j \in a .. b : j \in DOMAIN s /\ x = s[j]
  <2>1. PICK k \in 1 .. Len(SubSeq(s, a, b)) : x = SubSeq(s, a, b)[k]
    <3>1. PICK t \in Seq(Nat) : t = SubSeq(s, a, b)
      BY <1>3
    <3>2. DOMAIN t = 1 .. Len(t) /\ x \in Ids(t)
      BY <3>1
    <3> QED  BY <3>1, <3>2 DEF Ids
  <2>2. k \in Nat /\ k \in 1 .. b - a + 1
    <3>1. CASE a <= b
      BY <1>3, <2>1, <3>1
    <3>2. CASE ~(a <= b)
      BY <1>3, <2>1, <3>2
    <3> QED  BY <3>1, <3>2
  <2>3. a + k - 1 \in a .. b
    BY <1>1, <2>2
  <2>4. x = s[a + k - 1]
    BY <1>3, <2>1, <2>2
  <2> QED  BY <1>1, <1>2, <2>3, <2>4
<1> QED  BY <1>4

LEMMA ReadIds ==
    ASSUME next \in Nat, NEW n \in Nat
    PROVE  NewIds(n) \in Seq(Nat) /\ Ids(NewIds(n)) = next + 1 .. next + n /\ Distinct(NewIds(n))
<1>1. NewIds(n) \in [1 .. n -> Nat] /\ \A k \in 1 .. n : NewIds(n)[k] = next + k
  BY DEF NewIds
<1>2. NewIds(n) \in Seq(Nat) /\ Len(NewIds(n)) = n /\ DOMAIN NewIds(n) = 1 .. n
  BY <1>1
<1>3. Distinct(NewIds(n))
  BY <1>1, <1>2 DEF Distinct
<1>4. ASSUME NEW x \in next + 1 .. next + n PROVE x \in Ids(NewIds(n))
  <2>1. x - next \in 1 .. n /\ NewIds(n)[x - next] = x
    BY <1>1
  <2> QED  BY <1>2, <2>1 DEF Ids
<1>5. ASSUME NEW x \in Ids(NewIds(n)) PROVE x \in next + 1 .. next + n
  BY <1>1, <1>2 DEF Ids
<1> QED  BY <1>2, <1>3, <1>4, <1>5
-----------------------------------------------------------------------------
(* Types.                                                                  *)

Typed ==
    /\ TypeOK
    /\ batch \in [Worker -> Seq(Nat)] /\ mine \in [Worker -> Seq(Nat)]
    /\ successful \in [Worker -> SUBSET Nat] /\ failed \in [Worker -> SUBSET Nat]
    /\ \A w \in Worker : pc[w] = "read" => batch[w] = << >> /\ mine[w] = << >>

\* Consumer w's state becomes this; no other consumer's changes.
Becomes(w, l, b, m, s, f) ==
    /\ pc' = [pc EXCEPT ![w] = l] /\ batch' = [batch EXCEPT ![w] = b] /\ mine' = [mine EXCEPT ![w] = m]
    /\ successful' = [successful EXCEPT ![w] = s] /\ failed' = [failed EXCEPT ![w] = f]

LEMMA TypedFacts ==
    ASSUME Typed
    PROVE  /\ stream \in Seq(Entry) /\ Len(stream) \in Nat /\ next \in Nat /\ next <= Len(stream)
           /\ since \in Nat /\ since <= Len(stream) /\ group \in {"absent", "ready"} /\ pel \subseteq 1 .. next
           /\ dlq \subseteq Event /\ marker \subseteq Event /\ applied \in [Event -> Nat]
           /\ pc \in [Worker -> {"read", "mark", "settle"}]
           /\ \A i \in 1 .. next : i \in 1 .. Len(stream) /\ EventOf(i) \in Event /\ stream[i].attempt \in 0 .. MaxRetries
           /\ \A w \in Worker : /\ Ids(batch[w]) \subseteq 1 .. next /\ Ids(mine[w]) \subseteq 1 .. next
                                /\ successful[w] \subseteq 1 .. next /\ failed[w] \subseteq 1 .. next
<1>1. /\ stream \in Seq(Entry) /\ Len(stream) \in Nat /\ next \in Nat /\ next <= Len(stream)
      /\ since \in Nat /\ since <= Len(stream) /\ group \in {"absent", "ready"} /\ pel \subseteq 1 .. next
      /\ dlq \subseteq Event /\ marker \subseteq Event /\ applied \in [Event -> Nat]
      /\ pc \in [Worker -> {"read", "mark", "settle"}]
  BY DEF Typed, TypeOK, StreamTypeOK
<1>2. ASSUME NEW i \in 1 .. next
      PROVE  i \in 1 .. Len(stream) /\ EventOf(i) \in Event /\ stream[i].attempt \in 0 .. MaxRetries
  <2>1. i \in 1 .. Len(stream)
    BY <1>1, <1>2
  <2>2. stream[i] \in Entry
    BY <1>1, <2>1
  <2> QED  BY <2>1, <2>2 DEF Entry, EventOf
<1>3. \A w \in Worker : /\ Ids(batch[w]) \subseteq 1 .. next /\ Ids(mine[w]) \subseteq 1 .. next
                        /\ successful[w] \subseteq 1 .. next /\ failed[w] \subseteq 1 .. next
  BY DEF Typed, TypeOK
<1> QED  BY <1>1, <1>2, <1>3

LEMMA BecomesFacts ==
    ASSUME Typed, NEW w \in Worker, NEW l, NEW b, NEW m, NEW s, NEW f, Becomes(w, l, b, m, s, f)
    PROVE  /\ pc'[w] = l /\ batch'[w] = b /\ mine'[w] = m /\ successful'[w] = s /\ failed'[w] = f
           /\ \A v \in Worker : v # w => /\ pc'[v] = pc[v] /\ batch'[v] = batch[v] /\ mine'[v] = mine[v]
                                         /\ successful'[v] = successful[v] /\ failed'[v] = failed[v]
BY DEF Typed, TypeOK, Becomes

\* A consumer's state that may stand beside a group that has delivered n ids.
Fits(n, l, b, m, s, f) ==
    /\ l \in {"read", "mark", "settle"} /\ b \in Seq(Nat) /\ m \in Seq(Nat) /\ s \subseteq Nat /\ f \subseteq Nat
    /\ Ids(b) \cup Ids(m) \cup s \cup f \subseteq 1 .. n
    /\ l = "read" => b = << >> /\ m = << >>

LEMMA BecomesTyped ==
    ASSUME Typed, NEW w \in Worker, NEW l, NEW b, NEW m, NEW s, NEW f, Becomes(w, l, b, m, s, f), StreamTypeOK',
           unguarded' \subseteq Event,
           next' \in Nat, next <= next', Fits(next', l, b, m, s, f)
    PROVE  Typed'
<1> USE DEF Fits
<1>1. /\ pc' \in [Worker -> {"read", "mark", "settle"}]
      /\ batch' \in [Worker -> Seq(Nat)] /\ mine' \in [Worker -> Seq(Nat)]
      /\ successful' \in [Worker -> SUBSET Nat] /\ failed' \in [Worker -> SUBSET Nat]
  BY DEF Typed, TypeOK, Becomes
<1>2. /\ pc'[w] = l /\ batch'[w] = b /\ mine'[w] = m /\ successful'[w] = s /\ failed'[w] = f
      /\ \A v \in Worker : v # w => /\ pc'[v] = pc[v] /\ batch'[v] = batch[v] /\ mine'[v] = mine[v]
                                    /\ successful'[v] = successful[v] /\ failed'[v] = failed[v]
  BY BecomesFacts
<1>3. 1 .. next \subseteq 1 .. next'
  BY TypedFacts
<1>4. ASSUME NEW v \in Worker
      PROVE  /\ Ids(batch'[v]) \cup Ids(mine'[v]) \cup successful'[v] \cup failed'[v] \subseteq 1 .. next'
             /\ pc'[v] = "read" => batch'[v] = << >> /\ mine'[v] = << >>
  <2>1. CASE v = w
    BY <1>2, <2>1
  <2>2. CASE v # w
    <3>1. Ids(batch[v]) \cup Ids(mine[v]) \cup successful[v] \cup failed[v] \subseteq 1 .. next'
      BY <1>3, TypedFacts
    <3> QED  BY <1>2, <2>2, <3>1 DEF Typed
  <2> QED  BY <2>1, <2>2
<1> QED  BY <1>1, <1>4 DEF Typed, TypeOK, Ids

\* What each step of a consumer does to its own state.
LEMMA ReadMoves ==
    ASSUME Typed, NEW w \in Worker, Read(w)
    PROVE  \E n \in Nat \ {0} : ReadGroup(n) /\ pc[w] = "read" /\ Becomes(w, "mark", NewIds(n), mine[w], successful[w], failed[w])
<1>1. PICK n \in 1 .. BatchSize : ReadGroup(n) /\ batch' = [batch EXCEPT ![w] = NewIds(n)]
  BY DEF Read
<1>2. n \in Nat \ {0}
  BY StreamAssumption
<1> QED  BY <1>1, <1>2 DEF Read, Goto, Becomes, Typed

\* A step that leaves the stream and its group alone.
Settled == UNCHANGED <<stream, group, since, next, dlq>>

LEMMA MarkMoves ==
    ASSUME Typed, NEW w \in Worker, MarkMessage(w)
    PROVE  /\ pc[w] = "mark" /\ batch[w] # << >> /\ Settled /\ UNCHANGED <<pel, applied>>
           /\ LET i == Head(batch[w])
                  rest == Tail(batch[w])
              IN  \/ /\ marker' = marker /\ unguarded' = unguarded
                     /\ Becomes(w, "mark", rest, mine[w], successful[w], failed[w] \cup {i})
                  \/ /\ EventOf(i) \in marker /\ marker' = marker /\ unguarded' = unguarded
                     /\ Becomes(w, "mark", rest, mine[w], successful[w] \cup {i}, failed[w])
                  \/ /\ EventOf(i) \notin marker /\ marker' = marker \cup {EventOf(i)} /\ unguarded' = unguarded
                     /\ Becomes(w, "mark", rest, Append(mine[w], i), successful[w], failed[w])
                  \/ /\ "marker" \in faults /\ marker' = marker /\ unguarded' = unguarded \cup {EventOf(i)}
                     /\ Becomes(w, "mark", rest, Append(mine[w], i), successful[w], failed[w])
<1>1. pc[w] = "mark" /\ batch[w] # << >> /\ Settled /\ UNCHANGED <<pel, applied>>
  BY DEF MarkMessage, Settled
<1>2. /\ pc = [pc EXCEPT ![w] = "mark"] /\ mine = [mine EXCEPT ![w] = mine[w]]
      /\ successful = [successful EXCEPT ![w] = successful[w]] /\ failed = [failed EXCEPT ![w] = failed[w]]
  BY <1>1 DEF Typed, TypeOK
<1>3. pc' = pc /\ batch' = [batch EXCEPT ![w] = Tail(batch[w])]
  BY DEF MarkMessage
<1> QED  BY <1>1, <1>2, <1>3 DEF MarkMessage, Becomes

\* Only markers of the released entries go.
LEMMA Released ==
    ASSUME NEW ids, Release(ids)
    PROVE  marker' \subseteq marker /\ marker \ marker' \subseteq {EventOf(i) : i \in ids}
BY DEF Release

LEMMA CommitMoves ==
    ASSUME Typed, NEW w \in Worker, CommitBatch(w) \/ CommitFails(w) \/ PersistFails(w)
    PROVE  /\ pc[w] = "mark" /\ batch[w] = << >> /\ Settled /\ pel' = pel /\ unguarded' = unguarded
           /\ CommitBatch(w) => Becomes(w, "settle", << >>, mine[w], successful[w] \cup Ids(mine[w]), failed[w])
           /\ CommitFails(w) => Becomes(w, "settle", << >>, mine[w], successful[w], failed[w] \cup Ids(mine[w]))
           /\ PersistFails(w) => \E k \in DOMAIN mine[w] :
                /\ applied' = applied /\ marker' \subseteq marker /\ marker \ marker' \subseteq {EventOf(mine[w][k])}
                /\ Becomes(w, "settle", << >>, mine[w], successful[w] \cup Ids(SubSeq(mine[w], 1, k - 1)),
                                                        failed[w] \cup Ids(SubSeq(mine[w], k, Len(mine[w]))))
<1>1. /\ pc[w] = "mark" /\ batch[w] = << >> /\ Settled /\ pel' = pel /\ Goto(w, "settle") /\ batch' = batch
      /\ mine' = mine /\ unguarded' = unguarded
  BY DEF CommitBatch, CommitFails, PersistFails, Settled
<1>2. /\ batch = [batch EXCEPT ![w] = << >>] /\ mine = [mine EXCEPT ![w] = mine[w]]
      /\ successful = [successful EXCEPT ![w] = successful[w]] /\ failed = [failed EXCEPT ![w] = failed[w]]
  BY <1>1 DEF Typed
<1>3. CommitBatch(w) => Becomes(w, "settle", << >>, mine[w], successful[w] \cup Ids(mine[w]), failed[w])
  BY <1>1, <1>2 DEF CommitBatch, Becomes, Goto
<1>4. CommitFails(w) => Becomes(w, "settle", << >>, mine[w], successful[w], failed[w] \cup Ids(mine[w]))
  BY <1>1, <1>2 DEF CommitFails, Becomes, Goto
<1>5. ASSUME PersistFails(w)
      PROVE  \E k \in DOMAIN mine[w] :
                /\ applied' = applied /\ marker' \subseteq marker /\ marker \ marker' \subseteq {EventOf(mine[w][k])}
                /\ Becomes(w, "settle", << >>, mine[w], successful[w] \cup Ids(SubSeq(mine[w], 1, k - 1)),
                                                        failed[w] \cup Ids(SubSeq(mine[w], k, Len(mine[w]))))
  <2>1. PICK k \in DOMAIN mine[w] :
          /\ Release({mine[w][k]})
          /\ successful' = [successful EXCEPT ![w] = successful[w] \cup Ids(SubSeq(mine[w], 1, k - 1))]
          /\ failed' = [failed EXCEPT ![w] = failed[w] \cup Ids(SubSeq(mine[w], k, Len(mine[w])))]
    BY <1>5 DEF PersistFails
  <2>2. marker' \subseteq marker /\ marker \ marker' \subseteq {EventOf(mine[w][k])}
    BY <2>1, Released
  <2>3. Becomes(w, "settle", << >>, mine[w], successful[w] \cup Ids(SubSeq(mine[w], 1, k - 1)),
                                             failed[w] \cup Ids(SubSeq(mine[w], k, Len(mine[w]))))
    BY <1>1, <1>2, <2>1 DEF Becomes, Goto
  <2> QED  BY <1>5, <2>2, <2>3 DEF PersistFails
<1> QED  BY <1>1, <1>3, <1>4, <1>5

LEMMA SettleMoves ==
    ASSUME Typed, NEW w \in Worker
    PROVE  /\ AckMessage(w) => \E i \in successful[w] :
                /\ Ack(i) /\ Settled /\ UNCHANGED <<marker, applied>>
                /\ Becomes(w, "settle", batch[w], mine[w], successful[w] \ {i}, failed[w])
           /\ RetryMessage(w) => \E i \in failed[w] :
                /\ MoveToRetryOrDlq(i) /\ UNCHANGED <<group, since, next, marker, applied>>
                /\ Becomes(w, "settle", batch[w], mine[w], successful[w], failed[w] \ {i})
           /\ AckMessage(w) \/ RetryMessage(w) => pc[w] = "settle"
           /\ AckMessage(w) \/ RetryMessage(w) \/ BatchDone(w) \/ Crash(w) => unguarded' = unguarded
           /\ BatchDone(w) \/ Crash(w) => Becomes(w, "read", << >>, << >>, {}, {}) /\ UNCHANGED streamVars
<1>1. /\ batch = [batch EXCEPT ![w] = batch[w]] /\ mine = [mine EXCEPT ![w] = mine[w]] /\ pc = [pc EXCEPT ![w] = pc[w]]
      /\ successful = [successful EXCEPT ![w] = successful[w]] /\ failed = [failed EXCEPT ![w] = failed[w]]
  BY DEF Typed, TypeOK
<1>2. ASSUME AckMessage(w)
      PROVE  \E i \in successful[w] :
                /\ Ack(i) /\ Settled /\ UNCHANGED <<marker, applied>>
                /\ Becomes(w, "settle", batch[w], mine[w], successful[w] \ {i}, failed[w])
  BY <1>1, <1>2 DEF AckMessage, Settled, Becomes
<1>3. ASSUME RetryMessage(w)
      PROVE  \E i \in failed[w] :
                /\ MoveToRetryOrDlq(i) /\ UNCHANGED <<group, since, next, marker, applied>>
                /\ Becomes(w, "settle", batch[w], mine[w], successful[w], failed[w] \ {i})
  BY <1>1, <1>3 DEF RetryMessage, Becomes
<1> QED  BY <1>2, <1>3 DEF AckMessage, RetryMessage, BatchDone, Crash, Reset, Becomes

\* Events lose their guard only while Redis fails to answer, and do not regain it.
LEMMA Unguards ==
    ASSUME Typed, [Next]_vars
    PROVE  unguarded \subseteq unguarded' /\ unguarded' \subseteq Event /\ ("marker" \notin faults => unguarded' = unguarded)
<1>1. unguarded \subseteq Event
  BY DEF Typed, TypeOK
<1>2. ASSUME NEW w \in Worker, MarkMessage(w)
      PROVE  unguarded' = unguarded \/ (unguarded' = unguarded \cup {EventOf(Head(batch[w]))} /\ "marker" \in faults)
  BY <1>2, MarkMoves
<1>3. ASSUME NEW w \in Worker, MarkMessage(w) PROVE EventOf(Head(batch[w])) \in Event
  <2>1. batch[w] \in Seq(Nat) /\ batch[w] # << >>
    BY <1>3 DEF MarkMessage, Typed
  <2> QED  BY <2>1, HeadIds, TypedFacts
<1>4. ASSUME NEW w \in Worker, Read(w) PROVE unguarded' = unguarded
  BY <1>4 DEF Read
<1>5. CASE Producers \/ UNCHANGED vars
  BY <1>1, <1>5 DEF Producers, vars, workerVars
<1> QED  BY <1>1, <1>2, <1>3, <1>4, <1>5, CommitMoves, SettleMoves DEF Next, Handle

\* A stream that only grows keeps its entries.
Grows == /\ Len(stream') \in Nat /\ Len(stream) <= Len(stream')
         /\ \A i \in 1 .. Len(stream) : stream'[i] = stream[i]

LEMMA AppendGrows ==
    ASSUME stream \in Seq(Entry), NEW e \in Event, NEW a \in 0 .. MaxRetries,
           stream' = Append(stream, [event |-> e, attempt |-> a])
    PROVE  /\ stream' \in Seq(Entry) /\ Len(stream') = Len(stream) + 1 /\ Grows
           /\ stream'[Len(stream) + 1] = [event |-> e, attempt |-> a]
<1>1. [event |-> e, attempt |-> a] \in Entry
  BY DEF Entry
<1> QED  BY <1>1 DEF Grows

\* A retry or a dead letter.
LEMMA RetryGrows ==
    ASSUME Typed, NEW i \in 1 .. next, MoveToRetryOrDlq(i)
    PROVE  /\ stream' \in Seq(Entry) /\ Grows /\ dlq \subseteq dlq' /\ dlq' \subseteq Event /\ pel \ {i} \subseteq pel' /\ pel' \subseteq pel
           /\ \/ pel' = pel
              \/ EventOf(i) \in dlq'
              \/ Len(stream') = Len(stream) + 1 /\ stream'[Len(stream) + 1].event = EventOf(i)
<1>1. PICK e, a : e = EventOf(i) /\ a = stream[i].attempt
  OBVIOUS
<1>2. e \in Event /\ a \in 0 .. MaxRetries /\ stream \in Seq(Entry) /\ Len(stream) \in Nat /\ dlq \subseteq Event
  BY <1>1, TypedFacts
<1>3. CASE a < MaxRetries /\ stream' = Append(stream, [event |-> e, attempt |-> a + 1]) /\ Ack(i) /\ dlq' = dlq
  <2>1. PICK c \in 0 .. MaxRetries : c = a + 1
    BY <1>2, <1>3, StreamAssumption
  <2>2. /\ stream' \in Seq(Entry) /\ Len(stream') = Len(stream) + 1 /\ Grows
        /\ stream'[Len(stream) + 1] = [event |-> e, attempt |-> c]
    BY <1>2, <1>3, <2>1, AppendGrows
  <2> QED  BY <1>1, <1>2, <1>3, <2>2 DEF Ack
<1>4. CASE dlq' = dlq \cup {e} /\ Ack(i) /\ stream' = stream
  BY <1>1, <1>2, <1>4 DEF Ack, Grows
<1>5. CASE UNCHANGED <<stream, dlq, pel>>
  BY <1>2, <1>5 DEF Grows
<1> QED  BY <1>1, <1>3, <1>4, <1>5 DEF MoveToRetryOrDlq

LEMMA TypedStep == Typed /\ [Next]_vars => Typed'
<1> SUFFICES ASSUME Typed, [Next]_vars PROVE Typed'
  OBVIOUS
<1>f. faults' \in FaultModels
  BY DEF Next, vars, Typed, TypeOK, StreamTypeOK
<1>0. /\ stream \in Seq(Entry) /\ Len(stream) \in Nat /\ next \in Nat /\ next <= Len(stream)
      /\ since \in Nat /\ since <= Len(stream) /\ group \in {"absent", "ready"} /\ pel \subseteq 1 .. next
      /\ dlq \subseteq Event /\ marker \subseteq Event /\ applied \in [Event -> Nat]
  BY TypedFacts
<1>u. unguarded' \subseteq Event
  BY Unguards
<1>1. ASSUME stream' \in Seq(Entry), Len(stream') \in Nat, group' \in {"absent", "ready"}, since' \in Nat, since' <= Len(stream'),
             next' \in Nat, next' <= Len(stream'), pel' \subseteq 1 .. next', dlq' \subseteq Event, marker' \subseteq Event,
             applied' \in [Event -> Nat]
      PROVE  StreamTypeOK'
  BY <1>f, <1>1 DEF StreamTypeOK
<1>2. ASSUME Settled, pel' \subseteq pel, marker' \subseteq Event, applied' \in [Event -> Nat]
      PROVE  StreamTypeOK' /\ next' = next
  <2>1. pel' \subseteq 1 .. next'
    BY <1>0, <1>2 DEF Settled
  <2> QED  BY <1>0, <1>1, <1>2, <2>1 DEF Settled
<1>3. ASSUME UNCHANGED workerVars, StreamTypeOK', next' \in Nat, next <= next' PROVE Typed'
  <2>1. 1 .. next \subseteq 1 .. next'
    BY <1>0, <1>3
  <2>2. \A w \in Worker : Ids(batch[w]) \cup Ids(mine[w]) \cup successful[w] \cup failed[w] \subseteq 1 .. next'
    BY <2>1, TypedFacts
  <2>3. \A w \in Worker : Ids(batch'[w]) \cup Ids(mine'[w]) \cup successful'[w] \cup failed'[w] \subseteq 1 .. next'
    BY <1>3, <2>2 DEF workerVars
  <2> QED  BY <1>u, <1>3, <2>3 DEF Typed, TypeOK, Ids, workerVars
<1>4. ASSUME NEW e \in Event, Publish(e), UNCHANGED workerVars PROVE Typed'
  <2>1. 0 \in 0 .. MaxRetries
    BY StreamAssumption
  <2>2. stream' \in Seq(Entry) /\ Len(stream') = Len(stream) + 1
    BY <1>0, <1>4, <2>1, AppendGrows DEF Publish
  <2> QED  BY <1>0, <1>1, <1>3, <1>4, <2>2 DEF Publish
<1>5. ASSUME EnsureGroup, UNCHANGED workerVars PROVE Typed'
  <2>1. pel' \subseteq 1 .. next'
    BY <1>0, <1>5 DEF EnsureGroup
  <2> QED  BY <1>0, <1>1, <1>3, <1>5, <2>1 DEF EnsureGroup
<1>6. ASSUME NEW w \in Worker
      PROVE  /\ batch[w] \in Seq(Nat) /\ mine[w] \in Seq(Nat) /\ successful[w] \in SUBSET Nat /\ failed[w] \in SUBSET Nat
             /\ Ids(batch[w]) \cup Ids(mine[w]) \cup successful[w] \cup failed[w] \subseteq 1 .. next
             /\ Ids(mine[w]) \subseteq Nat
  BY <1>6, TypedFacts DEF Typed
<1>7. ASSUME NEW w \in Worker, Read(w) PROVE Typed'
  <2>1. PICK n \in Nat \ {0} : ReadGroup(n) /\ Becomes(w, "mark", NewIds(n), mine[w], successful[w], failed[w])
    BY <1>7, ReadMoves
  <2>2. /\ next' = next + n /\ next' <= Len(stream) /\ pel' = pel \cup (next + 1 .. next + n)
        /\ UNCHANGED <<stream, group, since, dlq, marker, applied>>
    BY <2>1 DEF ReadGroup
  <2>3. next' \in Nat /\ next <= next' /\ pel' \subseteq 1 .. next'
    <3>1. next' \in Nat /\ next <= next' /\ 1 .. next \subseteq 1 .. next' /\ next + 1 .. next + n \subseteq 1 .. next'
      BY <1>0, <2>2
    <3> QED  BY <1>0, <2>2, <3>1
  <2>4. NewIds(n) \in Seq(Nat) /\ Ids(NewIds(n)) = next + 1 .. next + n
    BY <1>0, ReadIds
  <2>5. Ids(NewIds(n)) \cup Ids(mine[w]) \cup successful[w] \cup failed[w] \subseteq 1 .. next'
    <3>1. 1 .. next \subseteq 1 .. next' /\ next + 1 .. next + n \subseteq 1 .. next'
      BY <1>0, <2>1, <2>2
    <3> QED  BY <1>6, <2>4, <3>1
  <2>6. StreamTypeOK'
    BY <1>0, <1>1, <2>2, <2>3
  <2>7. Fits(next', "mark", NewIds(n), mine[w], successful[w], failed[w])
    BY <1>6, <2>4, <2>5 DEF Fits
  <2> QED  BY <1>u, <2>1, <2>3, <2>6, <2>7, BecomesTyped
<1>8. ASSUME NEW w \in Worker, MarkMessage(w) PROVE Typed'
  <2>1. PICK i, rest : i = Head(batch[w]) /\ rest = Tail(batch[w])
    OBVIOUS
  <2>2. /\ batch[w] # << >> /\ Settled /\ UNCHANGED <<pel, applied>> /\ marker' \in {marker, marker \cup {EventOf(i)}}
        /\ \/ Becomes(w, "mark", rest, mine[w], successful[w], failed[w] \cup {i})
           \/ Becomes(w, "mark", rest, mine[w], successful[w] \cup {i}, failed[w])
           \/ Becomes(w, "mark", rest, Append(mine[w], i), successful[w], failed[w])
    BY <1>8, <2>1, MarkMoves
  <2>3. i \in Ids(batch[w]) /\ i \in Nat /\ rest \in Seq(Nat) /\ Ids(rest) \subseteq Ids(batch[w])
    BY <1>6, <2>1, <2>2, HeadIds
  <2>4. Append(mine[w], i) \in Seq(Nat) /\ Ids(Append(mine[w], i)) = Ids(mine[w]) \cup {i}
    BY <1>6, <2>3, AppendIds
  <2>5. i \in 1 .. next /\ EventOf(i) \in Event /\ Ids(rest) \subseteq 1 .. next
    BY <1>6, <2>3, TypedFacts
  <2>6. StreamTypeOK' /\ next' = next
    BY <1>0, <1>2, <2>2, <2>5
  <2>7. /\ failed[w] \cup {i} \in SUBSET Nat /\ successful[w] \cup {i} \in SUBSET Nat
        /\ Ids(rest) \cup Ids(mine[w]) \cup successful[w] \cup (failed[w] \cup {i}) \subseteq 1 .. next'
        /\ Ids(rest) \cup Ids(mine[w]) \cup (successful[w] \cup {i}) \cup failed[w] \subseteq 1 .. next'
        /\ Ids(rest) \cup Ids(Append(mine[w], i)) \cup successful[w] \cup failed[w] \subseteq 1 .. next'
    BY <1>6, <2>3, <2>4, <2>5, <2>6
  <2>8. /\ Fits(next', "mark", rest, mine[w], successful[w], failed[w] \cup {i})
        /\ Fits(next', "mark", rest, mine[w], successful[w] \cup {i}, failed[w])
        /\ Fits(next', "mark", rest, Append(mine[w], i), successful[w], failed[w])
    BY <1>6, <2>3, <2>4, <2>7 DEF Fits
  <2> QED  BY <1>0, <1>u, <2>2, <2>6, <2>8, BecomesTyped
<1>9. ASSUME NEW w \in Worker, CommitBatch(w) PROVE Typed'
  <2>1. Settled /\ pel' = pel /\ Becomes(w, "settle", << >>, mine[w], successful[w] \cup Ids(mine[w]), failed[w])
    BY <1>9, CommitMoves
  <2>2. ASSUME NEW e \in Event PROVE Cardinality({k \in DOMAIN mine[w] : EventOf(mine[w][k]) = e}) \in Nat
    <3>1. DOMAIN mine[w] = 1 .. Len(mine[w]) /\ Len(mine[w]) \in Nat
      BY <1>6
    <3>2. IsFiniteSet(DOMAIN mine[w])
      BY <3>1, FS_Interval
    <3>3. IsFiniteSet({k \in DOMAIN mine[w] : EventOf(mine[w][k]) = e})
      BY <3>2, FS_Subset
    <3> QED  BY <3>3, FS_CardinalityType
  <2>3. applied' \in [Event -> Nat] /\ marker' = marker
    BY <1>0, <1>9, <2>2 DEF CommitBatch
  <2>4. StreamTypeOK' /\ next' = next
    BY <1>0, <1>2, <2>1, <2>3
  <2>5. /\ successful[w] \cup Ids(mine[w]) \in SUBSET Nat
        /\ Ids(<< >>) \cup Ids(mine[w]) \cup (successful[w] \cup Ids(mine[w])) \cup failed[w] \subseteq 1 .. next'
    BY <1>6, <2>4, EmptyIds
  <2>6. Fits(next', "settle", << >>, mine[w], successful[w] \cup Ids(mine[w]), failed[w])
    BY <1>6, <2>5, EmptyIds DEF Fits
  <2> QED  BY <1>0, <1>u, <2>1, <2>4, <2>6, BecomesTyped
<1>10. ASSUME NEW w \in Worker, CommitFails(w) PROVE Typed'
  <2>1. Settled /\ pel' = pel /\ Becomes(w, "settle", << >>, mine[w], successful[w], failed[w] \cup Ids(mine[w]))
    BY <1>10, CommitMoves
  <2>2. applied' = applied /\ marker' \subseteq marker
    BY <1>10, Released DEF CommitFails
  <2>3. StreamTypeOK' /\ next' = next
    BY <1>0, <1>2, <2>1, <2>2
  <2>4. /\ failed[w] \cup Ids(mine[w]) \in SUBSET Nat
        /\ Ids(<< >>) \cup Ids(mine[w]) \cup successful[w] \cup (failed[w] \cup Ids(mine[w])) \subseteq 1 .. next'
    BY <1>6, <2>3, EmptyIds
  <2>5. Fits(next', "settle", << >>, mine[w], successful[w], failed[w] \cup Ids(mine[w]))
    BY <1>6, <2>4, EmptyIds DEF Fits
  <2> QED  BY <1>0, <1>u, <2>1, <2>3, <2>5, BecomesTyped
<1>11. ASSUME NEW w \in Worker, PersistFails(w) PROVE Typed'
  <2>1. PICK k \in DOMAIN mine[w] :
          /\ Settled /\ pel' = pel /\ applied' = applied /\ marker' \subseteq marker
          /\ Becomes(w, "settle", << >>, mine[w], successful[w] \cup Ids(SubSeq(mine[w], 1, k - 1)),
                                                  failed[w] \cup Ids(SubSeq(mine[w], k, Len(mine[w]))))
    BY <1>11, CommitMoves
  <2>2. PICK s, f : s = Ids(SubSeq(mine[w], 1, k - 1)) /\ f = Ids(SubSeq(mine[w], k, Len(mine[w])))
    OBVIOUS
  <2>3. s \subseteq Ids(mine[w]) /\ f \subseteq Ids(mine[w])
    <3>1. k \in 1 .. Len(mine[w]) /\ Len(mine[w]) \in Nat
      BY <1>6
    <3>2. k - 1 \in 0 .. Len(mine[w]) /\ 1 \in 1 .. Len(mine[w]) + 1 /\ k \in 1 .. Len(mine[w]) + 1 /\ Len(mine[w]) \in 0 .. Len(mine[w])
      BY <3>1
    <3>3. (\A x \in s : \E j \in 1 .. k - 1 : j \in DOMAIN mine[w] /\ x = mine[w][j])
      BY <1>6, <2>2, <3>2, PartIds
    <3>4. (\A x \in f : \E j \in k .. Len(mine[w]) : j \in DOMAIN mine[w] /\ x = mine[w][j])
      BY <1>6, <2>2, <3>2, PartIds
    <3> QED  BY <3>3, <3>4 DEF Ids
  <2>4. StreamTypeOK' /\ next' = next
    BY <1>0, <1>2, <2>1
  <2>5. /\ successful[w] \cup s \in SUBSET Nat /\ failed[w] \cup f \in SUBSET Nat
        /\ Ids(<< >>) \cup Ids(mine[w]) \cup (successful[w] \cup s) \cup (failed[w] \cup f) \subseteq 1 .. next'
    BY <1>6, <2>3, <2>4, EmptyIds
  <2>6. Fits(next', "settle", << >>, mine[w], successful[w] \cup s, failed[w] \cup f)
    BY <1>6, <2>5, EmptyIds DEF Fits
  <2> QED  BY <1>0, <1>u, <2>1, <2>2, <2>4, <2>6, BecomesTyped
<1>12. ASSUME NEW w \in Worker, AckMessage(w) PROVE Typed'
  <2>1. PICK i \in successful[w] : /\ Ack(i) /\ Settled /\ UNCHANGED <<marker, applied>>
                                   /\ Becomes(w, "settle", batch[w], mine[w], successful[w] \ {i}, failed[w])
    BY <1>12, SettleMoves
  <2>2. StreamTypeOK' /\ next' = next
    BY <1>0, <1>2, <2>1 DEF Ack
  <2>3. /\ successful[w] \ {i} \in SUBSET Nat
        /\ Ids(batch[w]) \cup Ids(mine[w]) \cup (successful[w] \ {i}) \cup failed[w] \subseteq 1 .. next'
    BY <1>6, <2>2
  <2>4. Fits(next', "settle", batch[w], mine[w], successful[w] \ {i}, failed[w])
    BY <1>6, <2>3 DEF Fits
  <2> QED  BY <1>0, <1>u, <2>1, <2>2, <2>4, BecomesTyped
<1>13. ASSUME NEW w \in Worker, RetryMessage(w) PROVE Typed'
  <2>1. PICK i \in failed[w] : /\ MoveToRetryOrDlq(i) /\ UNCHANGED <<group, since, next, marker, applied>>
                               /\ Becomes(w, "settle", batch[w], mine[w], successful[w], failed[w] \ {i})
    BY <1>13, SettleMoves
  <2>2. i \in 1 .. next
    BY <1>6
  <2>3. stream' \in Seq(Entry) /\ Grows /\ dlq' \subseteq Event /\ pel' \subseteq pel
    BY <2>1, <2>2, RetryGrows
  <2>4. StreamTypeOK'
    <3>1. pel' \subseteq 1 .. next'
      BY <1>0, <2>1, <2>3
    <3> QED  BY <1>0, <1>1, <2>1, <2>3, <3>1 DEF Grows
  <2>5. /\ failed[w] \ {i} \in SUBSET Nat
        /\ Ids(batch[w]) \cup Ids(mine[w]) \cup successful[w] \cup (failed[w] \ {i}) \subseteq 1 .. next'
    BY <1>6, <2>1
  <2>6. Fits(next', "settle", batch[w], mine[w], successful[w], failed[w] \ {i})
    BY <1>6, <2>5 DEF Fits
  <2> QED  BY <1>0, <1>u, <2>1, <2>4, <2>6, BecomesTyped
<1>14. ASSUME NEW w \in Worker, BatchDone(w) \/ Crash(w) PROVE Typed'
  <2>1. Becomes(w, "read", << >>, << >>, {}, {}) /\ UNCHANGED streamVars
    BY <1>14, SettleMoves
  <2>2. StreamTypeOK' /\ next' = next
    BY <1>0, <1>1, <2>1 DEF streamVars
  <2>3. Ids(<< >>) \cup Ids(<< >>) \cup {} \cup {} \subseteq 1 .. next'
    BY EmptyIds
  <2>4. Fits(next', "read", << >>, << >>, {}, {})
    BY <2>3, EmptyIds DEF Fits
  <2> QED  BY <1>0, <1>u, <2>1, <2>2, <2>4, BecomesTyped
<1>15. CASE UNCHANGED vars
  <2>1. UNCHANGED workerVars /\ UNCHANGED streamVars
    BY <1>15 DEF vars
  <2> QED  BY <1>0, <1>1, <1>3, <2>1 DEF streamVars
<1> QED  BY <1>4, <1>5, <1>7, <1>8, <1>9, <1>10, <1>11, <1>12, <1>13, <1>14, <1>15 DEF Next, Producers, Handle

LEMMA TypedAlways == Spec => []Typed
<1>1. Init => Typed
  <2> SUFFICES ASSUME Init PROVE Typed
    OBVIOUS
  <2>1. StreamTypeOK
    BY DEF Init, StreamInit, StreamTypeOK
  <2> QED  BY <2>1, EmptyIds DEF Init, Typed, TypeOK
<1> QED  BY <1>1, TypedStep, PTL DEF Spec

\* The stream, its group and every consumer's bookkeeping hold what they are
\* meant to hold: no consumer acts on an id that was not delivered.
THEOREM TelematicsTypeCorrect == Spec => []TypeOK
<1>1. Typed => TypeOK
  BY DEF Typed
<1> QED  BY <1>1, TypedAlways, PTL
-----------------------------------------------------------------------------
(* At most once.                                                           *)

\* Entry k of what consumer w has marked, and not yet committed or released, is
\* of event e.
HoldsAt(w, k, e) == pc[w] = "mark" /\ k \in DOMAIN mine[w] /\ EventOf(mine[w][k]) = e

\* Events that nobody took without an answer about their marker.
Guarded == Event \ unguarded

\* Such an event, when held, is marked, not applied, and held once; when it is not
\* marked it was never applied; it is applied at most once.
Claimed ==
    /\ \A w \in Worker, e \in Guarded : \A k \in DOMAIN mine[w] : HoldsAt(w, k, e) => e \in marker /\ applied[e] = 0
    /\ \A v, w \in Worker, e \in Guarded : \A j \in DOMAIN mine[v], k \in DOMAIN mine[w] :
          HoldsAt(v, j, e) /\ HoldsAt(w, k, e) => v = w /\ j = k
    /\ \A e \in Guarded : e \notin marker => applied[e] = 0
    /\ \A e \in Guarded : applied[e] <= 1

LEMMA MineFacts ==
    ASSUME Typed, NEW w \in Worker, NEW k \in DOMAIN mine[w]
    PROVE  mine[w][k] \in Ids(mine[w]) /\ mine[w][k] \in 1 .. next /\ mine[w][k] \in 1 .. Len(stream) /\ EventOf(mine[w][k]) \in Event
<1>1. mine[w][k] \in Ids(mine[w])
  BY DEF Ids
<1> QED  BY <1>1, TypedFacts

\* A consumer whose marked entries stay holds what it held, however the stream grows.
LEMMA HoldsOn ==
    ASSUME Typed, Grows, NEW v \in Worker, pc'[v] = pc[v], mine'[v] = mine[v], NEW k \in DOMAIN mine[v], NEW e
    PROVE  HoldsAt(v, k, e)' <=> HoldsAt(v, k, e)
<1>1. EventOf(mine[v][k])' = EventOf(mine[v][k])
  BY MineFacts DEF Grows, EventOf
<1> QED  BY <1>1 DEF HoldsAt, EventOf

\* Releasing and applying what only w holds, while w lets go of all it holds.
LEMMA LetGo ==
    ASSUME Typed, Claimed, NEW w \in Worker, Grows, pc'[w] # "mark",
           \A v \in Worker : v # w => pc'[v] = pc[v] /\ mine'[v] = mine[v],
           unguarded' = unguarded,
           \A e \in Guarded : e \in marker /\ e \notin marker' =>
              applied'[e] = applied[e] /\ \E k \in DOMAIN mine[w] : HoldsAt(w, k, e),
           marker' \subseteq marker,
           \A e \in Guarded : \/ applied'[e] = applied[e]
                              \/ applied'[e] = 1 /\ \E k \in DOMAIN mine[w] : HoldsAt(w, k, e)
    PROVE  Claimed'
<1>1. \A e \in Guarded : \A k \in DOMAIN mine'[w] : ~HoldsAt(w, k, e)'
  BY DEF HoldsAt
<1>2. \A v \in Worker, e \in Guarded : v # w => DOMAIN mine'[v] = DOMAIN mine[v] /\ \A k \in DOMAIN mine[v] : HoldsAt(v, k, e)' <=> HoldsAt(v, k, e)
  BY HoldsOn
<1>3. ASSUME NEW v \in Worker, NEW e \in Guarded, NEW k \in DOMAIN mine'[v], HoldsAt(v, k, e)'
      PROVE  e \in marker' /\ applied'[e] = 0
  <2>1. v # w /\ k \in DOMAIN mine[v] /\ HoldsAt(v, k, e)
    BY <1>1, <1>2, <1>3
  <2>2. \A j \in DOMAIN mine[w] : ~HoldsAt(w, j, e)
    BY <2>1 DEF Claimed
  <2> QED  BY <2>1, <2>2 DEF Claimed
<1>4. ASSUME NEW v \in Worker, NEW u \in Worker, NEW e \in Guarded, NEW j \in DOMAIN mine'[v], NEW k \in DOMAIN mine'[u],
             HoldsAt(v, j, e)', HoldsAt(u, k, e)'
      PROVE  v = u /\ j = k
  <2>1. /\ v # w /\ j \in DOMAIN mine[v] /\ HoldsAt(v, j, e)
        /\ u # w /\ k \in DOMAIN mine[u] /\ HoldsAt(u, k, e)
    BY <1>1, <1>2, <1>4
  <2> QED  BY <2>1 DEF Claimed
<1>5. ASSUME NEW e \in Guarded PROVE (e \notin marker' => applied'[e] = 0) /\ applied'[e] <= 1
  <2>1. (\A k \in DOMAIN mine[w] : HoldsAt(w, k, e) => e \in marker /\ applied[e] = 0) /\ (e \notin marker => applied[e] = 0) /\ applied[e] <= 1
    BY DEF Claimed
  <2> QED  BY <2>1
<1> QED  BY <1>3, <1>4, <1>5 DEF Claimed, Guarded

\* Nothing is marked, released or applied, and what was marked stays so.
LEMMA HoldOn ==
    ASSUME Typed, Claimed, Grows, UNCHANGED <<marker, applied, unguarded>>,
           \A v \in Worker : mine'[v] = mine[v] /\ (pc'[v] = "mark" => pc[v] = "mark" \/ mine[v] = << >>)
    PROVE  Claimed'
<1>1. ASSUME NEW v \in Worker, NEW k \in DOMAIN mine[v], NEW e \in Guarded, HoldsAt(v, k, e)' PROVE HoldsAt(v, k, e)
  <2>1. EventOf(mine[v][k])' = EventOf(mine[v][k])
    BY MineFacts DEF Grows, EventOf
  <2>2. mine[v] # << >> /\ pc'[v] = "mark"
    BY <1>1 DEF HoldsAt
  <2> QED  BY <1>1, <2>1, <2>2 DEF HoldsAt, EventOf
<1>2. ASSUME NEW v \in Worker, NEW e \in Guarded, NEW k \in DOMAIN mine'[v], HoldsAt(v, k, e)' PROVE e \in marker' /\ applied'[e] = 0
  BY <1>1, <1>2 DEF Claimed
<1>3. ASSUME NEW v \in Worker, NEW u \in Worker, NEW e \in Guarded, NEW j \in DOMAIN mine'[v], NEW k \in DOMAIN mine'[u],
             HoldsAt(v, j, e)', HoldsAt(u, k, e)'
      PROVE  v = u /\ j = k
  BY <1>1, <1>3 DEF Claimed
<1> QED  BY <1>2, <1>3 DEF Claimed, Guarded

\* A new message: its event was not marked, so nobody held it.
LEMMA TakeHold ==
    ASSUME Typed, Claimed, NEW w \in Worker, pc[w] = "mark", NEW i \in 1 .. next, NEW e0, e0 = EventOf(i), e0 \notin marker,
           marker' = marker \cup {e0}, UNCHANGED <<stream, applied, unguarded>>, pc'[w] = "mark", mine'[w] = Append(mine[w], i),
           \A v \in Worker : v # w => pc'[v] = pc[v] /\ mine'[v] = mine[v]
    PROVE  Claimed'
<1>1. (e0 \in Guarded => applied[e0] = 0) /\ i \in Nat
  BY DEF Claimed
<1>2. /\ Len(mine[w]) \in Nat /\ DOMAIN mine[w] = 1 .. Len(mine[w]) /\ DOMAIN mine'[w] = 1 .. Len(mine[w]) + 1
      /\ mine'[w][Len(mine[w]) + 1] = i /\ \A k \in DOMAIN mine[w] : mine'[w][k] = mine[w][k]
  <2>1. mine[w] \in Seq(Nat)
    BY DEF Typed
  <2> QED  BY <1>1, <2>1, AppendProperties
<1>3. PICK last : last = Len(mine[w]) + 1
  OBVIOUS
<1>4. ASSUME NEW v \in Worker, NEW e \in Guarded, NEW k \in DOMAIN mine'[v], HoldsAt(v, k, e)'
      PROVE  \/ v = w /\ k = last /\ e = e0
             \/ k \in DOMAIN mine[v] /\ HoldsAt(v, k, e) /\ e # e0 /\ ~(v = w /\ k = last)
  <2>1. CASE v = w /\ k = last
    BY <1>2, <1>3, <1>4, <2>1 DEF HoldsAt, EventOf
  <2>2. CASE ~(v = w /\ k = last)
    <3>1. k \in DOMAIN mine[v] /\ mine'[v][k] = mine[v][k] /\ pc'[v] = pc[v]
      BY <1>2, <1>3, <2>2
    <3>2. HoldsAt(v, k, e)
      BY <1>4, <3>1 DEF HoldsAt, EventOf
    <3>3. e \in marker
      BY <3>1, <3>2 DEF Claimed
    <3> QED  BY <2>2, <3>1, <3>2, <3>3
  <2> QED  BY <2>1, <2>2
<1>5. ASSUME NEW v \in Worker, NEW e \in Guarded, NEW k \in DOMAIN mine'[v], HoldsAt(v, k, e)' PROVE e \in marker' /\ applied'[e] = 0
  BY <1>1, <1>4, <1>5 DEF Claimed
<1>6. ASSUME NEW v \in Worker, NEW u \in Worker, NEW e \in Guarded, NEW j \in DOMAIN mine'[v], NEW k \in DOMAIN mine'[u],
             HoldsAt(v, j, e)', HoldsAt(u, k, e)'
      PROVE  v = u /\ j = k
  <2>1. CASE e = e0
    BY <1>4, <1>6, <2>1
  <2>2. CASE e # e0
    BY <1>4, <1>6, <2>2 DEF Claimed
  <2> QED  BY <2>1, <2>2
<1> QED  BY <1>5, <1>6 DEF Claimed, Guarded

\* A message taken while Redis does not answer: its event loses its guard, and
\* nobody holds another event for it.
LEMMA TakeOpen ==
    ASSUME Typed, Claimed, NEW w \in Worker, pc[w] = "mark", NEW i \in 1 .. next, unguarded' = unguarded \cup {EventOf(i)},
           UNCHANGED <<stream, marker, applied>>, pc'[w] = "mark", mine'[w] = Append(mine[w], i),
           \A v \in Worker : v # w => pc'[v] = pc[v] /\ mine'[v] = mine[v]
    PROVE  Claimed'
<1>1. /\ Len(mine[w]) \in Nat /\ DOMAIN mine[w] = 1 .. Len(mine[w]) /\ DOMAIN mine'[w] = 1 .. Len(mine[w]) + 1
      /\ mine'[w][Len(mine[w]) + 1] = i /\ \A k \in DOMAIN mine[w] : mine'[w][k] = mine[w][k]
  <2>1. mine[w] \in Seq(Nat) /\ i \in Nat
    BY DEF Typed
  <2> QED  BY <2>1, AppendProperties
<1>2. Guarded' \subseteq Guarded /\ EventOf(i) \notin Guarded'
  BY DEF Guarded
<1>3. ASSUME NEW v \in Worker, NEW e \in Guarded', NEW k \in DOMAIN mine'[v], HoldsAt(v, k, e)'
      PROVE  k \in DOMAIN mine[v] /\ HoldsAt(v, k, e)
  <2>1. ~(v = w /\ k = Len(mine[w]) + 1)
    BY <1>1, <1>2, <1>3 DEF HoldsAt, EventOf
  <2>2. k \in DOMAIN mine[v] /\ mine'[v][k] = mine[v][k] /\ pc'[v] = pc[v]
    BY <1>1, <2>1
  <2> QED  BY <1>3, <2>2 DEF HoldsAt, EventOf
<1>4. ASSUME NEW v \in Worker, NEW e \in Guarded', NEW k \in DOMAIN mine'[v], HoldsAt(v, k, e)' PROVE e \in marker' /\ applied'[e] = 0
  BY <1>2, <1>3, <1>4 DEF Claimed
<1>5. ASSUME NEW v \in Worker, NEW u \in Worker, NEW e \in Guarded', NEW j \in DOMAIN mine'[v], NEW k \in DOMAIN mine'[u],
             HoldsAt(v, j, e)', HoldsAt(u, k, e)'
      PROVE  v = u /\ j = k
  BY <1>2, <1>3, <1>5 DEF Claimed
<1> QED  BY <1>2, <1>4, <1>5 DEF Claimed

\* What the transaction applies: each held event once, no other.
LEMMA CommitCounts ==
    ASSUME Typed, Claimed, NEW w \in Worker, pc[w] = "mark", NEW e \in Guarded, CommitBatch(w)
    PROVE  \/ applied'[e] = applied[e] /\ \A k \in DOMAIN mine[w] : ~HoldsAt(w, k, e)
           \/ applied'[e] = 1 /\ \E k \in DOMAIN mine[w] : HoldsAt(w, k, e)
<1>1. PICK S : S = {k \in DOMAIN mine[w] : EventOf(mine[w][k]) = e}
  OBVIOUS
<1>2. applied'[e] = applied[e] + Cardinality(S) /\ applied[e] \in Nat
  BY <1>1, TypedFacts DEF CommitBatch, Guarded
<1>3. \A k \in DOMAIN mine[w] : k \in S <=> HoldsAt(w, k, e)
  BY <1>1 DEF HoldsAt
<1>4. CASE S = {}
  BY <1>2, <1>3, <1>4, FS_EmptySet
<1>5. CASE S # {}
  <2>1. PICK k \in DOMAIN mine[w] : HoldsAt(w, k, e)
    BY <1>1, <1>3, <1>5
  <2>2. S = {k}
    BY <1>1, <1>3, <2>1 DEF Claimed
  <2>3. Cardinality({k}) = 1 /\ applied[e] = 0
    BY <2>1, FS_Singleton DEF Claimed
  <2> QED  BY <1>2, <2>1, <2>2, <2>3
<1> QED  BY <1>4, <1>5

LEMMA ClaimedStep == Typed /\ Claimed /\ [Next]_vars => Claimed'
<1> SUFFICES ASSUME Typed, Claimed, [Next]_vars PROVE Claimed'
  OBVIOUS
<1>1. stream \in Seq(Entry) /\ Len(stream) \in Nat
  BY TypedFacts
<1>2. stream' = stream => Grows
  BY <1>1 DEF Grows
<1>3. CASE Producers
  <2>1. Grows
    <3>1. ASSUME NEW e \in Event, Publish(e) PROVE Grows
      <4>1. 0 \in 0 .. MaxRetries
        BY StreamAssumption
      <4> QED  BY <1>1, <3>1, <4>1, AppendGrows DEF Publish
    <3> QED  BY <1>2, <1>3, <3>1 DEF Producers, EnsureGroup
  <2> QED  BY <1>3, <2>1, HoldOn DEF Producers, Publish, EnsureGroup, workerVars
<1>4. ASSUME NEW w \in Worker, Read(w) PROVE Claimed'
  <2>1. PICK n \in Nat \ {0} : ReadGroup(n) /\ pc[w] = "read" /\ Becomes(w, "mark", NewIds(n), mine[w], successful[w], failed[w])
    BY <1>4, ReadMoves
  <2>2. mine[w] = << >>
    BY <2>1 DEF Typed
  <2>3. mine'[w] = mine[w] /\ \A v \in Worker : v # w => pc'[v] = pc[v] /\ mine'[v] = mine[v]
    BY <2>1, BecomesFacts
  <2>4. unguarded' = unguarded
    BY <1>4 DEF Read
  <2> QED  BY <1>2, <2>1, <2>2, <2>3, <2>4, HoldOn DEF ReadGroup
<1>5. ASSUME NEW w \in Worker, MarkMessage(w) PROVE Claimed'
  <2>1. PICK i : i = Head(batch[w])
    OBVIOUS
  <2>2. pc[w] = "mark" /\ batch[w] # << >> /\ UNCHANGED <<stream, applied>>
    BY <1>5, MarkMoves DEF Settled
  <2>3. i \in 1 .. next
    <3>1. batch[w] \in Seq(Nat)
      BY DEF Typed
    <3> QED  BY <2>1, <2>2, <3>1, HeadIds, TypedFacts
  <2>4. /\ pc'[w] = "mark" /\ \A v \in Worker : v # w => pc'[v] = pc[v] /\ mine'[v] = mine[v]
        /\ \/ marker' = marker /\ mine'[w] = mine[w] /\ unguarded' = unguarded
           \/ EventOf(i) \notin marker /\ marker' = marker \cup {EventOf(i)} /\ mine'[w] = Append(mine[w], i) /\ unguarded' = unguarded
           \/ marker' = marker /\ mine'[w] = Append(mine[w], i) /\ unguarded' = unguarded \cup {EventOf(i)}
    <3>1. PICK rest : rest = Tail(batch[w])
      OBVIOUS
    <3>2. PICK m, g, f : /\ Becomes(w, "mark", rest, m, g, f)
                         /\ \/ marker' = marker /\ m = mine[w] /\ unguarded' = unguarded
                            \/ EventOf(i) \notin marker /\ marker' = marker \cup {EventOf(i)} /\ m = Append(mine[w], i) /\ unguarded' = unguarded
                            \/ marker' = marker /\ m = Append(mine[w], i) /\ unguarded' = unguarded \cup {EventOf(i)}
      BY <1>5, <2>1, <3>1, MarkMoves
    <3>3. mine'[w] = m /\ pc'[w] = "mark" /\ \A v \in Worker : v # w => pc'[v] = pc[v] /\ mine'[v] = mine[v]
      BY <3>2, BecomesFacts
    <3> QED  BY <3>2, <3>3
  <2>5. CASE marker' = marker /\ mine'[w] = mine[w] /\ unguarded' = unguarded
    BY <1>2, <2>2, <2>4, <2>5, HoldOn
  <2>6. CASE EventOf(i) \notin marker /\ marker' = marker \cup {EventOf(i)} /\ mine'[w] = Append(mine[w], i) /\ unguarded' = unguarded
    <3>1. PICK e : e = EventOf(i)
      OBVIOUS
    <3> QED  BY <2>2, <2>3, <2>4, <2>6, <3>1, TakeHold
  <2>7. CASE marker' = marker /\ mine'[w] = Append(mine[w], i) /\ unguarded' = unguarded \cup {EventOf(i)}
    BY <2>2, <2>3, <2>4, <2>7, TakeOpen
  <2> QED  BY <2>4, <2>5, <2>6, <2>7
<1>6. ASSUME NEW w \in Worker, CommitBatch(w) PROVE Claimed'
  <2>1. /\ pc[w] = "mark" /\ stream' = stream /\ unguarded' = unguarded
        /\ Becomes(w, "settle", << >>, mine[w], successful[w] \cup Ids(mine[w]), failed[w])
    BY <1>6, CommitMoves DEF Settled
  <2>2. pc'[w] = "settle" /\ \A v \in Worker : v # w => pc'[v] = pc[v] /\ mine'[v] = mine[v]
    BY <2>1, BecomesFacts
  <2>3. marker' = marker
    BY <1>6 DEF CommitBatch
  <2>4. \A e \in Guarded : applied'[e] = applied[e] \/ (applied'[e] = 1 /\ \E k \in DOMAIN mine[w] : HoldsAt(w, k, e))
    BY <1>6, <2>1, CommitCounts
  <2> QED  BY <1>2, <2>1, <2>2, <2>3, <2>4, LetGo
<1>7. ASSUME NEW w \in Worker, CommitFails(w) PROVE Claimed'
  <2>1. /\ pc[w] = "mark" /\ stream' = stream /\ unguarded' = unguarded
        /\ Becomes(w, "settle", << >>, mine[w], successful[w], failed[w] \cup Ids(mine[w]))
    BY <1>7, CommitMoves DEF Settled
  <2>2. pc'[w] = "settle" /\ \A v \in Worker : v # w => pc'[v] = pc[v] /\ mine'[v] = mine[v]
    BY <2>1, BecomesFacts
  <2>3. marker' \subseteq marker /\ marker \ marker' \subseteq {EventOf(i) : i \in Ids(mine[w])} /\ applied' = applied
    BY <1>7, Released DEF CommitFails
  <2>4. \A e \in marker : e \notin marker' => \E k \in DOMAIN mine[w] : HoldsAt(w, k, e)
    BY <2>1, <2>3 DEF Ids, HoldsAt
  <2> QED  BY <1>2, <2>1, <2>2, <2>3, <2>4, LetGo
<1>8. ASSUME NEW w \in Worker, PersistFails(w) PROVE Claimed'
  <2>1. PICK k \in DOMAIN mine[w] :
          /\ pc[w] = "mark" /\ stream' = stream /\ applied' = applied /\ unguarded' = unguarded
          /\ marker' \subseteq marker /\ marker \ marker' \subseteq {EventOf(mine[w][k])}
          /\ Becomes(w, "settle", << >>, mine[w], successful[w] \cup Ids(SubSeq(mine[w], 1, k - 1)),
                                                  failed[w] \cup Ids(SubSeq(mine[w], k, Len(mine[w]))))
    BY <1>8, CommitMoves DEF Settled
  <2>2. pc'[w] = "settle" /\ \A v \in Worker : v # w => pc'[v] = pc[v] /\ mine'[v] = mine[v]
    BY <2>1, BecomesFacts
  <2>3. \A e \in marker : e \notin marker' => HoldsAt(w, k, e)
    BY <2>1 DEF HoldsAt
  <2> QED  BY <1>2, <2>1, <2>2, <2>3, LetGo
<1>9. ASSUME NEW w \in Worker, AckMessage(w) PROVE Claimed'
  <2>1. PICK i \in successful[w] : /\ Settled /\ UNCHANGED <<marker, applied, unguarded>> /\ pc[w] = "settle"
                                   /\ Becomes(w, "settle", batch[w], mine[w], successful[w] \ {i}, failed[w])
    BY <1>9, SettleMoves
  <2>2. \A v \in Worker : pc'[v] = pc[v] /\ mine'[v] = mine[v]
    BY <2>1, BecomesFacts
  <2> QED  BY <1>2, <2>1, <2>2, HoldOn DEF Settled
<1>10. ASSUME NEW w \in Worker, RetryMessage(w) PROVE Claimed'
  <2>1. PICK i \in failed[w] : /\ MoveToRetryOrDlq(i) /\ UNCHANGED <<marker, applied, unguarded>> /\ pc[w] = "settle"
                               /\ Becomes(w, "settle", batch[w], mine[w], successful[w], failed[w] \ {i})
    BY <1>10, SettleMoves
  <2>2. \A v \in Worker : pc'[v] = pc[v] /\ mine'[v] = mine[v]
    BY <2>1, BecomesFacts
  <2>3. Grows
    BY <2>1, TypedFacts, RetryGrows
  <2> QED  BY <2>1, <2>2, <2>3, HoldOn
<1>11. ASSUME NEW w \in Worker, BatchDone(w) \/ Crash(w) PROVE Claimed'
  <2>1. Becomes(w, "read", << >>, << >>, {}, {}) /\ UNCHANGED <<stream, marker, applied, unguarded>>
    BY <1>11, SettleMoves DEF streamVars
  <2>2. pc'[w] = "read" /\ \A v \in Worker : v # w => pc'[v] = pc[v] /\ mine'[v] = mine[v]
    BY <2>1, BecomesFacts
  <2> QED  BY <1>2, <2>1, <2>2, LetGo
<1>12. CASE UNCHANGED vars
  BY <1>2, <1>12, HoldOn DEF vars, streamVars, workerVars
<1> QED  BY <1>3, <1>4, <1>5, <1>6, <1>7, <1>8, <1>9, <1>10, <1>11, <1>12 DEF Next, Handle

LEMMA ClaimedInit == Init => Claimed
BY DEF Init, StreamInit, Claimed, HoldsAt, Guarded

\* However often a reading is published, delivered or retried, wherever consumers
\* die and whatever releases fail, it is stored at most once, unless a consumer
\* took it while Redis did not answer.
THEOREM ReadingsAppliedOnce == Spec => []StoredOnce
<1>1. Claimed => StoredOnce
  BY DEF Claimed, Guarded, StoredOnce
<1> QED  BY <1>1, ClaimedInit, ClaimedStep, TypedAlways, PTL DEF Spec
-----------------------------------------------------------------------------
(* Nothing falls out of the stream unmarked.                               *)

\* The ids consumer w has yet to decide on.
InHand(w) == Ids(batch[w]) \cup (IF pc[w] = "mark" THEN Ids(mine[w]) ELSE {})

Decided(w) == successful[w] \cup failed[w]

\* An undecided id is pending, after the group's start, and in one place only.
Tracked ==
    /\ since <= next
    /\ group = "absent" => pel = {}
    /\ \A i \in pel : since < i
    /\ \A w \in Worker : /\ InHand(w) \subseteq pel /\ Distinct(batch[w])
                         /\ pc[w] = "mark" => Ids(mine[w]) \cap Ids(batch[w]) = {}
    /\ \A v, w \in Worker : v # w => InHand(v) \cap InHand(w) = {}
    /\ \A v, w \in Worker : InHand(v) \cap Decided(w) = {}

\* A consumer decides on ids it has in hand, and only decided ids stop being
\* pending.
LEMMA HandKept ==
    ASSUME Typed, Tracked, NEW w \in Worker, UNCHANGED <<group, since, next>>, pel' \subseteq pel, pel \ pel' \subseteq Decided(w),
           \A v \in Worker : v # w => /\ pc'[v] = pc[v] /\ batch'[v] = batch[v] /\ mine'[v] = mine[v]
                                      /\ successful'[v] = successful[v] /\ failed'[v] = failed[v],
           InHand(w)' \subseteq InHand(w), Decided(w)' \subseteq Decided(w) \cup (InHand(w) \ InHand(w)'),
           Distinct(batch'[w]), pc'[w] = "mark" => Ids(mine'[w]) \cap Ids(batch'[w]) = {}
    PROVE  Tracked'
<1>1. \A v \in Worker : v # w => InHand(v)' = InHand(v) /\ Decided(v)' = Decided(v)
  BY DEF InHand, Decided, Ids
<1>2. \A v \in Worker : InHand(v)' \subseteq InHand(v)
  BY <1>1
<1>3. ASSUME NEW v \in Worker
      PROVE  /\ InHand(v)' \subseteq pel' /\ Distinct(batch'[v])
             /\ pc'[v] = "mark" => Ids(mine'[v]) \cap Ids(batch'[v]) = {}
  <2>1. InHand(v)' \subseteq pel'
    BY <1>2 DEF Tracked
  <2> QED  BY <2>1 DEF Tracked
<1>4. \A v, u \in Worker : v # u => InHand(v)' \cap InHand(u)' = {}
  BY <1>2 DEF Tracked
<1>5. ASSUME NEW v \in Worker, NEW u \in Worker PROVE InHand(v)' \cap Decided(u)' = {}
  <2>1. CASE u # w
    BY <1>1, <1>2, <2>1 DEF Tracked
  <2>2. CASE u = w /\ v = w
    BY <1>2, <2>2 DEF Tracked
  <2>3. CASE u = w /\ v # w
    BY <1>2, <2>3 DEF Tracked
  <2> QED  BY <2>1, <2>2, <2>3
<1>6. since' <= next' /\ (group' = "absent" => pel' = {}) /\ \A i \in pel' : since' < i
  BY DEF Tracked
<1> QED  BY <1>3, <1>4, <1>5, <1>6 DEF Tracked, Ids

\* Ids a read hands out are new to everyone.
LEMMA ReadTracked ==
    ASSUME Typed, Tracked, NEW w \in Worker, Read(w)
    PROVE  Tracked'
<1>1. PICK n \in Nat \ {0} : ReadGroup(n) /\ pc[w] = "read" /\ Becomes(w, "mark", NewIds(n), mine[w], successful[w], failed[w])
  BY ReadMoves
<1>2. /\ group = "ready" /\ group' = group /\ since' = since /\ next' = next + n /\ pel' = pel \cup (next + 1 .. next + n)
  BY <1>1 DEF ReadGroup
<1>3. next \in Nat /\ since \in Nat /\ pel \subseteq 1 .. next
  BY TypedFacts
<1>4. /\ pc'[w] = "mark" /\ batch'[w] = NewIds(n) /\ mine'[w] = << >> /\ Decided(w)' = Decided(w)
      /\ \A v \in Worker : v # w => InHand(v)' = InHand(v) /\ Decided(v)' = Decided(v) /\ pc'[v] = pc[v] /\ batch'[v] = batch[v] /\ mine'[v] = mine[v]
  <2>1. mine[w] = << >>
    BY <1>1 DEF Typed
  <2>2. /\ pc'[w] = "mark" /\ batch'[w] = NewIds(n) /\ mine'[w] = mine[w] /\ successful'[w] = successful[w] /\ failed'[w] = failed[w]
        /\ \A v \in Worker : v # w => /\ pc'[v] = pc[v] /\ batch'[v] = batch[v] /\ mine'[v] = mine[v]
                                      /\ successful'[v] = successful[v] /\ failed'[v] = failed[v]
    BY <1>1, BecomesFacts
  <2> QED  BY <2>1, <2>2 DEF InHand, Decided, Ids
<1>5. Ids(NewIds(n)) = next + 1 .. next + n /\ Distinct(NewIds(n))
  BY <1>3, ReadIds
<1>6. InHand(w)' = next + 1 .. next + n
  <2>1. PICK b : b = batch'[w] /\ Ids(b) = next + 1 .. next + n
    BY <1>4, <1>5
  <2>2. PICK m : m = mine'[w] /\ Ids(m) = {}
    BY <1>4, EmptyIds
  <2> QED  BY <1>4, <2>1, <2>2 DEF InHand, Ids
<1>7. \A x \in next + 1 .. next + n : x \notin 1 .. next /\ since < x
  BY <1>3 DEF Tracked
<1>8. \A v \in Worker : /\ v # w => InHand(v)' \subseteq 1 .. next /\ InHand(v)' \subseteq pel
                        /\ Decided(v)' \subseteq 1 .. next
  <2>1. \A v \in Worker : InHand(v) \subseteq pel /\ Decided(v) \subseteq 1 .. next
    BY TypedFacts DEF Tracked, Decided
  <2> QED  BY <1>3, <1>4, <2>1
<1>9. \A v \in Worker : /\ InHand(v)' \subseteq pel' /\ Distinct(batch'[v])
                        /\ pc'[v] = "mark" => Ids(mine'[v]) \cap Ids(batch'[v]) = {}
  BY <1>2, <1>4, <1>5, <1>6, <1>8, EmptyIds DEF Tracked
<1>10. \A v, u \in Worker : v # u => InHand(v)' \cap InHand(u)' = {}
  BY <1>4, <1>6, <1>7, <1>8 DEF Tracked
<1>11. \A v, u \in Worker : InHand(v)' \cap Decided(u)' = {}
  BY <1>4, <1>6, <1>7, <1>8 DEF Tracked
<1>12. since' <= next' /\ (group' = "absent" => pel' = {}) /\ \A i \in pel' : since' < i
  BY <1>2, <1>3, <1>7 DEF Tracked
<1> QED  BY <1>9, <1>10, <1>11, <1>12 DEF Tracked, Ids

LEMMA MarkTracked ==
    ASSUME Typed, Tracked, NEW w \in Worker, MarkMessage(w)
    PROVE  Tracked'
<1>1. PICK i, rest, more : i = Head(batch[w]) /\ rest = Tail(batch[w]) /\ more = Append(mine[w], i)
  OBVIOUS
<1>2. pc[w] = "mark" /\ batch[w] # << >> /\ UNCHANGED <<group, since, next, pel>>
  BY MarkMoves DEF Settled
<1>3. \/ Becomes(w, "mark", rest, mine[w], successful[w], failed[w] \cup {i})
      \/ Becomes(w, "mark", rest, mine[w], successful[w] \cup {i}, failed[w])
      \/ Becomes(w, "mark", rest, more, successful[w], failed[w])
  BY <1>1, MarkMoves
<1>4. batch[w] \in Seq(Nat) /\ mine[w] \in Seq(Nat) /\ Distinct(batch[w]) /\ Ids(mine[w]) \cap Ids(batch[w]) = {}
  BY <1>2 DEF Typed, Tracked
<1>5. /\ i \in Ids(batch[w]) /\ i \in Nat /\ Ids(rest) \subseteq Ids(batch[w]) /\ Distinct(rest) /\ i \notin Ids(rest)
  BY <1>1, <1>2, <1>4, HeadIds
<1>6. Ids(more) = Ids(mine[w]) \cup {i}
  BY <1>1, <1>4, <1>5, AppendIds
<1>7. InHand(w) = Ids(batch[w]) \cup Ids(mine[w])
  BY <1>2 DEF InHand
<1>8. ASSUME NEW m, NEW s, NEW f, Becomes(w, "mark", rest, m, s, f),
             \/ m = mine[w] /\ s \cup f \subseteq Decided(w) \cup {i}
             \/ m = more /\ s \cup f = Decided(w)
      PROVE  Tracked'
  <2>1. /\ pc'[w] = "mark" /\ batch'[w] = rest /\ mine'[w] = m /\ successful'[w] = s /\ failed'[w] = f
        /\ \A v \in Worker : v # w => /\ pc'[v] = pc[v] /\ batch'[v] = batch[v] /\ mine'[v] = mine[v]
                                      /\ successful'[v] = successful[v] /\ failed'[v] = failed[v]
    BY <1>8, BecomesFacts
  <2>2. InHand(w)' = Ids(rest) \cup Ids(m) /\ Decided(w)' = s \cup f
    BY <2>1 DEF InHand, Decided, Ids
  <2>3. /\ Ids(rest) \cup Ids(m) \subseteq InHand(w) /\ Ids(m) \cap Ids(rest) = {}
        /\ m = mine[w] => i \in InHand(w) \ (Ids(rest) \cup Ids(m))
    BY <1>4, <1>5, <1>6, <1>7, <1>8
  <2>4. /\ InHand(w)' \subseteq InHand(w) /\ Decided(w)' \subseteq Decided(w) \cup (InHand(w) \ InHand(w)')
        /\ pc'[w] = "mark" => Ids(mine'[w]) \cap Ids(batch'[w]) = {}
    BY <1>8, <2>1, <2>2, <2>3
  <2> QED  BY <1>2, <1>5, <2>1, <2>4, HandKept
<1>9. CASE Becomes(w, "mark", rest, mine[w], successful[w], failed[w] \cup {i})
  <2>1. successful[w] \cup (failed[w] \cup {i}) \subseteq Decided(w) \cup {i}
    BY DEF Decided
  <2> QED  BY <1>8, <1>9, <2>1
<1>10. CASE Becomes(w, "mark", rest, mine[w], successful[w] \cup {i}, failed[w])
  <2>1. (successful[w] \cup {i}) \cup failed[w] \subseteq Decided(w) \cup {i}
    BY DEF Decided
  <2> QED  BY <1>8, <1>10, <2>1
<1>11. CASE Becomes(w, "mark", rest, more, successful[w], failed[w])
  BY <1>8, <1>11 DEF Decided
<1> QED  BY <1>3, <1>9, <1>10, <1>11

\* What a failed persist keeps as done, and what it retries.
LEMMA PersistParts ==
    ASSUME Typed, NEW w \in Worker, NEW k \in DOMAIN mine[w], NEW s, NEW f,
           s = Ids(SubSeq(mine[w], 1, k - 1)), f = Ids(SubSeq(mine[w], k, Len(mine[w])))
    PROVE  /\ s \subseteq Ids(mine[w]) /\ f \subseteq Ids(mine[w])
           /\ \A x \in s : \E j \in DOMAIN mine[w] : j # k /\ x = mine[w][j]
<1>1. mine[w] \in Seq(Nat)
  BY DEF Typed
<1>2. k \in 1 .. Len(mine[w]) /\ Len(mine[w]) \in Nat
  BY <1>1
<1>3. k - 1 \in 0 .. Len(mine[w]) /\ 1 \in 1 .. Len(mine[w]) + 1 /\ k \in 1 .. Len(mine[w]) + 1 /\ Len(mine[w]) \in 0 .. Len(mine[w])
  BY <1>2
<1>4. \A x \in s : \E j \in 1 .. k - 1 : j \in DOMAIN mine[w] /\ x = mine[w][j]
  BY <1>1, <1>3, PartIds
<1>5. \A x \in f : \E j \in k .. Len(mine[w]) : j \in DOMAIN mine[w] /\ x = mine[w][j]
  BY <1>1, <1>3, PartIds
<1>6. k \notin 1 .. k - 1
  BY <1>2
<1> QED  BY <1>4, <1>5, <1>6 DEF Ids

LEMMA CommitTracked ==
    ASSUME Typed, Tracked, NEW w \in Worker, CommitBatch(w) \/ CommitFails(w) \/ PersistFails(w)
    PROVE  Tracked'
<1>1. pc[w] = "mark" /\ batch[w] = << >> /\ UNCHANGED <<group, since, next, pel>>
  BY CommitMoves DEF Settled
<1>2. InHand(w) = Ids(mine[w])
  BY <1>1, EmptyIds DEF InHand
<1>3. ASSUME NEW s, NEW f, Becomes(w, "settle", << >>, mine[w], s, f), s \cup f \subseteq Decided(w) \cup Ids(mine[w])
      PROVE  Tracked'
  <2>1. /\ pc'[w] = "settle" /\ batch'[w] = << >> /\ successful'[w] = s /\ failed'[w] = f
        /\ \A v \in Worker : v # w => /\ pc'[v] = pc[v] /\ batch'[v] = batch[v] /\ mine'[v] = mine[v]
                                      /\ successful'[v] = successful[v] /\ failed'[v] = failed[v]
    BY <1>3, BecomesFacts
  <2>2. InHand(w)' = {} /\ Decided(w)' = s \cup f /\ Distinct(batch'[w])
    BY <2>1, EmptyIds DEF InHand, Decided, Ids
  <2> QED  BY <1>1, <1>2, <1>3, <2>1, <2>2, HandKept
<1>4. CASE CommitBatch(w)
  <2>1. Becomes(w, "settle", << >>, mine[w], successful[w] \cup Ids(mine[w]), failed[w])
    BY <1>4, CommitMoves
  <2>2. (successful[w] \cup Ids(mine[w])) \cup failed[w] \subseteq Decided(w) \cup Ids(mine[w])
    BY DEF Decided
  <2> QED  BY <1>3, <2>1, <2>2
<1>5. CASE CommitFails(w)
  <2>1. Becomes(w, "settle", << >>, mine[w], successful[w], failed[w] \cup Ids(mine[w]))
    BY <1>5, CommitMoves
  <2>2. successful[w] \cup (failed[w] \cup Ids(mine[w])) \subseteq Decided(w) \cup Ids(mine[w])
    BY DEF Decided
  <2> QED  BY <1>3, <2>1, <2>2
<1>6. CASE PersistFails(w)
  <2>1. PICK k \in DOMAIN mine[w] :
          Becomes(w, "settle", << >>, mine[w], successful[w] \cup Ids(SubSeq(mine[w], 1, k - 1)),
                                               failed[w] \cup Ids(SubSeq(mine[w], k, Len(mine[w]))))
    BY <1>6, CommitMoves
  <2>2. PICK s, f : s = Ids(SubSeq(mine[w], 1, k - 1)) /\ f = Ids(SubSeq(mine[w], k, Len(mine[w])))
    OBVIOUS
  <2>3. s \subseteq Ids(mine[w]) /\ f \subseteq Ids(mine[w])
    BY <2>2, PersistParts
  <2>4. Becomes(w, "settle", << >>, mine[w], successful[w] \cup s, failed[w] \cup f)
    BY <2>1, <2>2
  <2>5. (successful[w] \cup s) \cup (failed[w] \cup f) \subseteq Decided(w) \cup Ids(mine[w])
    BY <2>3 DEF Decided
  <2> QED  BY <1>3, <2>4, <2>5
<1> QED  BY <1>4, <1>5, <1>6

LEMMA SettleTracked ==
    ASSUME Typed, Tracked, NEW w \in Worker, AckMessage(w) \/ RetryMessage(w) \/ BatchDone(w) \/ Crash(w)
    PROVE  Tracked'
<1>1. ASSUME NEW l, NEW b, NEW m, NEW s, NEW f, Becomes(w, l, b, m, s, f), UNCHANGED <<group, since, next>>,
             pel' \subseteq pel, pel \ pel' \subseteq Decided(w), s \cup f \subseteq Decided(w),
             \/ l # "mark" /\ b = batch[w]
             \/ l # "mark" /\ b = << >>
      PROVE  Tracked'
  <2>1. /\ pc'[w] = l /\ batch'[w] = b /\ mine'[w] = m /\ successful'[w] = s /\ failed'[w] = f
        /\ \A v \in Worker : v # w => /\ pc'[v] = pc[v] /\ batch'[v] = batch[v] /\ mine'[v] = mine[v]
                                      /\ successful'[v] = successful[v] /\ failed'[v] = failed[v]
    BY <1>1, BecomesFacts
  <2>2. InHand(w)' = Ids(b) /\ Decided(w)' = s \cup f
    BY <1>1, <2>1 DEF InHand, Decided, Ids
  <2>3. Ids(b) \subseteq InHand(w) /\ Distinct(b)
    BY <1>1, EmptyIds DEF InHand, Tracked
  <2> QED  BY <1>1, <2>1, <2>2, <2>3, HandKept
<1>2. CASE AckMessage(w)
  <2>1. PICK i \in successful[w] : /\ Ack(i) /\ Settled
                                   /\ Becomes(w, "settle", batch[w], mine[w], successful[w] \ {i}, failed[w])
    BY <1>2, SettleMoves
  <2>2. pel' \subseteq pel /\ pel \ pel' \subseteq Decided(w) /\ (successful[w] \ {i}) \cup failed[w] \subseteq Decided(w)
    BY <2>1 DEF Ack, Decided
  <2> QED  BY <1>1, <2>1, <2>2 DEF Settled
<1>3. CASE RetryMessage(w)
  <2>1. PICK i \in failed[w] : /\ MoveToRetryOrDlq(i) /\ UNCHANGED <<group, since, next>>
                               /\ Becomes(w, "settle", batch[w], mine[w], successful[w], failed[w] \ {i})
    BY <1>3, SettleMoves
  <2>2. pel' \subseteq pel /\ pel \ pel' \subseteq Decided(w) /\ successful[w] \cup (failed[w] \ {i}) \subseteq Decided(w)
    BY <2>1 DEF MoveToRetryOrDlq, Ack, Decided
  <2> QED  BY <1>1, <2>1, <2>2
<1>4. CASE BatchDone(w) \/ Crash(w)
  <2>1. Becomes(w, "read", << >>, << >>, {}, {}) /\ UNCHANGED <<group, since, next, pel>>
    BY <1>4, SettleMoves DEF streamVars
  <2> QED  BY <1>1, <2>1
<1> QED  BY <1>2, <1>3, <1>4

LEMMA TrackedStep == Typed /\ Tracked /\ [Next]_vars => Tracked'
<1> SUFFICES ASSUME Typed, Tracked, [Next]_vars PROVE Tracked'
  OBVIOUS
<1>0. ASSUME UNCHANGED workerVars, NEW w \in Worker
      PROVE  /\ InHand(w)' = InHand(w) /\ Decided(w)' = Decided(w) /\ UNCHANGED <<pc, batch, mine>>
  BY <1>0 DEF workerVars, InHand, Decided, Ids
<1>1. ASSUME UNCHANGED workerVars, UNCHANGED <<group, since, next>>, pel' = pel PROVE Tracked'
  <2>1. \A w \in Worker : /\ Distinct(batch'[w]) /\ InHand(w)' \subseteq pel'
                          /\ pc'[w] = "mark" => Ids(mine'[w]) \cap Ids(batch'[w]) = {}
    BY <1>0, <1>1 DEF Tracked
  <2>2. \A v, w \in Worker : (v # w => InHand(v)' \cap InHand(w)' = {}) /\ InHand(v)' \cap Decided(w)' = {}
    BY <1>0, <1>1 DEF Tracked
  <2> QED  BY <1>1, <2>1, <2>2 DEF Tracked, Ids
<1>2. CASE Producers
  <2>1. CASE EnsureGroup
    <3>1. group = "absent" /\ pel = {} /\ pel' = {} /\ since' = next' /\ next' \in Nat /\ group' = "ready"
      BY <2>1, TypedFacts DEF EnsureGroup, Tracked
    <3>2. UNCHANGED workerVars
      BY <1>2 DEF Producers
    <3>3. \A w \in Worker : /\ Distinct(batch'[w]) /\ InHand(w)' \subseteq pel'
                            /\ pc'[w] = "mark" => Ids(mine'[w]) \cap Ids(batch'[w]) = {}
      BY <1>0, <3>1, <3>2 DEF Tracked
    <3>4. \A v, w \in Worker : (v # w => InHand(v)' \cap InHand(w)' = {}) /\ InHand(v)' \cap Decided(w)' = {}
      BY <1>0, <3>2 DEF Tracked
    <3> QED  BY <3>1, <3>3, <3>4 DEF Tracked, Ids
  <2>2. CASE \E e \in Event : Publish(e)
    BY <1>1, <1>2, <2>2 DEF Producers, Publish
  <2> QED  BY <1>2, <2>1, <2>2 DEF Producers
<1>3. CASE UNCHANGED vars
  BY <1>1, <1>3 DEF vars, streamVars
<1> QED  BY <1>2, <1>3, ReadTracked, MarkTracked, CommitTracked, SettleTracked DEF Next, Handle

\* Entry i will still be looked at, or its failure has yet to be recorded, or a
\* dead consumer left it pending; no consumer is about to acknowledge it.
Awaits(i) == i > next \/ (i \in pel /\ \A w \in Worker : i \notin successful[w])

Safe(e) == applied[e] > 0 \/ e \in dlq \/ e \in marker \/ \E i \in Owed(e) : Awaits(i)

\* LeftBehindIsExplained made inductive.
Kept == \A e \in Guarded : Owed(e) # {} => Safe(e)

LEMMA OwedGrows ==
    ASSUME Typed, UNCHANGED <<since, group>>, Grows, NEW e
    PROVE  Owed(e) \subseteq Owed(e)'
<1>1. Len(stream) \in Nat
  BY TypedFacts
<1> QED  BY <1>1 DEF Owed, EventOf, Grows

\* A pending entry is owed.
LEMMA PendingOwed ==
    ASSUME Typed, Tracked, NEW i \in pel
    PROVE  i \in Owed(EventOf(i))
<1>1. i \in 1 .. Len(stream) /\ since < i /\ since \in Nat /\ group = "ready"
  BY TypedFacts DEF Tracked
<1> QED  BY <1>1 DEF Owed

LEMMA SafeKept ==
    ASSUME NEW e \in Event, Safe(e), Owed(e) \subseteq Owed(e)', applied[e] > 0 => applied'[e] > 0,
           dlq \subseteq dlq', e \in marker => e \in marker', \A i \in Owed(e) : Awaits(i) => Awaits(i)'
    PROVE  Safe(e)'
BY DEF Safe

\* Every step keeps every owed and guarded event safe, whatever fails.
LEMMA KeptStep == Typed /\ Claimed /\ Tracked /\ Kept /\ [Next]_vars => Kept'
<1> SUFFICES ASSUME Typed, Claimed, Tracked, Kept, [Next]_vars, NEW e \in Event, e \notin unguarded', Owed(e)' # {} PROVE Safe(e)'
  BY DEF Kept, Guarded
<1>g. e \in Event /\ e \in Guarded
  BY Unguards DEF Guarded
<1>0. /\ stream \in Seq(Entry) /\ Len(stream) \in Nat /\ next \in Nat /\ next <= Len(stream) /\ since \in Nat
      /\ pel \subseteq 1 .. next /\ applied \in [Event -> Nat] /\ since <= Len(stream)
  BY TypedFacts
<1>1. \A i \in Owed(e) : EventOf(i) = e /\ i \in 1 .. Len(stream)
  BY DEF Owed
<1>3. ASSUME Settled PROVE Owed(e)' = Owed(e) /\ Safe(e)
  <2>1. Owed(e)' = Owed(e)
    BY <1>3 DEF Settled, Owed, EventOf
  <2> QED  BY <1>g, <2>1 DEF Kept
<1>4. CASE Producers
  <2>1. CASE EnsureGroup
    <3>1. Owed(e)' = {}
      BY <1>0, <2>1 DEF EnsureGroup, Owed
    <3> QED  BY <3>1
  <2>2. ASSUME NEW x \in Event, Publish(x) PROVE Safe(e)'
    <3>1. Len(stream') = Len(stream) + 1 /\ Grows
      <4>1. 0 \in 0 .. MaxRetries
        BY StreamAssumption
      <4> QED  BY <1>0, <2>2, <4>1, AppendGrows DEF Publish
    <3>2. UNCHANGED <<group, since, next, pel, dlq, marker, applied, successful>>
      BY <1>4, <2>2 DEF Publish, Producers, workerVars
    <3>3. CASE Owed(e) # {}
      <4>1. Owed(e) \subseteq Owed(e)' /\ \A i \in Owed(e) : Awaits(i) => Awaits(i)'
        BY <3>1, <3>2, OwedGrows DEF Awaits
      <4> QED  BY <3>2, <3>3, <4>1, <1>g, SafeKept DEF Kept
    <3>4. CASE Owed(e) = {}
      <4>1. PICK i \in Owed(e)' : TRUE
        OBVIOUS
      <4>2. i \in 1 .. Len(stream) + 1 /\ i > since /\ group = "ready" /\ EventOf(i)' = e
        BY <3>1, <3>2, <4>1 DEF Owed
      <4>3. i = Len(stream) + 1
        BY <1>0, <3>1, <3>4, <4>2 DEF Owed, EventOf, Grows
      <4>4. Awaits(i)'
        BY <1>0, <3>2, <4>3 DEF Awaits
      <4> QED  BY <4>1, <4>4 DEF Safe
    <3> QED  BY <3>3, <3>4
  <2> QED  BY <1>4, <2>1, <2>2 DEF Producers
<1>5. ASSUME NEW w \in Worker, Read(w) PROVE Safe(e)'
  <2>1. PICK n \in Nat \ {0} : ReadGroup(n) /\ Becomes(w, "mark", NewIds(n), mine[w], successful[w], failed[w])
    BY <1>5, ReadMoves
  <2>2. /\ next' = next + n /\ pel' = pel \cup (next + 1 .. next + n)
        /\ UNCHANGED <<stream, group, since, dlq, marker, applied>>
    BY <2>1 DEF ReadGroup
  <2>3. \A v \in Worker : successful'[v] = successful[v] /\ successful[v] \subseteq 1 .. next
    BY <2>1, BecomesFacts, TypedFacts
  <2>4. Owed(e)' = Owed(e)
    BY <2>2 DEF Owed, EventOf
  <2>5. ASSUME NEW i \in Owed(e), Awaits(i) PROVE Awaits(i)'
    <3>1. CASE i > next
      <4>1. i > next' \/ i \in pel'
        BY <1>0, <1>1, <2>2, <3>1
      <4>2. i \notin 1 .. next
        BY <1>0, <1>1, <3>1
      <4> QED  BY <2>3, <4>1, <4>2 DEF Awaits
    <3>2. CASE i \in pel /\ \A v \in Worker : i \notin successful[v]
      BY <2>2, <2>3, <3>2 DEF Awaits
    <3> QED  BY <2>5, <3>1, <3>2 DEF Awaits
  <2> QED  BY <2>2, <2>4, <2>5, <1>g, SafeKept DEF Kept
<1>7. ASSUME NEW w \in Worker, MarkMessage(w) PROVE Safe(e)'
  <2>1. PICK i, rest : i = Head(batch[w]) /\ rest = Tail(batch[w])
    OBVIOUS
  <2>2. Settled /\ UNCHANGED <<next, pel, applied, dlq>> /\ marker \subseteq marker'
    BY <1>7, MarkMoves DEF Settled
  <2>3. \/ Becomes(w, "mark", rest, mine[w], successful[w], failed[w] \cup {i})
        \/ EventOf(i) \in marker /\ Becomes(w, "mark", rest, mine[w], successful[w] \cup {i}, failed[w])
        \/ Becomes(w, "mark", rest, Append(mine[w], i), successful[w], failed[w])
    BY <1>7, <2>1, MarkMoves
  <2>4. CASE e \in marker
    BY <2>2, <2>4 DEF Safe
  <2>5. CASE e \notin marker
    <3>1. PICK m, f, s : /\ Becomes(w, "mark", rest, m, s, f)
                         /\ s = successful[w] \/ (s = successful[w] \cup {i} /\ EventOf(i) # e)
      BY <2>3, <2>5
    <3>2. successful'[w] = s /\ \A v \in Worker : v # w => successful'[v] = successful[v]
      BY <3>1, BecomesFacts
    <3>3. \A j \in Owed(e) : Awaits(j) => Awaits(j)'
      <4>1. CASE s = successful[w]
        BY <2>2, <3>2, <4>1 DEF Awaits
      <4>2. CASE s = successful[w] \cup {i} /\ EventOf(i) # e
        BY <1>1, <2>2, <3>2, <4>2 DEF Awaits
      <4> QED  BY <3>1, <4>1, <4>2
    <3> QED  BY <1>3, <2>2, <3>3, <1>g, SafeKept
  <2> QED  BY <2>4, <2>5
<1>8. ASSUME NEW w \in Worker, CommitBatch(w) PROVE Safe(e)'
  <2>1. /\ pc[w] = "mark" /\ Settled /\ UNCHANGED <<next, pel, dlq>>
        /\ Becomes(w, "settle", << >>, mine[w], successful[w] \cup Ids(mine[w]), failed[w])
    BY <1>8, CommitMoves DEF Settled
  <2>2. marker' = marker
    BY <1>8 DEF CommitBatch
  <2>3. applied[e] > 0 => applied'[e] > 0
    BY <1>0, <1>8, <1>g, <2>1, CommitCounts
  <2>4. successful'[w] = successful[w] \cup Ids(mine[w]) /\ \A v \in Worker : v # w => successful'[v] = successful[v]
    BY <2>1, BecomesFacts
  <2>5. CASE e \in marker
    BY <2>2, <2>5 DEF Safe
  <2>6. CASE e \notin marker
    <3>1. \A k \in DOMAIN mine[w] : EventOf(mine[w][k]) # e
      BY <1>g, <2>1, <2>6 DEF Claimed, HoldsAt
    <3>2. \A i \in Owed(e) : i \notin Ids(mine[w])
      BY <1>1, <3>1 DEF Ids
    <3>3. \A i \in Owed(e) : Awaits(i) => Awaits(i)'
      BY <2>1, <2>4, <3>2 DEF Awaits
    <3> QED  BY <1>3, <2>1, <2>2, <2>3, <3>3, <1>g, SafeKept
  <2> QED  BY <2>5, <2>6
<1>9. ASSUME NEW w \in Worker, CommitFails(w) PROVE Safe(e)'
  <2>1. /\ pc[w] = "mark" /\ Settled /\ UNCHANGED <<stream, next, pel, dlq>>
        /\ Becomes(w, "settle", << >>, mine[w], successful[w], failed[w] \cup Ids(mine[w]))
    BY <1>9, CommitMoves DEF Settled
  <2>2. applied' = applied /\ marker \ marker' \subseteq {EventOf(i) : i \in Ids(mine[w])}
    BY <1>9, Released DEF CommitFails
  <2>3. \A v \in Worker : successful'[v] = successful[v]
    BY <2>1, BecomesFacts
  <2>4. \A i : Awaits(i) => Awaits(i)'
    BY <2>1, <2>3 DEF Awaits
  <2>5. ASSUME NEW i \in Ids(mine[w]), EventOf(i) = e PROVE Safe(e)'
    <3>1. i \in InHand(w)
      BY <2>1, <2>5 DEF InHand
    <3>2. i \in pel /\ \A v \in Worker : i \notin successful[v]
      BY <3>1 DEF Tracked, Decided
    <3>3. i \in Owed(e)' /\ Awaits(i)'
      BY <1>3, <2>1, <2>3, <2>5, <3>2, PendingOwed DEF Awaits
    <3> QED  BY <3>3 DEF Safe
  <2>6. CASE \A i \in Ids(mine[w]) : EventOf(i) # e
    BY <1>3, <2>1, <2>2, <2>4, <2>6, <1>g, SafeKept
  <2> QED  BY <2>5, <2>6
<1>10. ASSUME NEW w \in Worker, PersistFails(w) PROVE Safe(e)'
  <2>1. PICK k \in DOMAIN mine[w] :
          /\ pc[w] = "mark" /\ Settled /\ UNCHANGED <<stream, next, pel, dlq>> /\ applied' = applied
          /\ marker \ marker' \subseteq {EventOf(mine[w][k])}
          /\ Becomes(w, "settle", << >>, mine[w], successful[w] \cup Ids(SubSeq(mine[w], 1, k - 1)),
                                                  failed[w] \cup Ids(SubSeq(mine[w], k, Len(mine[w]))))
    BY <1>10, CommitMoves DEF Settled
  <2>2. PICK s, f : s = Ids(SubSeq(mine[w], 1, k - 1)) /\ f = Ids(SubSeq(mine[w], k, Len(mine[w])))
    OBVIOUS
  <2>3. \A x \in s : \E j \in DOMAIN mine[w] : j # k /\ x = mine[w][j]
    BY <2>2, PersistParts
  <2>4. successful'[w] = successful[w] \cup s /\ \A v \in Worker : v # w => successful'[v] = successful[v]
    BY <2>1, <2>2, BecomesFacts
  <2>5. \A j \in DOMAIN mine[w] : EventOf(mine[w][j]) = e => e \in marker /\ (EventOf(mine[w][k]) = e => j = k)
    BY <1>g, <2>1 DEF Claimed, HoldsAt
  <2>6. CASE e = EventOf(mine[w][k])
    <3>1. PICK i : i = mine[w][k]
      OBVIOUS
    <3>2. i \in InHand(w)
      BY <2>1, <3>1, MineFacts DEF InHand
    <3>3. i \in pel /\ (\A v \in Worker : i \notin successful[v])
      BY <3>2 DEF Tracked, Decided
    <3>4. i \notin s
      BY <2>3, <2>5, <2>6, <3>1
    <3>5. i \in Owed(e)' /\ Awaits(i)'
      BY <1>3, <2>1, <2>4, <2>6, <3>1, <3>3, <3>4, PendingOwed DEF Awaits
    <3> QED  BY <3>5 DEF Safe
  <2>7. CASE e # EventOf(mine[w][k]) /\ e \in marker
    BY <2>1, <2>7 DEF Safe
  <2>8. CASE e # EventOf(mine[w][k]) /\ e \notin marker
    <3>1. \A i \in Owed(e) : i \notin s
      BY <1>1, <2>3, <2>5, <2>8
    <3>2. \A i \in Owed(e) : Awaits(i) => Awaits(i)'
      BY <2>1, <2>4, <3>1 DEF Awaits
    <3> QED  BY <1>3, <2>1, <2>8, <3>2, <1>g, SafeKept
  <2> QED  BY <2>6, <2>7, <2>8
<1>11. ASSUME NEW w \in Worker, AckMessage(w) PROVE Safe(e)'
  <2>1. PICK i \in successful[w] : /\ Ack(i) /\ Settled /\ UNCHANGED <<marker, applied>>
                                   /\ Becomes(w, "settle", batch[w], mine[w], successful[w] \ {i}, failed[w])
    BY <1>11, SettleMoves
  <2>2. successful'[w] = successful[w] \ {i} /\ \A v \in Worker : v # w => successful'[v] = successful[v]
    BY <2>1, BecomesFacts
  <2>3. \A j \in Owed(e) : Awaits(j) => Awaits(j)'
    BY <2>1, <2>2 DEF Awaits, Ack, Settled
  <2> QED  BY <1>3, <2>1, <2>3, <1>g, SafeKept DEF Settled
<1>12. ASSUME NEW w \in Worker, RetryMessage(w) PROVE Safe(e)'
  <2>1. PICK i \in failed[w] : /\ MoveToRetryOrDlq(i) /\ UNCHANGED <<group, since, next, marker, applied>>
                               /\ Becomes(w, "settle", batch[w], mine[w], successful[w], failed[w] \ {i})
    BY <1>12, SettleMoves
  <2>2. \A v \in Worker : successful'[v] = successful[v]
    BY <2>1, BecomesFacts
  <2>3. /\ Grows /\ dlq \subseteq dlq' /\ pel \ {i} \subseteq pel'
        /\ \/ pel' = pel
           \/ EventOf(i) \in dlq'
           \/ Len(stream') = Len(stream) + 1 /\ stream'[Len(stream) + 1].event = EventOf(i)
    BY <2>1, TypedFacts, RetryGrows
  <2>4. Owed(e) \subseteq Owed(e)'
    BY <2>1, <2>3, OwedGrows
  <2>5. ASSUME Len(stream') = Len(stream) + 1, stream'[Len(stream) + 1].event = e PROVE Safe(e)'
    <3>1. PICK new : new = Len(stream) + 1
      OBVIOUS
    <3>2. new \in 1 .. Len(stream') /\ new > since' /\ new > next' /\ EventOf(new)' = e /\ group' = "ready"
      BY <1>0, <2>1, <2>5, <3>1 DEF EventOf, Owed
    <3>3. new \in Owed(e)' /\ Awaits(new)'
      BY <3>2 DEF Owed, Awaits
    <3> QED  BY <3>3 DEF Safe
  <2>6. ASSUME \A j \in Owed(e) : Awaits(j) => Awaits(j)', Owed(e) # {} PROVE Safe(e)'
    BY <2>1, <2>3, <2>4, <2>6, <1>g, SafeKept DEF Kept
  <2>7. CASE Owed(e) = {}
    <3>1. PICK j \in Owed(e)' : TRUE
      OBVIOUS
    <3>2. j \in 1 .. Len(stream') /\ j > since /\ group = "ready" /\ EventOf(j)' = e
      BY <2>1, <3>1 DEF Owed
    <3>3. j \notin 1 .. Len(stream)
      BY <2>3, <2>7, <3>2 DEF Owed, EventOf, Grows
    <3>4. Awaits(j)'
      BY <1>0, <2>1, <2>3, <3>2, <3>3 DEF Awaits, Grows
    <3> QED  BY <3>1, <3>4 DEF Safe
  <2>8. CASE Owed(e) # {} /\ EventOf(i) # e
    <3>1. \A j \in Owed(e) : Awaits(j) => Awaits(j)'
      BY <1>1, <2>1, <2>2, <2>3, <2>8 DEF Awaits
    <3> QED  BY <2>6, <2>8, <3>1
  <2>9. CASE Owed(e) # {} /\ EventOf(i) = e
    <3>1. CASE pel' = pel
      <4>1. \A j \in Owed(e) : Awaits(j) => Awaits(j)'
        BY <2>1, <2>2, <3>1 DEF Awaits
      <4> QED  BY <2>6, <2>9, <4>1
    <3>2. CASE EventOf(i) \in dlq'
      BY <2>9, <3>2 DEF Safe
    <3>3. CASE Len(stream') = Len(stream) + 1 /\ stream'[Len(stream) + 1].event = EventOf(i)
      BY <2>5, <2>9, <3>3
    <3> QED  BY <2>3, <3>1, <3>2, <3>3
  <2> QED  BY <2>7, <2>8, <2>9
<1>13. ASSUME NEW w \in Worker, BatchDone(w) \/ Crash(w) PROVE Safe(e)'
  <2>1. Becomes(w, "read", << >>, << >>, {}, {}) /\ UNCHANGED <<stream, group, since, next, pel, dlq, marker, applied>>
    BY <1>13, SettleMoves DEF streamVars
  <2>2. successful'[w] = {} /\ \A v \in Worker : v # w => successful'[v] = successful[v]
    BY <2>1, BecomesFacts
  <2>3. \A j \in Owed(e) : Awaits(j) => Awaits(j)'
    BY <2>1, <2>2 DEF Awaits
  <2> QED  BY <1>3, <2>1, <2>3, <1>g, SafeKept DEF Settled
<1>14. CASE UNCHANGED vars
  <2>1. Settled /\ UNCHANGED <<dlq, marker, applied>> /\ \A j \in Owed(e) : Awaits(j) => Awaits(j)'
    BY <1>14 DEF vars, streamVars, workerVars, Settled, Awaits
  <2> QED  BY <1>3, <2>1, <1>g, SafeKept
<1> QED  BY <1>4, <1>5, <1>7, <1>8, <1>9, <1>10, <1>11, <1>12, <1>13, <1>14 DEF Next, Handle

\* Whatever fails, a reading the group was given is applied, dead-lettered,
\* still has an entry that was not acknowledged, or is kept out by its marker,
\* unless _acquire_once let it through without an answer from Redis: beside
\* that, the marker a failed batch leaves behind is the only way to lose one.
THEOREM LeftBehindOnlyByItsMarker == Spec => []LeftBehindIsExplained
<1>1. Init => Tracked /\ Kept
  <2> SUFFICES ASSUME Init PROVE Tracked /\ Kept
    OBVIOUS
  <2>1. \A w \in Worker : InHand(w) = {} /\ Decided(w) = {} /\ Distinct(batch[w]) /\ pc[w] # "mark"
    BY EmptyIds DEF Init, InHand, Decided
  <2>2. \A e : Owed(e) = {}
    BY DEF Init, StreamInit, Owed
  <2> QED  BY <2>1, <2>2 DEF Init, StreamInit, Tracked, Kept
<1>2. Kept => LeftBehindIsExplained
  BY DEF Kept, Guarded, Safe, Awaits, LeftBehindIsExplained, Accounted
<1> QED  BY <1>1, <1>2, ClaimedInit, ClaimedStep, TrackedStep, KeptStep, TypedAlways, PTL DEF Spec
=============================================================================
