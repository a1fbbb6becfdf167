------------------------ MODULE WebhookWorkerProofs ------------------------
(* Proofs about WebhookWorker, for every set of events and consumers, every *)
(* batch size and every bound on retries.                                  *)
EXTENDS WebhookWorker, SequenceTheorems, TLAPS

-----------------------------------------------------------------------------
(* Types.                                                                  *)

\* A consumer that is busy has a current entry.
LEMMA CurrentType ==
    ASSUME TypeOK, NEW w \in Worker, pc[w] # "read"
    PROVE  /\ batch[w] \in Seq(1 .. Len(stream)) /\ batch[w] # << >>
           /\ Current(w) \in 1 .. Len(stream)
           /\ EventOf(Current(w)) \in Event
<1>1. batch[w] \in Seq(1 .. Len(stream)) /\ batch[w] # << >>
  BY DEF TypeOK
<1>2. Current(w) \in 1 .. Len(stream)
  BY <1>1 DEF Current
<1>3. stream[Current(w)] \in Entry
  BY <1>2 DEF TypeOK, StreamTypeOK
<1> QED  BY <1>1, <1>2, <1>3 DEF EventOf, Entry

\* What is left of a sequence without its head.
LEMMA TailFacts ==
    ASSUME NEW S, NEW s \in Seq(S), s # << >>
    PROVE  /\ Tail(s) \in Seq(S)
           /\ Tail(s) = << >> <=> Len(s) = 1
           /\ Len(s) \in Nat \ {0}
<1>1. Len(s) \in Nat \ {0}
  BY EmptySeq
<1>2. Tail(s) \in Seq(S) /\ Len(Tail(s)) = Len(s) - 1
  BY <1>1, HeadTailProperties
<1>3. Tail(s) # << >> => Len(Tail(s)) # 0
  BY <1>2, EmptySeq
<1>4. Tail(s) = << >> => Len(Tail(s)) = 0
  BY <1>2, EmptySeq
<1> QED  BY <1>1, <1>2, <1>3, <1>4

\* Finishing an entry keeps the types of the consumers' state.
LEMMA AdvanceType ==
    ASSUME TypeOK, NEW w \in Worker, pc[w] # "read", Advance(w)
    PROVE  /\ pc' \in [Worker -> PcLabel]
           /\ batch' \in [Worker -> Seq(1 .. Len(stream))]
           /\ \A v \in Worker : batch'[v] = << >> <=> pc'[v] = "read"
<1>1. batch[w] \in Seq(1 .. Len(stream)) /\ batch[w] # << >>
  BY CurrentType
<1>2. /\ Tail(batch[w]) \in Seq(1 .. Len(stream))
      /\ Tail(batch[w]) = << >> <=> Len(batch[w]) = 1
      /\ Len(batch[w]) \in Nat \ {0}
  BY <1>1, TailFacts
<1>3. batch' = [batch EXCEPT ![w] = Tail(batch[w])]
  BY DEF Advance
<1>4. pc' = [pc EXCEPT ![w] = IF Len(batch[w]) > 1 THEN "mark" ELSE "read"]
  BY DEF Advance, Goto
<1>5. pc' \in [Worker -> PcLabel]
  BY <1>4 DEF TypeOK, PcLabel
<1>6. batch' \in [Worker -> Seq(1 .. Len(stream))]
  BY <1>2, <1>3 DEF TypeOK
<1>7. \A v \in Worker : batch'[v] = << >> <=> pc'[v] = "read"
  BY <1>2, <1>3, <1>4 DEF TypeOK
<1> QED  BY <1>5, <1>6, <1>7

\* A stream that has grown still types what was typed in the shorter one.
LEMMA GrownType ==
    ASSUME NEW n \in Nat, NEW m \in Nat, n <= m, NEW f \in [Worker -> Seq(1 .. n)]
    PROVE  f \in [Worker -> Seq(1 .. m)]
<1>1. ASSUME NEW s \in Seq(1 .. n) PROVE s \in Seq(1 .. m)
  <2>1. s \in [1 .. Len(s) -> 1 .. n] /\ Len(s) \in Nat
    OBVIOUS
  <2>2. s \in [1 .. Len(s) -> 1 .. m]
    BY <2>1
  <2> QED  BY <2>1, <2>2
<1> QED  BY <1>1

\* Publishing one entry keeps the stream's type and what it already held.
LEMMA PublishedType ==
    ASSUME stream \in Seq(Entry), NEW e \in Event, NEW a \in 0 .. MaxRetries,
           stream' = Append(stream, [event |-> e, attempt |-> a])
    PROVE  /\ stream' \in Seq(Entry)
           /\ Len(stream') = Len(stream) + 1
           /\ \A i \in 1 .. Len(stream) : stream'[i] = stream[i]
<1>1. [event |-> e, attempt |-> a] \in Entry
  BY DEF Entry
<1> QED  BY <1>1

\* Every step keeps the types.
LEMMA TypeStep == TypeOK /\ [Next]_vars => TypeOK'
<1> SUFFICES ASSUME TypeOK, [Next]_vars PROVE TypeOK'
  OBVIOUS
<1>0. /\ stream \in Seq(Entry) /\ Len(stream) \in Nat /\ next \in 0 .. Len(stream) /\ since \in 0 .. Len(stream)
      /\ pel \subseteq 1 .. next /\ dlq \subseteq Event /\ marker \subseteq Event /\ applied \in [Event -> Nat]
      /\ group \in {"absent", "ready"}
      /\ pc \in [Worker -> PcLabel] /\ batch \in [Worker -> Seq(1 .. Len(stream))]
      /\ \A w \in Worker : batch[w] = << >> <=> pc[w] = "read"
  BY DEF TypeOK, StreamTypeOK
<1>f. faults' \in FaultModels
  BY DEF Next, vars, TypeOK, StreamTypeOK
<1>1. ASSUME NEW e \in Event, Publish(e), UNCHANGED workerVars PROVE TypeOK'
  <2>1. 0 \in 0 .. MaxRetries
    BY StreamAssumption
  <2>2. stream' \in Seq(Entry) /\ Len(stream') = Len(stream) + 1
    BY <1>0, <1>1, <2>1, PublishedType DEF Publish
  <2>3. batch' \in [Worker -> Seq(1 .. Len(stream'))]
    BY <1>0, <1>1, <2>2, GrownType DEF workerVars
  <2> QED  BY <1>0, <1>f, <1>1, <2>2, <2>3 DEF Publish, workerVars, TypeOK, StreamTypeOK
<1>2. ASSUME EnsureGroup, UNCHANGED workerVars PROVE TypeOK'
  <2>1. next' \in 0 .. Len(stream) /\ since' \in 0 .. Len(stream)
    BY <1>0, <1>2 DEF EnsureGroup
  <2>2. pel' \subseteq 1 .. next'
    BY <1>0, <1>2 DEF EnsureGroup
  <2> QED  BY <1>0, <1>f, <1>2, <2>1, <2>2 DEF EnsureGroup, workerVars, TypeOK, StreamTypeOK
<1>3. ASSUME NEW w \in Worker, Read(w) PROVE TypeOK'
  <2>1. PICK n \in 1 .. BatchSize : ReadGroup(n) /\ batch' = [batch EXCEPT ![w] = NewIds(n)]
    BY <1>3 DEF Read
  <2>2. n \in Nat \ {0} /\ next + n <= Len(stream) /\ next' = next + n /\ pel' = pel \cup (next + 1 .. next + n)
    BY <2>1, StreamAssumption DEF ReadGroup
  <2>3. next' \in 0 .. Len(stream) /\ pel' \subseteq 1 .. next'
    BY <1>0, <2>2
  <2>4. NewIds(n) \in Seq(1 .. Len(stream)) /\ Len(NewIds(n)) = n
    <3>1. NewIds(n) \in [1 .. n -> 1 .. Len(stream)]
      BY <1>0, <2>2 DEF NewIds
    <3> QED  BY <2>2, <3>1
  <2>5. NewIds(n) # << >>
    BY <2>2, <2>4, EmptySeq
  <2>6. batch' \in [Worker -> Seq(1 .. Len(stream))]
    BY <1>0, <2>1, <2>4
  <2>7. pc' = [pc EXCEPT ![w] = "mark"] /\ pc' \in [Worker -> PcLabel]
    BY <1>0, <1>3 DEF Read, Goto, PcLabel
  <2>8. \A v \in Worker : batch'[v] = << >> <=> pc'[v] = "read"
    BY <1>0, <2>1, <2>5, <2>7
  <2> QED  BY <1>0, <1>f, <2>1, <2>3, <2>6, <2>7, <2>8 DEF ReadGroup, TypeOK, StreamTypeOK
<1>4. ASSUME NEW w \in Worker, pc[w] # "read", NEW to \in PcLabel \ {"read"}, Goto(w, to), UNCHANGED <<batch, stream>>
      PROVE  /\ pc' \in [Worker -> PcLabel]
             /\ batch' \in [Worker -> Seq(1 .. Len(stream'))]
             /\ \A v \in Worker : batch'[v] = << >> <=> pc'[v] = "read"
  BY <1>0, <1>4 DEF Goto
<1>5. ASSUME NEW w \in Worker, MarkEvent(w) PROVE TypeOK'
  <2>1. marker' \subseteq Event
    BY <1>0, <1>5, CurrentType DEF MarkEvent
  <2>2. /\ pc' \in [Worker -> PcLabel]
        /\ batch' \in [Worker -> Seq(1 .. Len(stream'))]
        /\ \A v \in Worker : batch'[v] = << >> <=> pc'[v] = "read"
    BY <1>4, <1>5 DEF MarkEvent, PcLabel
  <2> QED  BY <1>0, <1>f, <1>5, <2>1, <2>2 DEF MarkEvent, TypeOK, StreamTypeOK
<1>6. ASSUME NEW w \in Worker, ProcessEvent(w) PROVE TypeOK'
  <2>1. applied' \in [Event -> Nat]
    <3>1. EventOf(Current(w)) \in Event
      BY <1>6, CurrentType DEF ProcessEvent
    <3>2. \A e \in Event : [applied EXCEPT ![e] = applied[e] + 1] \in [Event -> Nat]
      BY <1>0
    <3> QED  BY <1>0, <1>6, <3>1, <3>2 DEF ProcessEvent
  <2>2. /\ pc' \in [Worker -> PcLabel]
        /\ batch' \in [Worker -> Seq(1 .. Len(stream'))]
        /\ \A v \in Worker : batch'[v] = << >> <=> pc'[v] = "read"
    BY <1>4, <1>6 DEF ProcessEvent, PcLabel
  <2> QED  BY <1>0, <1>f, <1>6, <2>1, <2>2 DEF ProcessEvent, TypeOK, StreamTypeOK
<1>7. ASSUME NEW w \in Worker, ClearMarker(w) PROVE TypeOK'
  <2>1. marker' \subseteq Event
    BY <1>0, <1>7 DEF ClearMarker
  <2>2. /\ pc' \in [Worker -> PcLabel]
        /\ batch' \in [Worker -> Seq(1 .. Len(stream'))]
        /\ \A v \in Worker : batch'[v] = << >> <=> pc'[v] = "read"
    BY <1>4, <1>7 DEF ClearMarker, PcLabel
  <2> QED  BY <1>0, <1>f, <1>7, <2>1, <2>2 DEF ClearMarker, TypeOK, StreamTypeOK
<1>8. ASSUME NEW w \in Worker, Retry(w) PROVE TypeOK'
  <2>1. /\ pc' \in [Worker -> PcLabel]
        /\ batch' \in [Worker -> Seq(1 .. Len(stream))]
        /\ \A v \in Worker : batch'[v] = << >> <=> pc'[v] = "read"
    BY <1>8, AdvanceType DEF Retry
  <2>2. Current(w) \in 1 .. Len(stream) /\ EventOf(Current(w)) \in Event
    BY <1>8, CurrentType DEF Retry
  <2>3. stream[Current(w)].attempt \in 0 .. MaxRetries
    <3>1. stream[Current(w)] \in Entry
      BY <1>0, <2>2
    <3> QED  BY <3>1 DEF Entry
  <2>4. pel' \subseteq pel
    BY <1>8 DEF Retry, MoveToRetryOrDlq, Ack
  <2>5. dlq' \subseteq Event
    BY <1>0, <1>8, <2>2 DEF Retry, MoveToRetryOrDlq
  <2>6. stream' \in Seq(Entry) /\ Len(stream') \in Nat /\ Len(stream) <= Len(stream')
    <3>1. CASE UNCHANGED stream
      BY <1>0, <3>1
    <3>2. CASE /\ stream[Current(w)].attempt < MaxRetries
               /\ stream' = Append(stream, [event |-> EventOf(Current(w)), attempt |-> stream[Current(w)].attempt + 1])
      <4>1. stream[Current(w)].attempt + 1 \in 0 .. MaxRetries
        BY <2>3, <3>2, StreamAssumption
      <4>2. stream' \in Seq(Entry) /\ Len(stream') = Len(stream) + 1
        <5> DEFINE e == EventOf(Current(w))
                   a == stream[Current(w)].attempt + 1
        <5>1. e \in Event /\ a \in 0 .. MaxRetries /\ stream' = Append(stream, [event |-> e, attempt |-> a])
          BY <2>2, <3>2, <4>1
        <5> HIDE DEF e, a
        <5> QED  BY <1>0, <5>1, PublishedType
      <4> QED  BY <1>0, <4>2
    <3> QED  BY <1>8, <3>1, <3>2 DEF Retry, MoveToRetryOrDlq
  <2>7. batch' \in [Worker -> Seq(1 .. Len(stream'))]
    BY <1>0, <2>1, <2>6, GrownType
  <2>8. next' \in 0 .. Len(stream') /\ since' \in 0 .. Len(stream') /\ pel' \subseteq 1 .. next'
    BY <1>0, <1>8, <2>4, <2>6 DEF Retry
  <2> QED  BY <1>0, <1>f, <1>8, <2>1, <2>5, <2>6, <2>7, <2>8 DEF Retry, TypeOK, StreamTypeOK
<1>9. ASSUME NEW w \in Worker, AckEvent(w) PROVE TypeOK'
  <2>1. /\ pc' \in [Worker -> PcLabel]
        /\ batch' \in [Worker -> Seq(1 .. Len(stream))]
        /\ \A v \in Worker : batch'[v] = << >> <=> pc'[v] = "read"
    BY <1>9, AdvanceType DEF AckEvent
  <2>2. pel' \subseteq pel
    BY <1>9 DEF AckEvent, Ack
  <2> QED  BY <1>0, <1>f, <1>9, <2>1, <2>2 DEF AckEvent, TypeOK, StreamTypeOK
<1>10. ASSUME NEW w \in Worker, Crash(w) PROVE TypeOK'
  <2>1. << >> \in Seq(1 .. Len(stream))
    OBVIOUS
  <2>2. batch' = [batch EXCEPT ![w] = << >>] /\ pc' = [pc EXCEPT ![w] = "read"]
    BY <1>10 DEF Crash, Goto
  <2>3. batch' \in [Worker -> Seq(1 .. Len(stream))] /\ pc' \in [Worker -> PcLabel]
    BY <1>0, <2>1, <2>2 DEF PcLabel
  <2>4. \A v \in Worker : batch'[v] = << >> <=> pc'[v] = "read"
    BY <1>0, <2>2
  <2> QED  BY <1>0, <1>f, <1>10, <2>3, <2>4 DEF Crash, streamVars, TypeOK, StreamTypeOK
<1>11. CASE UNCHANGED vars
  BY <1>0, <1>f, <1>11 DEF vars, streamVars, workerVars, TypeOK, StreamTypeOK
<1> QED  BY <1>1, <1>2, <1>3, <1>5, <1>6, <1>7, <1>8, <1>9, <1>10, <1>11 DEF Next, Producers, Handle

\* The empty stream is well typed.
LEMMA TypeInit == Init => TypeOK
<1> SUFFICES ASSUME Init PROVE TypeOK
  OBVIOUS
<1>1. stream \in Seq(Entry) /\ Len(stream) = 0
  BY DEF Init, StreamInit
<1>2. batch \in [Worker -> Seq(1 .. Len(stream))] /\ pc \in [Worker -> PcLabel]
  BY DEF Init, PcLabel
<1> QED  BY <1>1, <1>2 DEF Init, StreamInit, TypeOK, StreamTypeOK

-----------------------------------------------------------------------------
(* At most once.                                                           *)

\* Consumer w holds event e: it has marked it and not yet let go of it.
Holds(w, e) == pc[w] \in {"process", "release"} /\ EventOf(Current(w)) = e

\* The inductive invariant: a held event is marked and held by one consumer, and
\* an applied event is marked, applied once and held by none.
Claimed ==
    /\ \A w \in Worker, e \in Event : Holds(w, e) => e \in marker
    /\ \A v, w \in Worker, e \in Event : Holds(v, e) /\ Holds(w, e) => v = w
    /\ \A w \in Worker, e \in Event : Holds(w, e) => applied[e] = 0
    /\ \A e \in Event : e \notin marker => applied[e] = 0
    /\ Once

\* A step that marks, applies and clears nothing, and after which consumers
\* hold no event they did not hold before, keeps the invariant.
LEMMA ClaimedKept ==
    ASSUME Claimed, UNCHANGED <<marker, applied>>,
           \A w \in Worker, e \in Event : Holds(w, e)' => Holds(w, e)
    PROVE  Claimed'
BY DEF Claimed, Once

\* Appending to the stream leaves the entries it has in place.
LEMMA AppendKeeps ==
    ASSUME stream \in Seq(Entry), NEW x, stream' = Append(stream, x)
    PROVE  \A i \in 1 .. Len(stream) : stream'[i] = stream[i]
OBVIOUS

\* A busy consumer's current event does not change when the stream grows.
LEMMA HoldsOn ==
    ASSUME TypeOK, NEW v \in Worker, NEW e \in Event, pc'[v] = pc[v], batch'[v] = batch[v],
           \A i \in 1 .. Len(stream) : stream'[i] = stream[i]
    PROVE  Holds(v, e)' <=> Holds(v, e)
<1>1. CASE pc[v] \in {"process", "release"}
  <2>1. Current(v) \in 1 .. Len(stream)
    BY <1>1, CurrentType
  <2> QED  BY <2>1 DEF Holds, Current, EventOf
<1>2. CASE pc[v] \notin {"process", "release"}
  BY <1>2 DEF Holds
<1> QED  BY <1>1, <1>2

\* Every step keeps the invariant, as long as Redis answers the marker commands
\* and no handler raises after its commit.
LEMMA ClaimedStep ==
    TypeOK /\ Claimed /\ MarkersHold /\ [Next]_vars => Claimed'
<1> SUFFICES ASSUME TypeOK, Claimed, MarkersHold, [Next]_vars
             PROVE  Claimed'
  OBVIOUS
<1>0. pc \in [Worker -> PcLabel] /\ applied \in [Event -> Nat] /\ stream \in Seq(Entry) /\ DOMAIN batch = Worker
  BY DEF TypeOK, StreamTypeOK
<1>1. CASE Producers
  <2>1. \A i \in 1 .. Len(stream) : stream'[i] = stream[i]
    <3>1. stream' = stream \/ \E x : stream' = Append(stream, x)
      BY <1>1 DEF Producers, EnsureGroup, Publish
    <3> QED  BY <1>0, <3>1, AppendKeeps
  <2> QED  BY <1>1, <2>1, HoldsOn, ClaimedKept DEF Producers, EnsureGroup, Publish, workerVars
<1>2. ASSUME NEW w \in Worker, UNCHANGED <<marker, applied>>, pc'[w] \in {"read", "mark", "ack", "retry"},
             \A v \in Worker : v # w => pc'[v] = pc[v] /\ batch'[v] = batch[v],
             \A i \in 1 .. Len(stream) : stream'[i] = stream[i]
      PROVE  Claimed'
  <2>1. \A e \in Event : ~Holds(w, e)'
    BY <1>2 DEF Holds
  <2>2. \A v \in Worker, e \in Event : v # w => (Holds(v, e)' <=> Holds(v, e))
    BY <1>2, HoldsOn
  <2> QED  BY <1>2, <2>1, <2>2, ClaimedKept
<1>3. ASSUME NEW w \in Worker, Read(w) PROVE Claimed'
  <2>1. pc'[w] = "mark" /\ \A v \in Worker : v # w => pc'[v] = pc[v] /\ batch'[v] = batch[v]
    BY <1>0, <1>3 DEF Read, Goto
  <2> QED  BY <1>2, <1>3, <2>1 DEF Read, ReadGroup
<1>4. ASSUME NEW w \in Worker, Advance(w)
      PROVE  /\ pc'[w] \in {"read", "mark"}
             /\ \A v \in Worker : v # w => pc'[v] = pc[v] /\ batch'[v] = batch[v]
  BY <1>0, <1>4 DEF Advance, Goto
<1>5. ASSUME NEW w \in Worker, Retry(w) PROVE Claimed'
  <2>1. \A i \in 1 .. Len(stream) : stream'[i] = stream[i]
    <3>1. stream' = stream \/ \E x : stream' = Append(stream, x)
      BY <1>5 DEF Retry, MoveToRetryOrDlq
    <3> QED  BY <1>0, <3>1, AppendKeeps
  <2> QED  BY <1>2, <1>4, <1>5, <2>1 DEF Retry
<1>6. ASSUME NEW w \in Worker, AckEvent(w) PROVE Claimed'
  BY <1>2, <1>4, <1>6 DEF AckEvent
<1>7. ASSUME NEW w \in Worker, Crash(w) PROVE Claimed'
  <2>1. pc'[w] = "read" /\ \A v \in Worker : v # w => pc'[v] = pc[v] /\ batch'[v] = batch[v]
    BY <1>0, <1>7 DEF Crash, Goto
  <2> QED  BY <1>2, <1>7, <2>1 DEF Crash, streamVars
<1>8. ASSUME NEW w \in Worker, NEW to, Goto(w, to), UNCHANGED <<batch, stream>>
      PROVE  /\ pc'[w] = to
             /\ \A v \in Worker, e \in Event : v # w => (Holds(v, e)' <=> Holds(v, e))
             /\ EventOf(Current(w))' = EventOf(Current(w))
  <2>1. pc'[w] = to /\ \A v \in Worker : v # w => pc'[v] = pc[v]
    BY <1>0, <1>8 DEF Goto
  <2> QED  BY <1>8, <2>1 DEF Holds, EventOf, Current
<1>9. ASSUME NEW w \in Worker, MarkEvent(w) PROVE Claimed'
  <2> DEFINE e == EventOf(Current(w))
  <2>1. e \in Event /\ \A x \in Event : ~Holds(w, x)
    BY <1>9, CurrentType DEF MarkEvent, Holds
  <2>2. CASE e \notin marker /\ marker' = marker \cup {e} /\ Goto(w, "process")
    <3>1. \A x \in Event : Holds(w, x)' <=> x = e
      BY <1>8, <1>9, <2>1, <2>2 DEF MarkEvent, Holds
    <3>2. \A v \in Worker, x \in Event : v # w => (Holds(v, x)' <=> Holds(v, x))
      BY <1>8, <1>9, <2>2 DEF MarkEvent
    <3>3. \A v \in Worker : ~Holds(v, e)
      BY <2>1, <2>2 DEF Claimed
    <3>4. applied' = applied /\ applied[e] = 0
      BY <1>9, <2>1, <2>2 DEF MarkEvent, Claimed
    <3> HIDE DEF e
    <3> QED  BY <2>1, <2>2, <3>1, <3>2, <3>3, <3>4 DEF Claimed, Once
  <2>3. CASE UNCHANGED marker /\ Goto(w, "ack")
    <3>1. pc'[w] = "ack" /\ \A v \in Worker, x \in Event : v # w => (Holds(v, x)' <=> Holds(v, x))
      BY <1>8, <1>9, <2>3 DEF MarkEvent
    <3>2. \A x \in Event : ~Holds(w, x)'
      BY <3>1 DEF Holds
    <3> QED  BY <1>9, <2>3, <3>1, <3>2, ClaimedKept DEF MarkEvent
  <2> QED  BY <1>9, <2>2, <2>3 DEF MarkEvent, MarkersHold
<1>10. ASSUME NEW w \in Worker, ProcessEvent(w) PROVE Claimed'
  <2> DEFINE e == EventOf(Current(w))
  <2>1. e \in Event /\ \A x \in Event : Holds(w, x) <=> x = e
    BY <1>10, CurrentType DEF ProcessEvent, Holds
  <2>2. CASE applied' = [applied EXCEPT ![e] = applied[e] + 1] /\ Goto(w, "ack")
    <3>1. pc'[w] = "ack" /\ \A v \in Worker, x \in Event : v # w => (Holds(v, x)' <=> Holds(v, x))
      BY <1>8, <1>10, <2>2 DEF ProcessEvent
    <3>2. \A x \in Event : ~Holds(w, x)'
      BY <3>1 DEF Holds
    <3>3. applied[e] = 0 /\ e \in marker /\ marker' = marker
      BY <1>10, <2>1 DEF ProcessEvent, Claimed
    <3>4. \A v \in Worker : v # w => ~Holds(v, e)
      BY <2>1 DEF Claimed
    <3> HIDE DEF e
    <3>5. applied'[e] = 1 /\ \A x \in Event : x # e => applied'[x] = applied[x]
      BY <1>0, <2>1, <2>2, <3>3
    <3> QED  BY <2>1, <3>1, <3>2, <3>3, <3>4, <3>5 DEF Claimed, Once
  <2>3. CASE UNCHANGED applied /\ Goto(w, "release")
    <3>1. /\ pc'[w] = "release" /\ EventOf(Current(w))' = e
          /\ \A v \in Worker, x \in Event : v # w => (Holds(v, x)' <=> Holds(v, x))
      BY <1>8, <1>10, <2>3 DEF ProcessEvent
    <3>2. \A x \in Event : Holds(w, x)' <=> Holds(w, x)
      BY <2>1, <3>1 DEF Holds
    <3> QED  BY <1>10, <2>3, <3>1, <3>2, ClaimedKept DEF ProcessEvent
  <2> QED  BY <1>10, <2>2, <2>3 DEF ProcessEvent, MarkersHold
<1>11. ASSUME NEW w \in Worker, ClearMarker(w) PROVE Claimed'
  <2> DEFINE e == EventOf(Current(w))
  <2>1. e \in Event /\ Holds(w, e) /\ marker' = marker \ {e}
    BY <1>11, CurrentType DEF ClearMarker, Holds, MarkersHold
  <2>2. pc'[w] = "retry" /\ \A v \in Worker, x \in Event : v # w => (Holds(v, x)' <=> Holds(v, x))
    BY <1>8, <1>11 DEF ClearMarker
  <2>3. \A x \in Event : ~Holds(w, x)'
    BY <2>2 DEF Holds
  <2>4. applied' = applied /\ applied[e] = 0 /\ \A v \in Worker : v # w => ~Holds(v, e)
    BY <1>11, <2>1 DEF ClearMarker, Claimed
  <2> HIDE DEF e
  <2> QED  BY <2>1, <2>2, <2>3, <2>4 DEF Claimed, Once
<1>12. CASE UNCHANGED vars
  <2>1. \A v \in Worker, x \in Event : Holds(v, x)' <=> Holds(v, x)
    BY <1>12 DEF vars, streamVars, workerVars, Holds, EventOf, Current
  <2> QED  BY <1>12, <2>1, ClaimedKept DEF vars, streamVars
<1> QED  BY <1>1, <1>3, <1>5, <1>6, <1>7, <1>9, <1>10, <1>11, <1>12 DEF Next, Handle

\* The types hold in every reachable state, whatever fails.
THEOREM StreamTypeCorrect == Spec => []TypeOK
BY TypeInit, TypeStep, PTL DEF Spec

\* The invariant holds in every reachable state of a deployment whose markers hold.
LEMMA ClaimedAlways == Spec => [](MarkersHold => Claimed)
<1>1. Init => Claimed
  BY DEF Init, StreamInit, Claimed, Holds, Once
<1>2. TypeOK /\ (MarkersHold => Claimed) /\ [Next]_vars => (MarkersHold => Claimed)'
  <2> SUFFICES ASSUME TypeOK, MarkersHold => Claimed, [Next]_vars, MarkersHold' PROVE Claimed'
    OBVIOUS
  <2>1. MarkersHold
    BY DEF MarkersHold, Next, vars
  <2> QED  BY <2>1, ClaimedStep
<1> QED  BY <1>1, <1>2, StreamTypeCorrect, PTL DEF Spec

\* While Redis answers the marker commands and no handler raises after its
\* commit, no event is applied twice: not when consumers crash between any two
\* commands, acknowledgements or retries are lost, or producers publish the
\* event any number of times.
THEOREM AppliedAtMostOnce == Spec => []AppliedOnce
<1>1. (MarkersHold => Claimed) => AppliedOnce
  BY DEF Claimed, AppliedOnce
<1> QED  BY <1>1, ClaimedAlways, PTL

-----------------------------------------------------------------------------
(* Nothing falls out of the stream unseen.                                 *)

Members(s) == {s[k] : k \in 1 .. Len(s)}
Distinct(s) == \A j, k \in 1 .. Len(s) : s[j] = s[k] => j = k

\* The ids consumer w has read and not finished.
Unfinished(w) == Members(batch[w])

\* An id in a batch is pending, after the group's start, and in that batch only.
Tracked ==
    /\ since <= next
    /\ group = "absent" => pel = {}
    /\ \A i \in pel : since < i
    /\ \A w \in Worker : Unfinished(w) \subseteq pel /\ Distinct(batch[w])
    /\ \A v, w \in Worker : v # w => Unfinished(v) \cap Unfinished(w) = {}

\* Without its head, a sequence of distinct elements has the others.
LEMMA TailMembers ==
    ASSUME NEW S, NEW s \in Seq(S), s # << >>, Distinct(s)
    PROVE  Distinct(Tail(s)) /\ Members(Tail(s)) = Members(s) \ {Head(s)} /\ Head(s) \in Members(s)
<1>1. Len(s) \in Nat \ {0} /\ Head(s) = s[1]
  BY TailFacts
<1>2. Len(Tail(s)) = Len(s) - 1 /\ \A k \in 1 .. Len(s) - 1 : Tail(s)[k] = s[k + 1]
  BY <1>1, HeadTailProperties
<1>3. Distinct(Tail(s))
  BY <1>1, <1>2 DEF Distinct
<1>4. ASSUME NEW x \in Members(s), x # Head(s) PROVE x \in Members(Tail(s))
  <2>1. PICK k \in 1 .. Len(s) : s[k] = x
    BY DEF Members
  <2>2. k - 1 \in 1 .. Len(s) - 1 /\ Tail(s)[k - 1] = x
    BY <1>1, <1>2, <1>4, <2>1
  <2> QED  BY <1>2, <2>2 DEF Members
<1>5. ASSUME NEW x \in Members(Tail(s)) PROVE x \in Members(s) /\ x # Head(s)
  <2>1. PICK k \in 1 .. Len(s) - 1 : s[k + 1] = x
    BY <1>2 DEF Members
  <2>2. k + 1 \in 1 .. Len(s) /\ k + 1 # 1 /\ 1 \in 1 .. Len(s)
    BY <1>1
  <2> QED  BY <1>1, <2>1, <2>2 DEF Members, Distinct
<1>6. Head(s) \in Members(s)
  BY <1>1 DEF Members
<1> QED  BY <1>3, <1>4, <1>5, <1>6

\* Finishing the current entry takes it, and nothing else, out of the batch.
LEMMA AdvanceEffect ==
    ASSUME TypeOK, Tracked, NEW w \in Worker, pc[w] # "read", Advance(w)
    PROVE  /\ Unfinished(w)' = Unfinished(w) \ {Current(w)} /\ Distinct(batch'[w])
           /\ \A v \in Worker : v # w => pc'[v] = pc[v] /\ batch'[v] = batch[v]
           /\ pc'[w] \in {"read", "mark"}
<1>1. batch[w] \in Seq(1 .. Len(stream)) /\ batch[w] # << >> /\ Distinct(batch[w])
  BY CurrentType DEF Tracked
<1>2. batch'[w] = Tail(batch[w]) /\ (\A v \in Worker : v # w => pc'[v] = pc[v] /\ batch'[v] = batch[v])
      /\ pc'[w] \in {"read", "mark"}
  BY DEF Advance, Goto, TypeOK
<1> QED  BY <1>1, <1>2, TailMembers DEF Unfinished, Current

\* A busy consumer's current entry is in its batch.
LEMMA CurrentUnfinished ==
    ASSUME TypeOK, Tracked, NEW w \in Worker, pc[w] # "read"
    PROVE  Current(w) \in Unfinished(w) /\ Current(w) \in pel
<1>1. batch[w] \in Seq(1 .. Len(stream)) /\ batch[w] # << >> /\ Distinct(batch[w])
  BY CurrentType DEF Tracked
<1>2. Current(w) \in Unfinished(w)
  BY <1>1, TailMembers DEF Unfinished, Current
<1> QED  BY <1>2 DEF Tracked

\* A read hands out ids nobody had before.
LEMMA ReadEffect ==
    ASSUME TypeOK, NEW w \in Worker, Read(w)
    PROVE  \E n \in Nat \ {0} :
             /\ next' = next + n /\ next' <= Len(stream) /\ group = "ready"
             /\ pel' = pel \cup (next + 1 .. next + n)
             /\ Unfinished(w)' = next + 1 .. next + n /\ Distinct(batch'[w])
             /\ pc'[w] = "mark"
             /\ \A v \in Worker : v # w => pc'[v] = pc[v] /\ batch'[v] = batch[v]
<1>1. PICK n \in 1 .. BatchSize : ReadGroup(n) /\ batch' = [batch EXCEPT ![w] = NewIds(n)]
  BY DEF Read
<1>2. n \in Nat \ {0} /\ next \in Nat
  BY StreamAssumption DEF TypeOK, StreamTypeOK
<1>3. batch'[w] = NewIds(n) /\ pc'[w] = "mark" /\ \A v \in Worker : v # w => pc'[v] = pc[v] /\ batch'[v] = batch[v]
  BY <1>1 DEF Read, Goto, TypeOK
<1>4. Len(NewIds(n)) = n /\ \A k \in 1 .. n : NewIds(n)[k] = next + k
  BY <1>2 DEF NewIds
<1>5. Distinct(NewIds(n))
  BY <1>2, <1>4 DEF Distinct
<1>6. Members(NewIds(n)) = next + 1 .. next + n
  <2>1. ASSUME NEW i \in next + 1 .. next + n PROVE i \in Members(NewIds(n))
    <3>1. i - next \in 1 .. n /\ NewIds(n)[i - next] = i
      BY <1>2, <1>4
    <3> QED  BY <1>4, <3>1 DEF Members
  <2> QED  BY <1>2, <1>4, <2>1 DEF Members
<1> QED  BY <1>1, <1>2, <1>3, <1>5, <1>6 DEF ReadGroup, Unfinished

\* A consumer that lets go of its batch keeps the others' batches as they are.
LEMMA CrashEffect ==
    ASSUME TypeOK, NEW w \in Worker, Crash(w)
    PROVE  /\ Unfinished(w)' = {} /\ Distinct(batch'[w]) /\ pc'[w] = "read"
           /\ \A v \in Worker : v # w => pc'[v] = pc[v] /\ batch'[v] = batch[v]
<1>1. batch'[w] = << >> /\ pc'[w] = "read" /\ \A v \in Worker : v # w => pc'[v] = pc[v] /\ batch'[v] = batch[v]
  BY DEF Crash, Goto, TypeOK
<1> QED  BY <1>1 DEF Unfinished, Members, Distinct

\* Every step keeps the batches apart and pending.
LEMMA TrackedStep == TypeOK /\ Tracked /\ [Next]_vars => Tracked'
<1> SUFFICES ASSUME TypeOK, Tracked, [Next]_vars PROVE Tracked'
  OBVIOUS
<1>0. since \in Nat /\ next \in Nat /\ Len(stream) \in Nat /\ pel \subseteq 1 .. next /\ next <= Len(stream)
  BY DEF TypeOK, StreamTypeOK
<1>a. \A v \in Worker : batch'[v] = batch[v] => Unfinished(v)' = Unfinished(v) /\ Distinct(batch'[v])
  BY DEF Unfinished, Tracked
<1>1. CASE Producers
  <2>1. \A v \in Worker : batch'[v] = batch[v]
    BY <1>1 DEF Producers, workerVars
  <2>2. CASE EnsureGroup
    <3>1. pel' = {} /\ group' = "ready" /\ since' <= next'
      BY <1>0, <2>2 DEF EnsureGroup, Tracked
    <3>2. pel = {}
      BY <2>2 DEF EnsureGroup, Tracked
    <3> QED  BY <1>a, <2>1, <3>1, <3>2 DEF Tracked
  <2>3. CASE \E e \in Event : Publish(e)
    BY <1>a, <2>1, <2>3 DEF Publish, Tracked
  <2> QED  BY <1>1, <2>2, <2>3 DEF Producers
<1>2. ASSUME NEW w \in Worker, Read(w) PROVE Tracked'
  <2>1. PICK n \in Nat \ {0} :
             /\ next' = next + n /\ next' <= Len(stream) /\ group = "ready"
             /\ pel' = pel \cup (next + 1 .. next + n)
             /\ Unfinished(w)' = next + 1 .. next + n /\ Distinct(batch'[w])
             /\ pc'[w] = "mark"
             /\ \A v \in Worker : v # w => pc'[v] = pc[v] /\ batch'[v] = batch[v]
    BY <1>2, ReadEffect
  <2>2. UNCHANGED <<since, group>>
    BY <1>2 DEF Read, ReadGroup
  <2>3. \A v \in Worker : v # w => Unfinished(v)' = Unfinished(v) /\ Unfinished(v) \subseteq 1 .. next
    BY <1>0, <1>a, <2>1 DEF Tracked
  <2>4. \A i \in pel' : since < i
    BY <1>0, <2>1 DEF Tracked
  <2>5. \A v \in Worker : Unfinished(v)' \subseteq pel' /\ Distinct(batch'[v])
    BY <1>a, <2>1, <2>3 DEF Tracked
  <2>6. \A v \in Worker : v # w => Unfinished(v)' \cap Unfinished(w)' = {}
    BY <1>0, <2>1, <2>3
  <2> QED  BY <1>0, <2>1, <2>2, <2>3, <2>4, <2>5, <2>6 DEF Tracked
<1>3. ASSUME NEW w \in Worker, pc[w] # "read", Advance(w), Ack(Current(w)) \/ pel' = pel,
             UNCHANGED <<since, next, group>>
      PROVE  Tracked'
  <2>1. /\ Unfinished(w)' = Unfinished(w) \ {Current(w)} /\ Distinct(batch'[w])
        /\ \A v \in Worker : v # w => batch'[v] = batch[v]
    BY <1>3, AdvanceEffect
  <2>2. Current(w) \in Unfinished(w)
    BY <1>3, CurrentUnfinished
  <2>3. pel' = pel \ {Current(w)} \/ pel' = pel
    BY <1>3 DEF Ack
  <2>4. \A v \in Worker : v # w => Unfinished(v)' = Unfinished(v) /\ Current(w) \notin Unfinished(v)
    BY <1>a, <2>1, <2>2 DEF Tracked
  <2> QED  BY <1>3, <1>a, <2>1, <2>2, <2>3, <2>4 DEF Tracked
<1>4. ASSUME NEW w \in Worker, Retry(w) PROVE Tracked'
  BY <1>3, <1>4 DEF Retry, MoveToRetryOrDlq
<1>5. ASSUME NEW w \in Worker, AckEvent(w) PROVE Tracked'
  BY <1>3, <1>5 DEF AckEvent
<1>6. ASSUME NEW w \in Worker, Crash(w) PROVE Tracked'
  <2>1. UNCHANGED <<since, next, group, pel>>
    BY <1>6 DEF Crash, streamVars
  <2>2. Unfinished(w)' = {} /\ Distinct(batch'[w]) /\ \A v \in Worker : v # w => batch'[v] = batch[v]
    BY <1>6, CrashEffect
  <2> QED  BY <1>a, <2>1, <2>2 DEF Tracked
<1>7. ASSUME UNCHANGED <<since, next, group, pel, batch>> PROVE Tracked'
  BY <1>7, <1>a DEF Tracked
<1> QED  BY <1>1, <1>2, <1>4, <1>5, <1>6, <1>7
         DEF Next, Handle, MarkEvent, ProcessEvent, ClearMarker, vars, streamVars, workerVars

-----------------------------------------------------------------------------
\* Entry i is still to be dealt with: not delivered yet, or pending and not the
\* one a consumer is about to acknowledge.
Awaits(i) == i > next \/ (i \in pel /\ \A w \in Worker : pc[w] = "ack" => Current(w) # i)

Safe(e) == applied[e] > 0 \/ e \in dlq \/ e \in marker \/ \E i \in Owed(e) : Awaits(i)

\* The inductive form of LeftBehindIsMarked.
Kept == \A e \in Event : Owed(e) # {} => Safe(e)

\* What the group owes of an event stays owed when the stream grows.
LEMMA OwedGrows ==
    ASSUME TypeOK, UNCHANGED <<since, group>>, Len(stream') \in Nat, Len(stream) <= Len(stream'),
           \A i \in 1 .. Len(stream) : stream'[i] = stream[i], NEW e
    PROVE  Owed(e) \subseteq Owed(e)'
<1>1. Len(stream) \in Nat
  BY DEF TypeOK, StreamTypeOK
<1> QED  BY <1>1 DEF Owed, EventOf

\* An event stays safe while nothing is taken from it.
LEMMA SafeKept ==
    ASSUME NEW e \in Event, Safe(e), Owed(e) \subseteq Owed(e)', applied'[e] = applied[e],
           dlq \subseteq dlq', e \in marker => e \in marker', \A i \in Owed(e) : Awaits(i) => Awaits(i)'
    PROVE  Safe(e)'
BY DEF Safe

\* Every step keeps every owed event safe, whatever fails.
LEMMA KeptStep == TypeOK /\ Tracked /\ Kept /\ [Next]_vars => Kept'
<1> SUFFICES ASSUME TypeOK, Tracked, Kept, [Next]_vars, NEW e \in Event, Owed(e)' # {} PROVE Safe(e)'
  BY DEF Kept
<1>0. /\ stream \in Seq(Entry) /\ Len(stream) \in Nat /\ next \in Nat /\ next <= Len(stream) /\ since \in Nat
      /\ pel \subseteq 1 .. next /\ pc \in [Worker -> PcLabel] /\ DOMAIN batch = Worker
      /\ applied \in [Event -> Nat] /\ DOMAIN pc = Worker
  BY DEF TypeOK, StreamTypeOK
<1>1. CASE Producers
  <2>1. CASE EnsureGroup
    <3>1. Owed(e)' = {}
      BY <1>0, <2>1 DEF EnsureGroup, Owed
    <3> QED  BY <3>1
  <2>2. ASSUME NEW x \in Event, Publish(x) PROVE Safe(e)'
    <3>1. /\ Len(stream') = Len(stream) + 1 /\ \A i \in 1 .. Len(stream) : stream'[i] = stream[i]
          /\ UNCHANGED <<group, since, next, pel, dlq, marker, applied, pc, batch>>
      BY <1>0, <1>1, <2>2 DEF Publish, Producers, workerVars
    <3>2. Owed(e) \subseteq Owed(e)'
      BY <1>0, <3>1, OwedGrows
    <3>3. CASE Owed(e) # {}
      <4>1. \A i \in Owed(e) : Awaits(i) => Awaits(i)'
        BY <3>1 DEF Awaits, Current
      <4> QED  BY <3>1, <3>2, <3>3, <4>1, SafeKept DEF Kept
    <3>4. CASE Owed(e) = {}
      <4>1. PICK i \in Owed(e)' : TRUE
        OBVIOUS
      <4>2. i \in 1 .. Len(stream) + 1 /\ i > since /\ group = "ready" /\ EventOf(i)' = e
        BY <3>1, <4>1 DEF Owed
      <4>3. i = Len(stream) + 1
        BY <1>0, <3>1, <3>4, <4>2 DEF Owed, EventOf
      <4>4. Awaits(i)'
        BY <1>0, <3>1, <4>3 DEF Awaits
      <4> QED  BY <4>1, <4>4 DEF Safe
    <3> QED  BY <3>3, <3>4
  <2> QED  BY <1>1, <2>1, <2>2 DEF Producers
<1>2. ASSUME NEW w \in Worker, Read(w) PROVE Safe(e)'
  <2>1. PICK n \in Nat \ {0} :
             /\ next' = next + n /\ next' <= Len(stream) /\ group = "ready"
             /\ pel' = pel \cup (next + 1 .. next + n)
             /\ Unfinished(w)' = next + 1 .. next + n /\ Distinct(batch'[w])
             /\ pc'[w] = "mark"
             /\ \A v \in Worker : v # w => pc'[v] = pc[v] /\ batch'[v] = batch[v]
    BY <1>2, ReadEffect
  <2>2. UNCHANGED <<stream, since, group, dlq, marker, applied>>
    BY <1>2 DEF Read, ReadGroup
  <2>3. Owed(e)' = Owed(e)
    BY <2>2 DEF Owed, EventOf
  <2>4. ASSUME NEW i \in Owed(e), Awaits(i) PROVE Awaits(i)'
    <3>1. i \in Nat
      BY <1>0 DEF Owed
    <3>2. CASE i > next
      <4>1. i > next' \/ i \in pel'
        BY <1>0, <2>1, <3>1, <3>2
      <4>2. ASSUME NEW v \in Worker, pc'[v] = "ack" PROVE Current(v)' # i
        <5>1. v # w /\ pc[v] = "ack" /\ batch'[v] = batch[v]
          BY <2>1, <4>2
        <5>2. Current(v) \in pel
          BY <5>1, CurrentUnfinished
        <5> QED  BY <1>0, <3>1, <3>2, <5>1, <5>2 DEF Current
      <4> QED  BY <4>1, <4>2 DEF Awaits
    <3>3. CASE i \in pel /\ \A v \in Worker : pc[v] = "ack" => Current(v) # i
      BY <2>1, <3>3 DEF Awaits, Current
    <3> QED  BY <2>4, <3>2, <3>3 DEF Awaits
  <2> QED  BY <2>2, <2>3, <2>4, SafeKept DEF Kept
<1>3. ASSUME NEW w \in Worker, NEW to, Goto(w, to), UNCHANGED <<stream, group, since, next, pel, batch>>,
             pc[w] # "ack", to = "ack" => EventOf(Current(w)) # e
      PROVE  Owed(e)' = Owed(e) /\ \A i \in Owed(e) : Awaits(i) => Awaits(i)'
  <2>1. pc'[w] = to /\ \A v \in Worker : v # w => pc'[v] = pc[v]
    BY <1>0, <1>3 DEF Goto
  <2>2. \A i \in Owed(e) : EventOf(i) = e
    BY DEF Owed
  <2>3. \A v \in Worker : Current(v)' = Current(v)
    BY <1>3 DEF Current
  <2>4. ASSUME NEW i \in Owed(e), NEW v \in Worker, pc[v] = "ack" => Current(v) # i, pc'[v] = "ack" PROVE Current(v)' # i
    BY <1>3, <2>1, <2>2, <2>3, <2>4
  <2> QED  BY <1>3, <2>4 DEF Owed, EventOf, Awaits
<1>4. ASSUME NEW w \in Worker, MarkEvent(w) PROVE Safe(e)'
  <2>0. UNCHANGED <<stream, group, since, next, pel, dlq, applied, batch>> /\ pc[w] = "mark" /\ marker \subseteq marker'
    BY <1>4 DEF MarkEvent
  <2>1. CASE EventOf(Current(w)) \in marker /\ EventOf(Current(w)) = e
    BY <2>0, <2>1 DEF Safe
  <2>2. ASSUME Goto(w, "process") \/ (Goto(w, "ack") /\ EventOf(Current(w)) # e) PROVE Safe(e)'
    <3>1. Owed(e)' = Owed(e) /\ \A i \in Owed(e) : Awaits(i) => Awaits(i)'
      BY <1>3, <2>0, <2>2
    <3> QED  BY <2>0, <3>1, SafeKept DEF Kept
  <2> QED  BY <1>4, <2>1, <2>2 DEF MarkEvent
<1>5. ASSUME NEW w \in Worker, ProcessEvent(w) PROVE Safe(e)'
  <2>0. UNCHANGED <<stream, group, since, next, pel, dlq, marker, batch>> /\ pc[w] = "process" /\ EventOf(Current(w)) \in Event
    BY <1>5, CurrentType DEF ProcessEvent
  <2>1. CASE EventOf(Current(w)) = e /\ applied' = [applied EXCEPT ![e] = @ + 1]
    <3>1. applied'[e] = applied[e] + 1 /\ applied[e] \in Nat
      BY <1>0, <2>1
    <3> QED  BY <3>1 DEF Safe
  <2>2. CASE applied'[e] = applied[e] /\ (Goto(w, "release") \/ (Goto(w, "ack") /\ EventOf(Current(w)) # e))
    <3>1. Owed(e)' = Owed(e) /\ \A i \in Owed(e) : Awaits(i) => Awaits(i)'
      BY <1>3, <2>0, <2>2
    <3> QED  BY <2>0, <2>2, <3>1, SafeKept DEF Kept
  <2>3. EventOf(Current(w)) # e /\ applied' = [applied EXCEPT ![EventOf(Current(w))] = @ + 1] => applied'[e] = applied[e]
    BY <1>0
  <2> QED  BY <1>5, <2>1, <2>2, <2>3 DEF ProcessEvent
<1>6. ASSUME NEW w \in Worker, ClearMarker(w) PROVE Safe(e)'
  <2>0. UNCHANGED <<stream, group, since, next, pel, dlq, applied, batch>> /\ pc[w] = "release" /\ Goto(w, "retry")
    BY <1>6 DEF ClearMarker
  <2>1. Owed(e)' = Owed(e) /\ \A i \in Owed(e) : Awaits(i) => Awaits(i)'
    BY <1>3, <2>0
  <2>2. CASE EventOf(Current(w)) = e
    <3>1. Current(w) \in Unfinished(w) /\ Current(w) \in pel
      BY <2>0, CurrentUnfinished
    <3>2. Current(w) \in Owed(e)
      <4>1. group = "ready" /\ since < Current(w)
        BY <3>1 DEF Tracked, TypeOK, StreamTypeOK
      <4>2. Current(w) \in 1 .. Len(stream)
        BY <2>0, CurrentType
      <4> QED  BY <1>0, <2>2, <4>1, <4>2 DEF Owed
    <3>3. ASSUME NEW v \in Worker, pc'[v] = "ack" PROVE Current(v)' # Current(w)
      <4>1. v # w /\ pc[v] = "ack" /\ Current(v)' = Current(v)
        BY <1>0, <2>0, <3>3 DEF Goto, Current
      <4>2. Current(v) \in Unfinished(v)
        BY <4>1, CurrentUnfinished
      <4> QED  BY <3>1, <4>1, <4>2 DEF Tracked
    <3>4. \E i \in Owed(e)' : Awaits(i)'
      BY <2>0, <2>1, <3>1, <3>2, <3>3 DEF Awaits
    <3> QED  BY <3>4 DEF Safe
  <2>3. CASE EventOf(Current(w)) # e
    <3>1. e \in marker => e \in marker'
      BY <1>6, <2>3 DEF ClearMarker
    <3> QED  BY <2>0, <2>1, <3>1, SafeKept DEF Kept
  <2> QED  BY <2>2, <2>3
<1>7. ASSUME NEW w \in Worker, pc[w] # "read", Advance(w), Ack(Current(w)) \/ pel' = pel, UNCHANGED next,
             NEW i \in Owed(e), Awaits(i), i # Current(w)
      PROVE  Awaits(i)'
  <2>1. (\A v \in Worker : v # w => pc'[v] = pc[v] /\ batch'[v] = batch[v]) /\ pc'[w] # "ack"
    BY <1>7, AdvanceEffect
  <2>2. i \in pel => i \in pel'
    BY <1>7 DEF Ack
  <2> QED  BY <1>7, <2>1, <2>2 DEF Awaits, Current
<1>8. ASSUME NEW w \in Worker, Retry(w) PROVE Safe(e)'
  <2>0. UNCHANGED <<group, since, next, marker, applied>> /\ pc[w] = "retry" /\ Advance(w)
        /\ (Ack(Current(w)) \/ pel' = pel) /\ dlq \subseteq dlq'
    BY <1>8 DEF Retry, MoveToRetryOrDlq
  <2>1. /\ Len(stream') \in Nat /\ Len(stream) <= Len(stream') /\ \A i \in 1 .. Len(stream) : stream'[i] = stream[i]
    <3>1. stream' = stream \/ \E x : stream' = Append(stream, x)
      BY <1>8 DEF Retry, MoveToRetryOrDlq
    <3> QED  BY <1>0, <3>1
  <2>2. Owed(e) \subseteq Owed(e)'
    BY <2>0, <2>1, OwedGrows
  <2>c. Current(w) \in pel /\ EventOf(Current(w)) \in Event
    BY <2>0, CurrentUnfinished, CurrentType
  <2>r. group = "ready"
    BY <2>c DEF Tracked, TypeOK, StreamTypeOK
  <2>3. CASE EventOf(Current(w)) = e
    <3>1. CASE stream' = Append(stream, [event |-> e, attempt |-> stream[Current(w)].attempt + 1])
      <4>1. Len(stream') = Len(stream) + 1 /\ stream'[Len(stream) + 1].event = e
        BY <1>0, <3>1
      <4>0. PICK j : j = Len(stream) + 1
        OBVIOUS
      <4>2. j \in Owed(e)' /\ Awaits(j)'
        <5>1. j > since /\ j > next /\ j \in 1 .. Len(stream')
          BY <1>0, <4>0, <4>1 DEF Tracked
        <5> QED  BY <2>0, <2>r, <4>0, <4>1, <5>1 DEF Owed, EventOf, Awaits
      <4> QED  BY <4>2 DEF Safe
    <3>2. CASE dlq' = dlq \cup {e}
      BY <3>2 DEF Safe
    <3>3. CASE UNCHANGED <<stream, dlq, pel>>
      <4>0. PICK c : c = Current(w)
        OBVIOUS
      <4>1. c \in Owed(e)'
        <5>1. since < Current(w) /\ Current(w) \in 1 .. Len(stream)
          BY <2>0, <2>c, CurrentType DEF Tracked
        <5>2. Current(w) \in Owed(e)
          BY <1>0, <2>3, <2>r, <5>1 DEF Owed
        <5> QED  BY <2>2, <4>0, <5>2
      <4>2. ASSUME NEW v \in Worker, pc'[v] = "ack" PROVE Current(v)' # c
        <5>1. v # w /\ pc[v] = "ack" /\ batch'[v] = batch[v]
          BY <2>0, <4>2, AdvanceEffect
        <5>2. Current(v) \in Unfinished(v) /\ Current(w) \in Unfinished(w)
          BY <2>0, <5>1, CurrentUnfinished
        <5> QED  BY <4>0, <5>1, <5>2 DEF Tracked, Current
      <4>3. c \in pel'
        BY <2>c, <3>3, <4>0
      <4>4. Awaits(c)'
        BY <4>2, <4>3 DEF Awaits
      <4> QED  BY <4>1, <4>4 DEF Safe
    <3> QED  BY <1>8, <2>3, <3>1, <3>2, <3>3 DEF Retry, MoveToRetryOrDlq
  <2>4. CASE EventOf(Current(w)) # e
    <3>1. \A i \in Owed(e) : i # Current(w)
      BY <2>4 DEF Owed
    <3>2. \A i \in Owed(e) : Awaits(i) => Awaits(i)'
      BY <1>7, <2>0, <3>1
    <3>3. Owed(e) # {}
      <4>1. PICK j \in Owed(e)' : TRUE
        OBVIOUS
      <4>2. CASE j <= Len(stream)
        <5>1. j \in Owed(e)
          BY <1>0, <2>0, <2>1, <4>1, <4>2 DEF Owed, EventOf
        <5> QED  BY <5>1
      <4>3. CASE j > Len(stream)
        <5>1. j \in 1 .. Len(stream') /\ stream'[j].event = e
          BY <4>1 DEF Owed, EventOf
        <5>2. stream' = Append(stream, [event |-> EventOf(Current(w)), attempt |-> stream[Current(w)].attempt + 1])
          BY <1>0, <1>8, <4>3, <5>1 DEF Retry, MoveToRetryOrDlq
        <5>3. j = Len(stream) + 1
          BY <1>0, <4>3, <5>1, <5>2
        <5> QED  BY <1>0, <2>4, <5>1, <5>2, <5>3
      <4>4. j \in Nat
        BY <2>1, <4>1 DEF Owed
      <4> QED  BY <1>0, <4>2, <4>3, <4>4
    <3> QED  BY <2>0, <2>2, <3>2, <3>3, SafeKept DEF Kept
  <2> QED  BY <2>3, <2>4
<1>9. ASSUME NEW w \in Worker, AckEvent(w) PROVE Safe(e)'
  <2>0. UNCHANGED <<stream, group, since, next, dlq, marker, applied>> /\ pc[w] = "ack" /\ Advance(w) /\ Ack(Current(w))
    BY <1>9 DEF AckEvent
  <2>1. Owed(e)' = Owed(e)
    BY <2>0 DEF Owed, EventOf
  <2>2. ASSUME NEW i \in Owed(e), Awaits(i) PROVE Awaits(i)'
    <3>1. Current(w) \in pel
      BY <2>0, CurrentUnfinished
    <3>2. i # Current(w)
      <4>1. ~(Current(w) > next)
        <5>1. Current(w) \in 1 .. next
          BY <1>0, <3>1
        <5> QED  BY <1>0, <5>1
      <4> QED  BY <2>0, <2>2, <4>1 DEF Awaits
    <3> QED  BY <1>7, <2>0, <2>2, <3>2
  <2> QED  BY <2>0, <2>1, <2>2, SafeKept DEF Kept
<1>10. ASSUME NEW w \in Worker, Crash(w) PROVE Safe(e)'
  <2>1. pc'[w] = "read" /\ \A v \in Worker : v # w => pc'[v] = pc[v] /\ batch'[v] = batch[v]
    BY <1>10, CrashEffect
  <2>2. UNCHANGED <<stream, group, since, next, pel, dlq, marker, applied>>
    BY <1>10 DEF Crash, streamVars
  <2>3. Owed(e)' = Owed(e)
    BY <2>2 DEF Owed, EventOf
  <2>4. \A i \in Owed(e) : Awaits(i) => Awaits(i)'
    BY <2>1, <2>2 DEF Awaits, Current
  <2> QED  BY <2>2, <2>3, <2>4, SafeKept DEF Kept
<1>11. CASE UNCHANGED vars
  <2>1. Owed(e)' = Owed(e) /\ \A i \in Owed(e) : Awaits(i) => Awaits(i)'
    BY <1>11 DEF vars, streamVars, workerVars, Owed, EventOf, Awaits, Current
  <2> QED  BY <1>11, <2>1, SafeKept DEF vars, streamVars, Kept
<1> QED  BY <1>1, <1>2, <1>4, <1>5, <1>6, <1>8, <1>9, <1>10, <1>11 DEF Next, Handle

-----------------------------------------------------------------------------
\* Entry i is not waiting to be found a duplicate: the consumer that has it in
\* its batch is processing it, or no living consumer has it.
HeldOrLost(i) == \A w \in Worker : i \in Unfinished(w) => pc[w] \in {"process", "release"} /\ Current(w) = i

Traced(e) == applied[e] > 0 \/ \E i \in pel : EventOf(i) = e /\ HeldOrLost(i)

\* While the markers hold, a marker stands for an effect that was committed or
\* for a pending entry that will not be acknowledged as a duplicate.
Marked == \A e \in marker : Traced(e)

\* A marked event stays traced by the entry that traced it.
LEMMA TracedKept ==
    ASSUME NEW e, Traced(e), applied[e] > 0 => applied'[e] > 0,
           \A i \in pel : EventOf(i) = e /\ HeldOrLost(i) => i \in pel' /\ EventOf(i)' = e /\ HeldOrLost(i)'
    PROVE  Traced(e)'
BY DEF Traced

\* Every step keeps the markers true while the markers hold.
LEMMA MarkedStep == TypeOK /\ Tracked /\ Marked /\ MarkersHold /\ [Next]_vars => Marked'
<1> SUFFICES ASSUME TypeOK, Tracked, Marked, MarkersHold, [Next]_vars, NEW e \in marker' PROVE Traced(e)'
  BY DEF Marked
<1>0. /\ stream \in Seq(Entry) /\ Len(stream) \in Nat /\ next \in Nat /\ next <= Len(stream)
      /\ pel \subseteq 1 .. next /\ pc \in [Worker -> PcLabel] /\ DOMAIN pc = Worker /\ DOMAIN batch = Worker
      /\ applied \in [Event -> Nat] /\ marker \subseteq Event
  BY DEF TypeOK, StreamTypeOK
<1>a. \A i \in pel : i \in 1 .. Len(stream)
  BY <1>0
<1>1. CASE Producers
  <2>1. UNCHANGED <<pel, marker, applied, pc, batch>> /\ \A i \in 1 .. Len(stream) : stream'[i] = stream[i]
    <3>1. stream' = stream \/ \E x : stream' = Append(stream, x)
      BY <1>1 DEF Producers, EnsureGroup, Publish
    <3> QED  BY <1>0, <1>1, <3>1, AppendKeeps DEF Producers, EnsureGroup, Publish, workerVars
  <2>2. \A i \in pel : EventOf(i)' = EventOf(i) /\ (HeldOrLost(i)' <=> HeldOrLost(i))
    BY <1>a, <2>1 DEF EventOf, HeldOrLost, Unfinished, Current
  <2> QED  BY <2>1, <2>2, TracedKept DEF Marked
<1>2. ASSUME NEW w \in Worker, Read(w) PROVE Traced(e)'
  <2>1. PICK n \in Nat \ {0} :
             /\ next' = next + n /\ pel' = pel \cup (next + 1 .. next + n)
             /\ Unfinished(w)' = next + 1 .. next + n
             /\ \A v \in Worker : v # w => pc'[v] = pc[v] /\ batch'[v] = batch[v]
    BY <1>2, ReadEffect
  <2>2. UNCHANGED <<stream, marker, applied>>
    BY <1>2 DEF Read, ReadGroup
  <2>3. ASSUME NEW i \in pel, HeldOrLost(i) PROVE HeldOrLost(i)'
    <3>1. i \notin Unfinished(w)'
      BY <1>0, <2>1
    <3> QED  BY <2>1, <2>3, <3>1 DEF HeldOrLost, Unfinished, Current
  <2> QED  BY <2>1, <2>2, <2>3, TracedKept DEF Marked, EventOf
<1>3. ASSUME NEW w \in Worker, NEW to, Goto(w, to), UNCHANGED <<stream, pel, batch>>,
             e \in marker, applied[e] > 0 => applied'[e] > 0,
             \A i \in pel : EventOf(i) = e /\ HeldOrLost(i) /\ i \in Unfinished(w) => to \in {"process", "release"}
      PROVE  Traced(e)'
  <2>1. pc'[w] = to /\ \A v \in Worker : v # w => pc'[v] = pc[v]
    BY <1>0, <1>3 DEF Goto
  <2>2. \A v \in Worker : Current(v)' = Current(v) /\ Unfinished(v)' = Unfinished(v)
    BY <1>3 DEF Current, Unfinished
  <2>3. ASSUME NEW i \in pel, EventOf(i) = e, HeldOrLost(i) PROVE HeldOrLost(i)'
    BY <1>3, <2>1, <2>2, <2>3 DEF HeldOrLost
  <2>4. \A i \in pel : EventOf(i)' = EventOf(i)
    BY <1>3 DEF EventOf
  <2> QED  BY <1>3, <2>3, <2>4, TracedKept DEF Marked
<1>4. ASSUME NEW w \in Worker, MarkEvent(w) PROVE Traced(e)'
  <2>0. UNCHANGED <<stream, pel, applied, batch>> /\ pc[w] = "mark" /\ \E to : Goto(w, to)
    BY <1>4 DEF MarkEvent
  <2>1. CASE e \in marker
    <3>1. \A i \in pel : HeldOrLost(i) => i \notin Unfinished(w)
      BY <2>0 DEF HeldOrLost
    <3> QED  BY <1>3, <2>0, <2>1, <3>1
  <2>2. CASE e \notin marker
    <3>1. e = EventOf(Current(w)) /\ Goto(w, "process")
      BY <1>4, <2>2 DEF MarkEvent, MarkersHold
    <3>2. PICK c : c = Current(w)
      OBVIOUS
    <3>3. c \in pel' /\ EventOf(c)' = e /\ c \in Unfinished(w)
      BY <2>0, <3>1, <3>2, CurrentUnfinished DEF EventOf
    <3>4. pc'[w] = "process" /\ \A v \in Worker : Current(v)' = Current(v) /\ Unfinished(v)' = Unfinished(v)
      BY <1>0, <2>0, <3>1 DEF Goto, Current, Unfinished
    <3>5. HeldOrLost(c)'
      BY <3>2, <3>3, <3>4 DEF HeldOrLost, Tracked
    <3> QED  BY <3>3, <3>5 DEF Traced
  <2> QED  BY <2>1, <2>2
<1>5. ASSUME NEW w \in Worker, ProcessEvent(w) PROVE Traced(e)'
  <2>0. UNCHANGED <<stream, pel, marker, batch>> /\ EventOf(Current(w)) \in Event /\ pc[w] = "process"
    BY <1>5, CurrentType DEF ProcessEvent
  <2>1. CASE EventOf(Current(w)) = e /\ applied' = [applied EXCEPT ![e] = @ + 1]
    <3>1. applied'[e] = applied[e] + 1 /\ applied[e] \in Nat
      BY <1>0, <2>0, <2>1
    <3> QED  BY <3>1 DEF Traced
  <2>2. CASE EventOf(Current(w)) # e /\ applied' = [applied EXCEPT ![EventOf(Current(w))] = @ + 1] /\ Goto(w, "ack")
    <3>1. \A i \in pel : EventOf(i) = e /\ HeldOrLost(i) => i \notin Unfinished(w)
      BY <2>2 DEF HeldOrLost
    <3>2. applied'[e] = applied[e]
      BY <1>0, <2>0, <2>2
    <3> QED  BY <1>3, <2>0, <2>2, <3>1, <3>2
  <2>3. CASE UNCHANGED applied /\ Goto(w, "release")
    BY <1>3, <2>0, <2>3
  <2> QED  BY <1>5, <2>1, <2>2, <2>3 DEF ProcessEvent, MarkersHold
<1>6. ASSUME NEW w \in Worker, ClearMarker(w) PROVE Traced(e)'
  <2>0. UNCHANGED <<stream, pel, applied, batch>> /\ Goto(w, "retry") /\ e \in marker /\ EventOf(Current(w)) # e
    BY <1>6 DEF ClearMarker, MarkersHold
  <2>1. \A i \in pel : EventOf(i) = e /\ HeldOrLost(i) => i \notin Unfinished(w)
    BY <2>0 DEF HeldOrLost
  <2> QED  BY <1>3, <2>0, <2>1
<1>7. ASSUME NEW w \in Worker, pc[w] \in {"retry", "ack"}, Advance(w), Ack(Current(w)) \/ pel' = pel,
             UNCHANGED <<marker, applied>>, \A i \in 1 .. Len(stream) : stream'[i] = stream[i]
      PROVE  Traced(e)'
  <2>1. /\ Unfinished(w)' = Unfinished(w) \ {Current(w)}
        /\ \A v \in Worker : v # w => pc'[v] = pc[v] /\ batch'[v] = batch[v]
    BY <1>7, AdvanceEffect
  <2>2. Current(w) \in Unfinished(w)
    BY <1>7, CurrentUnfinished
  <2>3. ASSUME NEW i \in pel, EventOf(i) = e, HeldOrLost(i)
        PROVE  i \in pel' /\ EventOf(i)' = e /\ HeldOrLost(i)'
    <3>1. i \notin Unfinished(w)
      BY <1>7, <2>3 DEF HeldOrLost
    <3>2. i \in pel' /\ EventOf(i)' = e
      BY <1>7, <1>a, <2>2, <2>3, <3>1 DEF Ack, EventOf
    <3>3. i \notin Unfinished(w)'
      BY <2>1, <3>1
    <3> QED  BY <2>1, <2>3, <3>2, <3>3 DEF HeldOrLost, Unfinished, Current
  <2> QED  BY <1>7, <2>3, TracedKept DEF Marked
<1>8. ASSUME NEW w \in Worker, Retry(w) PROVE Traced(e)'
  <2>1. \A i \in 1 .. Len(stream) : stream'[i] = stream[i]
    <3>1. stream' = stream \/ \E x : stream' = Append(stream, x)
      BY <1>8 DEF Retry, MoveToRetryOrDlq
    <3> QED  BY <1>0, <3>1, AppendKeeps
  <2> QED  BY <1>7, <1>8, <2>1 DEF Retry, MoveToRetryOrDlq
<1>9. ASSUME NEW w \in Worker, AckEvent(w) PROVE Traced(e)'
  BY <1>7, <1>9 DEF AckEvent
<1>10. ASSUME NEW w \in Worker, Crash(w) PROVE Traced(e)'
  <2>1. Unfinished(w)' = {} /\ \A v \in Worker : v # w => pc'[v] = pc[v] /\ batch'[v] = batch[v]
    BY <1>10, CrashEffect
  <2>2. UNCHANGED <<stream, pel, marker, applied>>
    BY <1>10 DEF Crash, streamVars
  <2>3. \A i \in pel : HeldOrLost(i) => HeldOrLost(i)'
    BY <2>1 DEF HeldOrLost, Unfinished, Current
  <2> QED  BY <2>2, <2>3, TracedKept DEF Marked, EventOf
<1>11. CASE UNCHANGED vars
  <2>1. \A i \in pel : EventOf(i)' = EventOf(i) /\ (HeldOrLost(i)' <=> HeldOrLost(i))
    BY <1>11 DEF vars, streamVars, workerVars, EventOf, HeldOrLost, Unfinished, Current
  <2> QED  BY <1>11, <2>1, TracedKept DEF vars, streamVars, Marked
<1> QED  BY <1>1, <1>2, <1>4, <1>5, <1>6, <1>8, <1>9, <1>10, <1>11 DEF Next, Handle

\* The empty stream satisfies all three.
LEMMA DeliveryInit == Init => Tracked /\ Kept /\ Marked
<1> SUFFICES ASSUME Init PROVE Tracked /\ Kept /\ Marked
  OBVIOUS
<1>1. \A w \in Worker : batch[w] = << >> /\ Unfinished(w) = {} /\ Distinct(batch[w])
  BY DEF Init, Unfinished, Members, Distinct
<1> QED  BY <1>1 DEF Init, StreamInit, Tracked, Kept, Owed, Marked

\* Whatever fails, an event the group was given is applied, dead-lettered,
\* still has an entry that was not acknowledged, or is kept out by its marker.
THEOREM LeftBehindOnlyByItsMarker == Spec => []LeftBehindIsMarked
<1>1. Kept => LeftBehindIsMarked
  BY DEF Kept, Safe, Awaits, LeftBehindIsMarked, Accounted
<1> QED  BY <1>1, DeliveryInit, TrackedStep, KeptStep, StreamTypeCorrect, PTL DEF Spec

\* While Redis answers the marker commands and no handler raises after its
\* commit, no event the group was given is lost, whatever else fails.
THEOREM NoEventDropped == Spec => []NothingDropped
<1>1. TypeOK /\ Tracked /\ (MarkersHold => Marked) /\ [Next]_vars => (MarkersHold => Marked)'
  <2> SUFFICES ASSUME TypeOK, Tracked, MarkersHold => Marked, [Next]_vars, MarkersHold' PROVE Marked'
    OBVIOUS
  <2>1. MarkersHold
    BY DEF MarkersHold, Next, vars
  <2> QED  BY <2>1, MarkedStep
<1>2. TypeOK /\ Tracked /\ Kept /\ (MarkersHold => Marked) => NothingDropped
  <2> SUFFICES ASSUME TypeOK, Tracked, Kept, Marked, NEW e \in Event, Owed(e) # {}, e \in marker PROVE Accounted(e)
    BY DEF NothingDropped, Kept, Safe, Awaits, Accounted
  <2>1. CASE applied[e] > 0
    BY <2>1 DEF Accounted
  <2>2. ASSUME NEW i \in pel, EventOf(i) = e PROVE Accounted(e)
    <3>1. i \in 1 .. Len(stream) /\ since < i /\ since \in Nat /\ group = "ready"
      BY <2>2 DEF TypeOK, StreamTypeOK, Tracked
    <3>2. i \in Owed(e)
      BY <2>2, <3>1 DEF Owed
    <3> QED  BY <2>2, <3>2 DEF Accounted
  <2> QED  BY <2>1, <2>2 DEF Marked, Traced
<1> QED  BY <1>1, <1>2, DeliveryInit, TrackedStep, KeptStep, StreamTypeCorrect, PTL DEF Spec
-----------------------------------------------------------------------------
(* The consumers keep the promise of EffectOnce.                           *)

\* The events of the entries the group has still to read or to acknowledge.
OpenEvents == {EventOf(i) : i \in Awaited}

\* An awaited entry is in the stream, after the group's start, and its group
\* exists.
LEMMA AwaitedType ==
    ASSUME TypeOK, Tracked, NEW i \in Awaited
    PROVE  i \in 1 .. Len(stream) /\ since < i /\ group = "ready" /\ EventOf(i) \in Event
<1>0. /\ stream \in Seq(Entry) /\ Len(stream) \in Nat /\ next \in Nat /\ since \in Nat /\ since <= next
      /\ next <= Len(stream) /\ pel \subseteq 1 .. next /\ group \in {"absent", "ready"}
  BY DEF TypeOK, StreamTypeOK, Tracked
<1>1. i \in 1 .. Len(stream) /\ since < i /\ group = "ready"
  <2>1. CASE i \in pel
    BY <1>0, <2>1 DEF Tracked
  <2>2. CASE i \in next + 1 .. Len(stream) /\ group = "ready"
    BY <1>0, <2>2
  <2> QED  BY <2>1, <2>2 DEF Awaited
<1>2. stream[i] \in Entry
  BY <1>0, <1>1
<1> QED  BY <1>1, <1>2 DEF EventOf, Entry

\* An acknowledgement, whether or not it reaches Redis, closes the event of its
\* entry or no event.
LEMMA AckOpens ==
    ASSUME TypeOK, Tracked, NEW c \in pel, Ack(c), UNCHANGED <<stream, group, next>>
    PROVE  OpenEvents' = OpenEvents \/ OpenEvents' = OpenEvents \ {EventOf(c)}
<1>0. next \in Nat /\ Len(stream) \in Nat /\ pel \subseteq 1 .. next
  BY DEF TypeOK, StreamTypeOK
<1>1. Awaited' = Awaited \/ Awaited' = Awaited \ {c}
  <2>1. c \notin next + 1 .. Len(stream)
    BY <1>0
  <2> QED  BY <2>1 DEF Ack, Awaited
<1>2. \A i : EventOf(i)' = EventOf(i)
  BY DEF EventOf
<1>3. CASE Awaited' = Awaited
  BY <1>2, <1>3 DEF OpenEvents
<1>4. CASE Awaited' = Awaited \ {c} /\ \E j \in Awaited : j # c /\ EventOf(j) = EventOf(c)
  <2>1. OpenEvents \subseteq OpenEvents'
    BY <1>2, <1>4 DEF OpenEvents
  <2>2. OpenEvents' \subseteq OpenEvents
    BY <1>2, <1>4 DEF OpenEvents
  <2> QED  BY <2>1, <2>2
<1>5. CASE Awaited' = Awaited \ {c} /\ \A j \in Awaited : j # c => EventOf(j) # EventOf(c)
  <2>1. OpenEvents \ {EventOf(c)} \subseteq OpenEvents'
    BY <1>2, <1>5 DEF OpenEvents
  <2>2. OpenEvents' \subseteq OpenEvents \ {EventOf(c)}
    BY <1>2, <1>5 DEF OpenEvents
  <2> QED  BY <2>1, <2>2
<1> QED  BY <1>1, <1>3, <1>4, <1>5

\* Publishing opens the event when there is a group to read it.
LEMMA PublishOpens ==
    ASSUME TypeOK, Tracked, NEW x, stream' = Append(stream, x), UNCHANGED <<group, next, pel>>
    PROVE  IF group = "ready" THEN OpenEvents' = OpenEvents \cup {x.event} ELSE OpenEvents' = OpenEvents
<1>0. stream \in Seq(Entry) /\ Len(stream) \in Nat /\ next \in Nat /\ next <= Len(stream)
  BY DEF TypeOK, StreamTypeOK
<1>1. /\ Len(stream') = Len(stream) + 1 /\ stream'[Len(stream) + 1] = x
      /\ \A i \in 1 .. Len(stream) : stream'[i] = stream[i]
  BY <1>0
<1>2. \A i \in Awaited : EventOf(i)' = EventOf(i)
  BY <1>1, AwaitedType DEF EventOf
<1>3. CASE group = "ready"
  <2>1. Awaited' = Awaited \cup {Len(stream) + 1}
    BY <1>0, <1>1, <1>3 DEF Awaited
  <2>2. \A i : i = Len(stream) + 1 => EventOf(i)' = x.event
    BY <1>1 DEF EventOf
  <2>3. OpenEvents' \subseteq OpenEvents \cup {x.event}
    BY <1>2, <2>1, <2>2 DEF OpenEvents
  <2>4. OpenEvents \cup {x.event} \subseteq OpenEvents'
    BY <1>2, <2>1, <2>2 DEF OpenEvents
  <2> QED  BY <1>3, <2>3, <2>4
<1>4. CASE group # "ready"
  <2>1. Awaited' = {} /\ Awaited = {}
    BY <1>4 DEF Awaited, Tracked, TypeOK, StreamTypeOK
  <2> QED  BY <1>4, <2>1 DEF OpenEvents
<1> QED  BY <1>3, <1>4

\* Every step of producers and consumers is a step of the promise, or none.
LEMMA PromiseStep ==
    TypeOK /\ Tracked /\ (MarkersHold => Claimed) /\ NothingDropped' /\ [Next]_vars
        => [Promise!Next]_(Promise!effectVars)
<1> SUFFICES ASSUME TypeOK, Tracked, MarkersHold => Claimed, NothingDropped', [Next]_vars
             PROVE  [Promise!Next]_(Promise!effectVars)
  OBVIOUS
<1>0. /\ stream \in Seq(Entry) /\ Len(stream) \in Nat /\ next \in Nat /\ next <= Len(stream) /\ since \in Nat
      /\ pel \subseteq 1 .. next /\ applied \in [Event -> Nat]
  BY DEF TypeOK, StreamTypeOK
<1>f. MarkersHold' = MarkersHold
  BY DEF MarkersHold, Next, vars
<1>s. ASSUME OpenEvents' = OpenEvents, UNCHANGED <<applied, dlq>> PROVE UNCHANGED Promise!effectVars
  BY <1>f, <1>s DEF Promise!effectVars, OpenEvents
<1>a. ASSUME UNCHANGED <<stream, group, next, pel>> PROVE OpenEvents' = OpenEvents
  BY <1>a DEF OpenEvents, Awaited, EventOf
<1>c. ASSUME NEW w \in Worker, pc[w] # "read"
      PROVE  Current(w) \in pel /\ Current(w) \in Awaited /\ EventOf(Current(w)) \in Event /\ EventOf(Current(w)) \in OpenEvents
  BY <1>c, CurrentUnfinished, CurrentType DEF Awaited, OpenEvents
<1>1. ASSUME NEW e \in Event, Publish(e) PROVE [Promise!Next]_(Promise!effectVars)
  <2>1. UNCHANGED <<group, next, pel, applied, dlq>> /\ stream' = Append(stream, [event |-> e, attempt |-> 0])
    BY <1>1 DEF Publish
  <2>2. OpenEvents' = OpenEvents \cup {e} \/ OpenEvents' = OpenEvents
    BY <2>1, PublishOpens
  <2>3. CASE OpenEvents' = OpenEvents \cup {e}
    <3>1. Promise!Accept(e)
      BY <2>1, <2>3 DEF Promise!Accept, OpenEvents
    <3> QED  BY <1>f, <3>1 DEF Promise!Next
  <2>4. CASE OpenEvents' = OpenEvents
    BY <1>s, <2>1, <2>4
  <2> QED  BY <2>2, <2>3, <2>4
<1>2. CASE EnsureGroup
  <2>1. Awaited = {}
    BY <1>2 DEF EnsureGroup, Awaited, Tracked
  <2>2. Awaited' = {}
    <3>1. pel' = {} /\ next' = Len(stream) /\ stream' = stream
      BY <1>2 DEF EnsureGroup, Tracked
    <3> QED  BY <1>0, <3>1 DEF Awaited
  <2>3. OpenEvents' = OpenEvents
    BY <2>1, <2>2 DEF OpenEvents
  <2> QED  BY <1>2, <1>s, <2>3 DEF EnsureGroup
<1>3. ASSUME NEW w \in Worker, Read(w) PROVE [Promise!Next]_(Promise!effectVars)
  <2>1. PICK n \in Nat \ {0} : /\ next' = next + n /\ next' <= Len(stream) /\ group = "ready"
                               /\ pel' = pel \cup (next + 1 .. next + n)
    BY <1>3, ReadEffect
  <2>2. UNCHANGED <<stream, group, applied, dlq>>
    BY <1>3 DEF Read, ReadGroup
  <2>3. Awaited' = Awaited
    BY <1>0, <2>1, <2>2 DEF Awaited
  <2>4. OpenEvents' = OpenEvents
    BY <2>2, <2>3 DEF OpenEvents, EventOf
  <2> QED  BY <1>s, <2>2, <2>4
<1>4. ASSUME NEW w \in Worker, MarkEvent(w) \/ ClearMarker(w) \/ Crash(w) PROVE [Promise!Next]_(Promise!effectVars)
  <2>1. UNCHANGED <<stream, group, next, pel, applied, dlq>>
    BY <1>4 DEF MarkEvent, ClearMarker, Crash, streamVars
  <2> QED  BY <1>a, <1>s, <2>1
<1>5. ASSUME NEW w \in Worker, ProcessEvent(w) PROVE [Promise!Next]_(Promise!effectVars)
  <2>1. UNCHANGED <<stream, group, next, pel, dlq>> /\ pc[w] = "process"
    BY <1>5 DEF ProcessEvent
  <2>2. OpenEvents' = OpenEvents
    BY <1>a, <2>1
  <2>3. PICK e : e = EventOf(Current(w)) /\ e \in Event /\ e \in OpenEvents
    BY <1>c, <2>1
  <2>4. MarkersHold => applied[e] = 0
    BY <2>1, <2>3 DEF Claimed, Holds
  <2>5. CASE applied' = [applied EXCEPT ![e] = @ + 1]
    <3>1. Promise!TakeEffect(e)
      BY <2>1, <2>2, <2>3, <2>4, <2>5 DEF Promise!TakeEffect, OpenEvents
    <3> QED  BY <1>f, <2>3, <3>1 DEF Promise!Next
  <2>6. CASE UNCHANGED applied
    BY <1>s, <2>1, <2>2, <2>6
  <2> QED  BY <1>5, <2>3, <2>5, <2>6 DEF ProcessEvent
<1>6. ASSUME NEW w \in Worker, Retry(w) PROVE [Promise!Next]_(Promise!effectVars)
  <2>1. UNCHANGED <<group, next, applied>> /\ pc[w] = "retry" /\ MoveToRetryOrDlq(Current(w))
    BY <1>6 DEF Retry
  <2>2. PICK c : c = Current(w) /\ c \in pel /\ EventOf(c) \in Event /\ EventOf(c) \in OpenEvents
    BY <1>c, <2>1
  <2>3. CASE stream' = Append(stream, [event |-> EventOf(c), attempt |-> stream[c].attempt + 1]) /\ Ack(c) /\ UNCHANGED dlq
    <3> DEFINE e == EventOf(c)
    <3>1. /\ Len(stream') = Len(stream) + 1 /\ stream'[Len(stream) + 1].event = e
          /\ \A i \in 1 .. Len(stream) : stream'[i] = stream[i]
      BY <1>0, <2>3
    <3>2. group = "ready"
      BY <2>2, AwaitedType DEF Awaited
    <3>3. \A i \in Awaited : EventOf(i)' = EventOf(i)
      BY <3>1, AwaitedType DEF EventOf
    <3>4. PICK j : j = Len(stream) + 1
      OBVIOUS
    <3>5. EventOf(j)' = e /\ j \in Awaited'
      <4>1. j \in next + 1 .. Len(stream')
        BY <1>0, <2>1, <3>1, <3>4
      <4> QED  BY <2>1, <3>1, <3>2, <3>4, <4>1 DEF Awaited, EventOf
    <3>6. Awaited' \subseteq Awaited \cup {j} /\ Awaited \ {c} \subseteq Awaited'
      BY <1>0, <2>1, <2>3, <3>1, <3>2, <3>4 DEF Awaited, Ack
    <3>7. e \in OpenEvents'
      BY <3>5 DEF OpenEvents
    <3>8. OpenEvents' \subseteq OpenEvents
      BY <2>2, <3>3, <3>5, <3>6 DEF OpenEvents
    <3>9. OpenEvents \subseteq OpenEvents'
      <4> SUFFICES ASSUME NEW i \in Awaited PROVE EventOf(i) \in OpenEvents'
        BY DEF OpenEvents
      <4>1. CASE i = c
        BY <3>7, <4>1
      <4>2. CASE i # c
        BY <3>3, <3>6, <4>2 DEF OpenEvents
      <4> QED  BY <4>1, <4>2
    <3> QED  BY <1>s, <2>1, <2>3, <3>8, <3>9
  <2>4. CASE dlq' = dlq \cup {EventOf(c)} /\ Ack(c) /\ UNCHANGED stream
    <3>1. OpenEvents' = OpenEvents \/ OpenEvents' = OpenEvents \ {EventOf(c)}
      BY <2>1, <2>2, <2>4, AckOpens
    <3>2. Promise!PutAside(EventOf(c))
      BY <2>1, <2>2, <2>4, <3>1 DEF Promise!PutAside, OpenEvents
    <3> QED  BY <1>f, <2>2, <3>2 DEF Promise!Next
  <2>5. CASE UNCHANGED <<stream, dlq, pel>>
    BY <1>a, <1>s, <2>1, <2>5
  <2> QED  BY <2>1, <2>2, <2>3, <2>4, <2>5 DEF MoveToRetryOrDlq
<1>7. ASSUME NEW w \in Worker, AckEvent(w) PROVE [Promise!Next]_(Promise!effectVars)
  <2>1. UNCHANGED <<stream, group, since, next, dlq, applied>> /\ pc[w] = "ack" /\ Ack(Current(w))
    BY <1>7 DEF AckEvent
  <2>2. PICK c : c = Current(w) /\ c \in pel /\ c \in Awaited /\ EventOf(c) \in Event /\ EventOf(c) \in OpenEvents
    BY <1>c, <2>1
  <2>3. OpenEvents' = OpenEvents \/ OpenEvents' = OpenEvents \ {EventOf(c)}
    BY <2>1, <2>2, AckOpens
  <2>4. CASE OpenEvents' = OpenEvents
    BY <1>s, <2>1, <2>4
  <2>5. CASE OpenEvents' = OpenEvents \ {EventOf(c)}
    <3>0. PICK e : e = EventOf(c)
      OBVIOUS
    <3>1. c \in Owed(e)'
      BY <2>1, <2>2, <3>0, AwaitedType DEF Owed, EventOf
    <3>2. MarkersHold => Accounted(e)'
      BY <1>f, <2>2, <3>0, <3>1 DEF NothingDropped
    <3>3. ~ \E i \in Owed(e)' : i > next' \/ i \in pel'
      <4> SUFFICES ASSUME NEW i \in Owed(e)', i > next' \/ i \in pel' PROVE FALSE
        OBVIOUS
      <4>1. i \in 1 .. Len(stream) /\ group' = "ready" /\ EventOf(i)' = e
        BY <2>1 DEF Owed
      <4>2. i \in Awaited'
        BY <1>0, <2>1, <4>1 DEF Awaited
      <4>3. e \in OpenEvents'
        BY <4>1, <4>2 DEF OpenEvents
      <4> QED  BY <2>5, <3>0, <4>3
    <3>4. MarkersHold => applied[e] > 0 \/ e \in dlq
      BY <2>1, <3>2, <3>3 DEF Accounted
    <3>5. OpenEvents' = OpenEvents \ {e} /\ e \in OpenEvents /\ e \in Event
      BY <2>2, <2>5, <3>0
    <3>6. Promise!Close(e)
      BY <2>1, <3>4, <3>5 DEF Promise!Close, OpenEvents
    <3> QED  BY <1>f, <3>5, <3>6 DEF Promise!Next
  <2> QED  BY <2>3, <2>4, <2>5
<1>8. CASE UNCHANGED vars
  BY <1>8, <1>a, <1>s DEF vars, streamVars
<1> QED  BY <1>1, <1>2, <1>3, <1>4, <1>5, <1>6, <1>7, <1>8 DEF Next, Producers, Handle

\* The stream's producers and consumers keep the promise of EffectOnce, for any
\* number of events and consumers and under every set of faults: an event takes
\* effect only while it has an entry in the group, and while the markers hold
\* it does so once, and its last entry goes only after that or its dead letter.
THEOREM StreamKeepsPromise == Spec => ImplementsPromise
<1>1. Init => Promise!Init
  BY DEF Init, StreamInit, Promise!Init, Awaited, MarkersHold
<1>2. Spec => Promise!Spec
  BY <1>1, PromiseStep, ClaimedAlways, DeliveryInit, TrackedStep, StreamTypeCorrect, NoEventDropped, PTL
  DEF Spec, Promise!Spec
<1> QED  BY <1>2 DEF ImplementsPromise
=============================================================================
