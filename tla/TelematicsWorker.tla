-------------------------- MODULE TelematicsWorker --------------------------
(***************************************************************************)
(* _run_stream_worker with process_batch_fn = _process_telematics_batch:   *)
(* the entries of a batch are marked one by one, persisted in a single     *)
(* transaction, and then acknowledged or moved to retry one by one.        *)
(***************************************************************************)
EXTENDS EventStream

CONSTANT Malformed      \* events whose payload TelemeticsDataIngest refuses

ASSUME MalformedAssumption == Malformed \subseteq Event

VARIABLES
    pc,             \* where each consumer is
    batch,          \* ids of its batch not looked at yet
    mine,           \* message_data_map: ids it has taken, in order
    successful,     \* ids to acknowledge
    failed,         \* ids to retry
    unguarded       \* ghost: events a consumer took without knowing of a marker

workerVars == <<pc, batch, mine, successful, failed, unguarded>>
vars == <<streamVars, workerVars, faults>>

Init ==
    /\ StreamInit
    /\ pc = [w \in Worker |-> "read"]
    /\ batch = [w \in Worker |-> << >>]
    /\ mine = [w \in Worker |-> << >>]
    /\ successful = [w \in Worker |-> {}]
    /\ failed = [w \in Worker |-> {}]
    /\ unguarded = {}

Goto(w, to) == pc' = [pc EXCEPT ![w] = to]

Ids(seq) == {seq[k] : k \in DOMAIN seq}

-----------------------------------------------------------------------------
Read(w) ==
    /\ pc[w] = "read"
    /\ \E n \in 1 .. BatchSize : /\ ReadGroup(n)
                                 /\ batch' = [batch EXCEPT ![w] = NewIds(n)]
    /\ Goto(w, "mark")
    /\ UNCHANGED <<mine, successful, failed, unguarded>>

\* Mutant: a duplicate is taken for a new message.
MarkMessage_always(w) ==
    LET i == Head(batch[w]) IN
    /\ pc[w] = "mark"
    /\ batch[w] # << >>
    /\ marker' = marker \cup {EventOf(i)}
    /\ mine' = [mine EXCEPT ![w] = Append(mine[w], i)]
    /\ batch' = [batch EXCEPT ![w] = Tail(batch[w])]
    /\ UNCHANGED <<stream, group, since, next, pel, dlq, applied, pc, successful, failed, unguarded>>

\* The first loop, one message: validation, then _acquire_once, which takes the
\* message without a marker when Redis does not answer.  (A SET that is executed
\* and whose answer is lost is one of the other two cases.)
MarkMessage(w) ==
    LET i == Head(batch[w])
        e == EventOf(i)
    IN
    /\ pc[w] = "mark"
    /\ batch[w] # << >>
    /\ batch' = [batch EXCEPT ![w] = Tail(batch[w])]
    /\ \/ /\ e \in Malformed
          /\ failed' = [failed EXCEPT ![w] = failed[w] \cup {i}]
          /\ UNCHANGED <<marker, mine, successful, unguarded>>
       \/ /\ e \notin Malformed /\ e \in marker
          /\ successful' = [successful EXCEPT ![w] = successful[w] \cup {i}]
          /\ UNCHANGED <<marker, mine, failed, unguarded>>
       \/ /\ e \notin Malformed /\ e \notin marker
          /\ marker' = marker \cup {e}
          /\ mine' = [mine EXCEPT ![w] = Append(mine[w], i)]
          /\ UNCHANGED <<successful, failed, unguarded>>
       \/ /\ e \notin Malformed /\ "marker" \in faults
          /\ mine' = [mine EXCEPT ![w] = Append(mine[w], i)]
          /\ unguarded' = unguarded \cup {e}
          /\ UNCHANGED <<marker, successful, failed>>
    /\ UNCHANGED <<stream, group, since, next, pel, dlq, applied, pc>>

\* _release_once, which swallows a failure: the marker then stays.
Release(ids) ==
    LET es == {EventOf(i) : i \in ids} IN
    \E kept \in SUBSET es :
        /\ kept # {} => "marker" \in faults
        /\ marker' = marker \ (es \ kept)

\* Everything persisted and committed.
CommitBatch(w) ==
    /\ pc[w] = "mark" /\ batch[w] = << >>
    /\ applied' = [e \in Event |-> applied[e] + Cardinality({k \in DOMAIN mine[w] : EventOf(mine[w][k]) = e})]
    /\ successful' = [successful EXCEPT ![w] = successful[w] \cup Ids(mine[w])]
    /\ Goto(w, "settle")
    /\ UNCHANGED <<stream, group, since, next, pel, dlq, marker, batch, mine, failed, unguarded>>

\* The commit raises: all of them are released and retried.
CommitFails(w) ==
    /\ pc[w] = "mark" /\ batch[w] = << >>
    /\ Release(Ids(mine[w]))
    /\ failed' = [failed EXCEPT ![w] = failed[w] \cup Ids(mine[w])]
    /\ Goto(w, "settle")
    /\ UNCHANGED <<stream, group, since, next, pel, dlq, applied, batch, mine, successful, unguarded>>

\* Mutant: every marker of the batch is released, also of what was acknowledged.
PersistFails_forgets(w) ==
    /\ pc[w] = "mark" /\ batch[w] = << >>
    /\ \E k \in DOMAIN mine[w] :
          /\ Release(Ids(mine[w]))
          /\ successful' = [successful EXCEPT ![w] = successful[w] \cup Ids(SubSeq(mine[w], 1, k - 1))]
          /\ failed' = [failed EXCEPT ![w] = failed[w] \cup Ids(SubSeq(mine[w], k, Len(mine[w])))]
    /\ Goto(w, "settle")
    /\ UNCHANGED <<stream, group, since, next, pel, dlq, applied, batch, mine, unguarded>>

\* persist_telemetry raises for message k: the session is rolled back, the
\* messages before k stay in successful, only k's marker is released, and k and
\* the messages after it are retried.
PersistFails(w) ==
    /\ pc[w] = "mark" /\ batch[w] = << >>
    /\ \E k \in DOMAIN mine[w] :
          /\ Release({mine[w][k]})
          /\ successful' = [successful EXCEPT ![w] = successful[w] \cup Ids(SubSeq(mine[w], 1, k - 1))]
          /\ failed' = [failed EXCEPT ![w] = failed[w] \cup Ids(SubSeq(mine[w], k, Len(mine[w])))]
    /\ Goto(w, "settle")
    /\ UNCHANGED <<stream, group, since, next, pel, dlq, applied, batch, mine, unguarded>>

\* The second half of the worker's loop: acknowledge, then retry.
AckMessage(w) ==
    /\ pc[w] = "settle"
    /\ \E i \in successful[w] :
          /\ Ack(i)
          /\ successful' = [successful EXCEPT ![w] = successful[w] \ {i}]
    /\ UNCHANGED <<stream, group, since, next, dlq, marker, applied, pc, batch, mine, failed, unguarded>>

RetryMessage(w) ==
    /\ pc[w] = "settle"
    /\ successful[w] = {}
    /\ \E i \in failed[w] :
          /\ MoveToRetryOrDlq(i)
          /\ failed' = [failed EXCEPT ![w] = failed[w] \ {i}]
    /\ UNCHANGED <<group, since, next, marker, applied, pc, batch, mine, successful, unguarded>>

Reset(w) ==
    /\ pc' = [pc EXCEPT ![w] = "read"]
    /\ batch' = [batch EXCEPT ![w] = << >>]
    /\ mine' = [mine EXCEPT ![w] = << >>]
    /\ successful' = [successful EXCEPT ![w] = {}]
    /\ failed' = [failed EXCEPT ![w] = {}]
    /\ UNCHANGED <<streamVars, unguarded>>

BatchDone(w) == pc[w] = "settle" /\ successful[w] = {} /\ failed[w] = {} /\ Reset(w)

\* The process dies; the one that replaces it has another consumer name.
Crash(w) == "crash" \in faults /\ pc[w] # "read" /\ Reset(w)

-----------------------------------------------------------------------------
Handle(w) ==
    \/ MarkMessage(w)
    \/ CommitBatch(w) \/ CommitFails(w) \/ PersistFails(w)
    \/ AckMessage(w) \/ RetryMessage(w) \/ BatchDone(w)

Producers == (EnsureGroup \/ \E e \in Event : Publish(e)) /\ UNCHANGED workerVars

Next ==
    /\ Producers \/ \E w \in Worker : Read(w) \/ Handle(w) \/ Crash(w)
    /\ UNCHANGED faults

Spec == Init /\ [][Next]_vars

-----------------------------------------------------------------------------
(* Properties; NothingDropped is that of EventStream.                      *)

TypeOK ==
    /\ StreamTypeOK
    /\ pc \in [Worker -> {"read", "mark", "settle"}]
    /\ \A w \in Worker : Ids(batch[w]) \cup Ids(mine[w]) \cup successful[w] \cup failed[w] \subseteq 1 .. next
    /\ unguarded \subseteq Event

\* A reading is stored at most once, however often it is published, delivered or
\* retried and whatever releases fail, unless _acquire_once let some consumer have
\* it because Redis did not answer.
StoredOnce == \A e \in Event \ unguarded : applied[e] <= 1

\* Where a reading falls out of the stream unhandled, its marker is what keeps it
\* out, so that publishing it again after the marker expires processes it; only a
\* reading that _acquire_once let through because Redis did not answer can be
\* rolled back, acknowledged and left without one.
LeftBehindIsExplained ==
    \A e \in Event \ unguarded : Owed(e) # {} => Accounted(e) \/ e \in marker
=============================================================================
