--------------------------- MODULE WebhookWorker ---------------------------
(***************************************************************************)
(* _run_stream_worker with process_fn = _process_webhook_event: entries    *)
(* one at a time, each guarded by the marker of                            *)
(* RazorpayWebhookService.try_mark_event_processing.                       *)
(*                                                                         *)
(* The steps of one entry are Redis commands and one database transaction, *)
(* and a consumer may die before each of them.                             *)
(***************************************************************************)
EXTENDS EventStream

VARIABLES
    pc,             \* where each consumer is
    batch           \* ids it has read and not finished, the current one first

workerVars == <<pc, batch>>
vars == <<streamVars, workerVars, faults>>

PcLabel == {"read", "mark", "process", "release", "retry", "ack"}

Init == StreamInit /\ pc = [w \in Worker |-> "read"] /\ batch = [w \in Worker |-> << >>]

Current(w) == Head(batch[w])

Goto(w, to) == pc' = [pc EXCEPT ![w] = to]

\* On to the next entry of the batch, or to the next read.
Advance(w) ==
    /\ batch' = [batch EXCEPT ![w] = Tail(batch[w])]
    /\ Goto(w, IF Len(batch[w]) > 1 THEN "mark" ELSE "read")

-----------------------------------------------------------------------------
Read(w) ==
    /\ pc[w] = "read"
    /\ \E n \in 1 .. BatchSize : /\ ReadGroup(n)
                                 /\ batch' = [batch EXCEPT ![w] = NewIds(n)]
    /\ Goto(w, "mark")

\* Mutant: an event that is being processed is processed again.
MarkEvent_always(w) ==
    /\ pc[w] = "mark"
    /\ marker' = marker \cup {EventOf(Current(w))}
    /\ Goto(w, "process")
    /\ UNCHANGED <<stream, group, since, next, pel, dlq, applied, batch>>

\* SET key NX.  A marked event is a duplicate and is only acknowledged; when
\* Redis does not answer the event is processed without a marker.
MarkEvent(w) ==
    /\ pc[w] = "mark"
    /\ \/ /\ EventOf(Current(w)) \notin marker
          /\ marker' = marker \cup {EventOf(Current(w))}
          /\ Goto(w, "process")
       \/ /\ EventOf(Current(w)) \in marker
          /\ Goto(w, "ack")
          /\ UNCHANGED marker
       \/ /\ "marker" \in faults
          /\ Goto(w, "process")
          /\ UNCHANGED marker
    /\ UNCHANGED <<stream, group, since, next, pel, dlq, applied, batch>>

\* process_event: its transaction commits, or it raises and nothing is kept, or it
\* raises in what follows the commit (the notification of a failed recharge).
ProcessEvent(w) ==
    /\ pc[w] = "process"
    /\ \/ /\ applied' = [applied EXCEPT ![EventOf(Current(w))] = @ + 1]
          /\ \/ Goto(w, "ack")
             \/ "raise" \in faults /\ Goto(w, "release")
       \/ /\ Goto(w, "release")
          /\ UNCHANGED applied
    /\ UNCHANGED <<stream, group, since, next, pel, dlq, marker, batch>>

\* Mutant: the marker outlives the failure.
ClearMarker_never(w) ==
    /\ pc[w] = "release"
    /\ Goto(w, "retry")
    /\ UNCHANGED <<streamVars, batch>>

\* clear_processing_marker
ClearMarker(w) ==
    /\ pc[w] = "release"
    /\ \/ marker' = marker \ {EventOf(Current(w))}
       \/ "marker" \in faults /\ UNCHANGED marker
    /\ Goto(w, "retry")
    /\ UNCHANGED <<stream, group, since, next, pel, dlq, applied, batch>>

\* Mutant: the entry is acknowledged and not published again.
Retry_ackOnly(w) ==
    /\ pc[w] = "retry"
    /\ Ack(Current(w))
    /\ Advance(w)
    /\ UNCHANGED <<stream, group, since, next, dlq, marker, applied>>

Retry(w) ==
    /\ pc[w] = "retry"
    /\ MoveToRetryOrDlq(Current(w))
    /\ Advance(w)
    /\ UNCHANGED <<group, since, next, marker, applied>>

AckEvent(w) ==
    /\ pc[w] = "ack"
    /\ Ack(Current(w))
    /\ Advance(w)
    /\ UNCHANGED <<stream, group, since, next, dlq, marker, applied>>

\* The process dies, or is told to stop between two entries of a batch.  The
\* process that replaces it has another consumer name.
Crash(w) ==
    /\ "crash" \in faults
    /\ batch[w] # << >>
    /\ batch' = [batch EXCEPT ![w] = << >>]
    /\ Goto(w, "read")
    /\ UNCHANGED streamVars

-----------------------------------------------------------------------------
Handle(w) == MarkEvent(w) \/ ProcessEvent(w) \/ ClearMarker(w) \/ Retry(w) \/ AckEvent(w)

Producers == (EnsureGroup \/ \E e \in Event : Publish(e)) /\ UNCHANGED workerVars

Next ==
    /\ Producers \/ \E w \in Worker : Read(w) \/ Handle(w) \/ Crash(w)
    /\ UNCHANGED faults

Spec == Init /\ [][Next]_vars

\* Every worker thread keeps running its loop.
FairSpec ==
    /\ Spec
    /\ WF_vars(EnsureGroup /\ UNCHANGED <<workerVars, faults>>)
    /\ \A w \in Worker : WF_vars(Read(w) /\ UNCHANGED faults) /\ WF_vars(Handle(w) /\ UNCHANGED faults)

-----------------------------------------------------------------------------
(* Properties.                                                             *)

TypeOK ==
    /\ StreamTypeOK
    /\ pc \in [Worker -> PcLabel]
    /\ batch \in [Worker -> Seq(1 .. Len(stream))]
    /\ \A w \in Worker : batch[w] = << >> <=> pc[w] = "read"

\* While no consumer dies and Redis answers, every event the group is given is
\* in the end applied or dead-lettered: retries do not go round for ever.
EventuallySettled == \A e \in Event : Owed(e) # {} ~> applied[e] > 0 \/ e \in dlq

\* Entries the group has still to read, or to acknowledge.
Awaited == pel \cup {i \in next + 1 .. Len(stream) : group = "ready"}

\* The promise of the stream: the events of those entries are open, and the
\* dead-letter stream is what was put aside.
Promise == INSTANCE EffectOnce WITH
               reliable <- MarkersHold,
               open     <- {EventOf(i) : i \in Awaited},
               effects  <- applied,
               aside    <- dlq

\* Every step of a consumer is a step of that promise, or none: an event whose
\* entries are all acknowledged has no effect any more, and while the markers
\* hold, the last acknowledgement comes after its effect or its dead letter.
ImplementsPromise == Promise!Spec
=============================================================================
