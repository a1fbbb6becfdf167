---------------------------- MODULE EventStream ----------------------------
(***************************************************************************)
(* Redis Streams as app/services/event_stream_service.py uses them: one    *)
(* stream, its consumer group, the dead-letter stream, and the markers of  *)
(* app/workers/event_stream_worker.py that suppress duplicates.            *)
(*                                                                         *)
(* An entry's id is its position in the stream.  A consumer reads only new *)
(* entries (">"), nobody claims another consumer's pending ones, and a     *)
(* consumer's name holds its process id: what a dead consumer had read     *)
(* stays pending for good.                                                 *)
(***************************************************************************)
EXTENDS Naturals, Sequences, FiniteSets

CONSTANTS
    Event,          \* events, by idempotency key; a producer may publish one twice
    Worker,         \* consumers of the group
    BatchSize,      \* *_STREAM_CONSUMER_BATCH_SIZE
    MaxRetries,     \* *_STREAM_MAX_RETRIES
    MaxPublished,   \* bound: producers publish while the stream is shorter
    FaultModels     \* the sets of faults a deployment may be exposed to

ASSUME StreamAssumption ==
    BatchSize \in Nat \ {0} /\ MaxRetries \in Nat /\ MaxPublished \in Nat

\* crash: a consumer dies; ack, publish, marker: that Redis command fails;
\* raise: a handler raises after its commit
Faults == {"crash", "ack", "publish", "marker", "raise"}
ASSUME FaultsAssumption == FaultModels \subseteq SUBSET Faults

VARIABLES
    stream,         \* entries, oldest first
    group,          \* whether the consumer group exists
    since,          \* the id it was created at
    next,           \* the group's last delivered id
    pel,            \* ids delivered and not acknowledged
    dlq,            \* events in the dead-letter stream
    marker,         \* events whose deduplication key is set
    applied,        \* per event, how many transactions committed its effect
    faults          \* what goes wrong in this behaviour, chosen once

streamVars == <<stream, group, since, next, pel, dlq, marker, applied>>

Entry == [event : Event, attempt : 0 .. MaxRetries]

StreamInit ==
    /\ stream = << >> /\ group = "absent" /\ since = 0 /\ next = 0 /\ pel = {}
    /\ dlq = {} /\ marker = {} /\ applied = [e \in Event |-> 0]
    /\ faults \in FaultModels

EventOf(i) == stream[i].event

-----------------------------------------------------------------------------
(* Producers.                                                              *)

\* enqueue_event, _process_telemetry and send_notification publish; a gateway
\* or broker that repeats itself publishes the same event again.
Publish(e) ==
    /\ Len(stream) < MaxPublished
    /\ stream' = Append(stream, [event |-> e, attempt |-> 0])
    /\ UNCHANGED <<group, since, next, pel, dlq, marker, applied>>

-----------------------------------------------------------------------------
(* The consumer group.                                                     *)

\* ensure_group creates the group at "$", after whatever was published before.
EnsureGroup ==
    /\ group = "absent"
    /\ group' = "ready"
    /\ since' = Len(stream)
    /\ next' = Len(stream)
    /\ UNCHANGED <<stream, pel, dlq, marker, applied>>

\* read_group hands out the next n new entries.
NewIds(n) == [k \in 1 .. n |-> next + k]

ReadGroup(n) ==
    /\ group = "ready"
    /\ next + n <= Len(stream)
    /\ next' = next + n
    /\ pel' = pel \cup (next + 1 .. next + n)
    /\ UNCHANGED <<stream, group, since, dlq, marker, applied>>

\* ack, which swallows a failure
Ack(i) ==
    \/ pel' = pel \ {i}
    \/ "ack" \in faults /\ pel' = pel

\* Mutant: one retry too many.
MoveToRetryOrDlq_offByOne(i) ==
    \/ /\ stream[i].attempt <= MaxRetries
       /\ stream' = Append(stream, [event |-> EventOf(i), attempt |-> stream[i].attempt + 1])
       /\ Ack(i)
       /\ UNCHANGED dlq
    \/ /\ stream[i].attempt > MaxRetries
       /\ dlq' = dlq \cup {EventOf(i)}
       /\ Ack(i)
       /\ UNCHANGED stream

\* move_to_retry_or_dlq: without a published id the entry is left pending.
MoveToRetryOrDlq(i) ==
    \/ /\ stream[i].attempt < MaxRetries
       /\ stream' = Append(stream, [event |-> EventOf(i), attempt |-> stream[i].attempt + 1])
       /\ Ack(i)
       /\ UNCHANGED dlq
    \/ /\ stream[i].attempt >= MaxRetries
       /\ dlq' = dlq \cup {EventOf(i)}
       /\ Ack(i)
       /\ UNCHANGED stream
    \/ "publish" \in faults /\ UNCHANGED <<stream, dlq, pel>>

-----------------------------------------------------------------------------
(* Properties of every worker on such a stream.                            *)

StreamTypeOK ==
    /\ stream \in Seq(Entry)
    /\ group \in {"absent", "ready"}
    /\ since \in 0 .. Len(stream)
    /\ next \in 0 .. Len(stream)
    /\ pel \subseteq 1 .. next
    /\ dlq \subseteq Event
    /\ marker \subseteq Event
    /\ applied \in [Event -> Nat]
    /\ faults \in FaultModels

\* Entries the group will hand out or has handed out.
Owed(e) == {i \in 1 .. Len(stream) : group = "ready" /\ i > since /\ EventOf(i) = e}

Accounted(e) == applied[e] > 0 \/ e \in dlq \/ \E i \in Owed(e) : i > next \/ i \in pel

\* Redis answers the marker commands and no handler raises after its commit.
MarkersHold == "marker" \notin faults /\ "raise" \notin faults

Once == \A e \in Event : applied[e] <= 1

\* While the markers hold, the effect of an event is committed at most once,
\* however often it is published, delivered or retried: what the deduplication
\* markers are for.
AppliedOnce == MarkersHold => Once

\* While the markers hold, an event the group was given is applied, in the
\* dead-letter stream, or still has an entry that was not acknowledged: a
\* consumer never acknowledges the last trace of an event it did not handle.
NothingDropped == MarkersHold => \A e \in Event : Owed(e) # {} => Accounted(e)

\* Where an event does fall out of the stream unhandled, its marker is what
\* keeps it out: publishing it again after the marker expires processes it.
LeftBehindIsMarked == \A e \in Event : Owed(e) # {} => Accounted(e) \/ e \in marker
=============================================================================
