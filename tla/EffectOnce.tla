---------------------------- MODULE EffectOnce -----------------------------
(***************************************************************************)
(* What a deduplicated stream promises about the effect of an event: only  *)
(* an event that is open takes effect, and while the deduplication can be  *)
(* relied on it takes effect once at most, and is closed only after it did *)
(* or after it was put aside.  An event may be accepted again at any time. *)
(* WebhookWorker implements this specification.                            *)
(***************************************************************************)
EXTENDS Naturals

CONSTANT Event

VARIABLES
    reliable,       \* whether the deduplication can be relied on
    open,           \* events that are accepted and not finished with
    effects,        \* how often each event took effect
    aside           \* events put aside for an operator

effectVars == <<reliable, open, effects, aside>>

Init ==
    /\ reliable \in BOOLEAN
    /\ open = {} /\ aside = {}
    /\ effects = [e \in Event |-> 0]

Accept(e) ==
    /\ open' = open \cup {e}
    /\ UNCHANGED <<effects, aside>>

TakeEffect(e) ==
    /\ e \in open
    /\ reliable => effects[e] = 0
    /\ effects' = [effects EXCEPT ![e] = @ + 1]
    /\ UNCHANGED <<open, aside>>

\* Another delivery of the event may keep it open.
PutAside(e) ==
    /\ e \in open
    /\ aside' = aside \cup {e}
    /\ open' \in {open, open \ {e}}
    /\ UNCHANGED effects

Close(e) ==
    /\ e \in open
    /\ reliable => effects[e] > 0 \/ e \in aside
    /\ open' = open \ {e}
    /\ UNCHANGED <<effects, aside>>

Next ==
    /\ \E e \in Event : Accept(e) \/ TakeEffect(e) \/ PutAside(e) \/ Close(e)
    /\ UNCHANGED reliable

Spec == Init /\ [][Next]_effectVars
=============================================================================
