---------------------------- MODULE AtLeastOnce ----------------------------
(***************************************************************************)
(* What a transactional outbox promises: a message is confirmed only after *)
(* it was sent, it may be sent more than once before that, and it is never *)
(* sent again once it is confirmed or given up.                            *)
(* RealtimeOutbox and NotificationOutbox implement this specification.     *)
(***************************************************************************)
EXTENDS Naturals

CONSTANT Message

VARIABLES
    accepted,       \* messages whose row was committed
    sends,          \* how often each message left the system
    confirmed,      \* messages recorded as sent
    abandoned       \* messages whose attempts are used up

channelVars == <<accepted, sends, confirmed, abandoned>>

Init ==
    /\ accepted = {} /\ confirmed = {} /\ abandoned = {}
    /\ sends = [m \in Message |-> 0]

Open == accepted \ (confirmed \cup abandoned)

\* One commit accepts the messages it inserts.
Accept ==
    /\ \E N \in SUBSET (Message \ accepted) : accepted' = accepted \cup N
    /\ UNCHANGED <<sends, confirmed, abandoned>>

Send ==
    /\ \E m \in Open : sends' = [sends EXCEPT ![m] = @ + 1]
    /\ UNCHANGED <<accepted, confirmed, abandoned>>

\* One commit settles the messages of a batch.
Settle ==
    /\ \E C, A \in SUBSET Open :
          /\ C \cap A = {}
          /\ \A m \in C : sends[m] > 0
          /\ confirmed' = confirmed \cup C
          /\ abandoned' = abandoned \cup A
    /\ UNCHANGED <<accepted, sends>>

Next == Accept \/ Send \/ Settle

Spec == Init /\ [][Next]_channelVars
=============================================================================
