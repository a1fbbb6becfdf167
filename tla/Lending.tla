------------------------------ MODULE Lending ------------------------------
(***************************************************************************)
(* What the service layer of rentals and swaps promises about batteries: a *)
(* battery stands in a station or is with a customer, it is claimed by one *)
(* rental at most, only a battery nobody claims is claimed or exchanged,   *)
(* only a claimed one is handed out, and every one that is out comes back. *)
(* RentalService implements this specification.                            *)
(***************************************************************************)

CONSTANTS
    Battery,
    Rental,
    Station,
    Null

VARIABLES
    claim,          \* the open rentals of a battery
    place,          \* the station a battery stands in; Null: with a customer
    opened          \* rentals that are or were open

lendingVars == <<claim, place, opened>>

Init ==
    /\ claim = [b \in Battery |-> {}]
    /\ place \in [Battery -> Station]
    /\ opened = {}

\* A new rental claims a battery that stands in a station.
Claim(b, r) ==
    /\ claim[b] = {} /\ place[b] # Null
    /\ r \notin opened
    /\ claim' = [claim EXCEPT ![b] = {r}]
    /\ opened' = opened \cup {r}
    /\ UNCHANGED place

\* Rentals that were not paid for give up their batteries, where they stand.
GiveUp(B) ==
    /\ \A b \in B : claim[b] # {} /\ place[b] # Null
    /\ claim' = [b \in Battery |-> IF b \in B THEN {} ELSE claim[b]]
    /\ UNCHANGED <<place, opened>>

HandOut(b) ==
    /\ claim[b] # {} /\ place[b] # Null
    /\ place' = [place EXCEPT ![b] = Null]
    /\ UNCHANGED <<claim, opened>>

BringBack(b, s) ==
    /\ place[b] = Null
    /\ claim' = [claim EXCEPT ![b] = {}]
    /\ place' = [place EXCEPT ![b] = s]
    /\ UNCHANGED opened

\* The rental that has b out goes on with c.
Exchange(b, c, s) ==
    /\ place[b] = Null
    /\ claim[c] = {} /\ place[c] = s
    /\ claim' = [claim EXCEPT ![b] = {}, ![c] = claim[b]]
    /\ place' = [place EXCEPT ![b] = s, ![c] = Null]
    /\ UNCHANGED opened

Next ==
    \/ \E B \in SUBSET Battery : GiveUp(B)
    \/ \E b \in Battery :
          \/ \E r \in Rental : Claim(b, r)
          \/ HandOut(b)
          \/ \E s \in Station : BringBack(b, s) \/ \E c \in Battery : Exchange(b, c, s)

Spec == Init /\ [][Next]_lendingVars
=============================================================================
