----------------------------- MODULE MCLogistics -----------------------------
EXTENDS Logistics, TLC

CONSTANTS w1, s1

\* At most one shelf, s1, in warehouse w1, with room for one battery.
Racks == [s \in Shelves |-> w1]
OneSlot == [s \in Shelves |-> 1]

Interchangeable == Permutations(Batteries) \cup Permutations(Orders) \cup Permutations(Clerks) \cup Permutations(Drivers)
=============================================================================
