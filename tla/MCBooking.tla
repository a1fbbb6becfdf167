------------------------------ MODULE MCBooking ------------------------------
(* TLC instance of Booking.                                                *)
EXTENDS Booking, TLC

Interchangeable == Permutations(User) \cup Permutations(Battery) \cup Permutations(BookingId) \cup Permutations(Worker)

\* No action reads the ledger or the payments, and no property looks at those
\* of rows the ghosts name: states that differ only there count as one.
Relevant ==
    <<booking, due, balance, req, overtaken, doubled \ overtaken, miscounted,
      [u \in User |-> IF u \in miscounted THEN 0 ELSE ledger[u]],
      [r \in BookingId |-> IF r \in overtaken THEN 0 ELSE payments[r]]>>
=============================================================================
