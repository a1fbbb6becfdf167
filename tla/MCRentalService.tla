-------------------------- MODULE MCRentalService --------------------------
(* TLC instance of RentalService.                                          *)
EXTENDS RentalService, TLC

Symmetry == Permutations(User) \cup Permutations(Station) \cup Permutations(Rental)
            \cup Permutations(Order) \cup Permutations(Worker) \cup Permutations(Battery)
=============================================================================
