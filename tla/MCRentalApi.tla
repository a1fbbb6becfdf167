---------------------------- MODULE MCRentalApi ----------------------------
(* TLC instance of RentalApi.                                              *)
EXTENDS RentalApi, TLC

ApiSymmetry == Permutations(User) \cup Permutations(Rental) \cup Permutations(Battery)
               \cup Permutations(Worker) \cup Permutations(Swap)
=============================================================================
