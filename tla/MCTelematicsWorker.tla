------------------------- MODULE MCTelematicsWorker -------------------------
(* TLC instance of TelematicsWorker.                                       *)
EXTENDS TelematicsWorker, TLC

WorkerSymmetry == Permutations(Event \ Malformed) \cup Permutations(Worker)
=============================================================================
