------------------------ MODULE MCNotificationOutbox ------------------------
(* TLC instance of NotificationOutbox.                                     *)
EXTENDS NotificationOutbox, TLC

Interchangeable == Permutations(Dispatcher)
=============================================================================
