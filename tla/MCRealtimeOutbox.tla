-------------------------- MODULE MCRealtimeOutbox --------------------------
(* TLC instance of RealtimeOutbox.                                         *)
EXTENDS RealtimeOutbox
=============================================================================
