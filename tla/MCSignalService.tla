-------------------------- MODULE MCSignalService --------------------------
(* Two clients, up to two servers at a time, one of which is interrupted. *)
EXTENDS SignalService
=============================================================================
