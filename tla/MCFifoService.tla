---------------------------- MODULE MCFifoService --------------------------
(* Two clients, two commands each, one after the other with any server.    *)
EXTENDS FifoService
=============================================================================
