--------------------------- MODULE MCSemLockMod ----------------------------
(* One terminal for semdemo, one for semdemo_mod, one set. *)
EXTENDS SemLock
=============================================================================
