----------------------------- MODULE MCSemLock -----------------------------
(* Two terminals for semdemo, one for create, one for semrm; two sets. *)
EXTENDS SemLock
=============================================================================
