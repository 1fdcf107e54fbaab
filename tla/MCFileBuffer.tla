---------------------------- MODULE MCFileBuffer ---------------------------
(* Three runs, and any of the four second operations of the consumer.      *)
EXTENDS FileBuffer
=============================================================================
