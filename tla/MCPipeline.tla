----------------------------- MODULE MCPipeline ----------------------------
(* Two or three commands of every kind; an output that fits into the pipe, and
   one that does not. *)
EXTENDS Pipeline
=============================================================================
