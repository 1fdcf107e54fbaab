----------------------------- MODULE MCMsgQueue ----------------------------
(* One run of each program, a queue of two messages, two lines for each     *)
(* person, two queues one after the other.                                 *)
EXTENDS MsgQueue

MCNumbers == {-2, 2}
=============================================================================
