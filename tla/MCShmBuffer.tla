---------------------------- MODULE MCShmBuffer ----------------------------
(* Two slots and at most five strings, so that the ring wraps twice; a     *)
(* sleep_limit may be 0 (division by zero), positive or negative.          *)
EXTENDS ShmBuffer

MCLimits == {0, 1, -2}
=============================================================================
