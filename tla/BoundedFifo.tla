---------------------------- MODULE BoundedFifo ----------------------------
(***************************************************************************)
(* What parent, producer and consumer promise together: a buffer of        *)
(* Capacity strings in shared memory.  The n-th string that is put in is   *)
(* the n-th that is taken out, none twice, and the number inside never     *)
(* passes Capacity.  A string is its number.                               *)
(***************************************************************************)
EXTENDS Naturals, Sequences

CONSTANT Capacity

VARIABLES sent,     \* how many strings have been put in
          received  \* the strings taken out, in order

Init == sent = 0 /\ received = << >>

Put ==
    /\ sent - Len(received) < Capacity
    /\ sent' = sent + 1
    /\ UNCHANGED received

Get ==
    /\ Len(received) < sent
    /\ received' = Append(received, Len(received) + 1)
    /\ UNCHANGED sent

Next == Put \/ Get

Spec == Init /\ [][Next]_<<sent, received>>
=============================================================================
