---------------------------- MODULE TypedQueue -----------------------------
(***************************************************************************)
(* What the message queue of the_mess_que promises to the people at its    *)
(* two sides.  Each type is a queue of its own: a message is obtained by   *)
(* one reader, in the order of its type, never changed, until all that     *)
(* waits is thrown away at once.                                           *)
(***************************************************************************)
EXTENDS Sequences

CONSTANTS Types, Messages, Readers, NoMessage

VARIABLES pending,  \* for each type the messages sent and not yet obtained
          got       \* for each reader the message obtained last

Init == pending = [t \in Types |-> << >>] /\ got = [r \in Readers |-> NoMessage]

Accept(m) ==
    /\ pending' = [pending EXCEPT ![m.type] = Append(@, m)]
    /\ UNCHANGED got

Deliver(r, t) ==
    /\ pending[t] # << >>
    /\ got' = [got EXCEPT ![r] = Head(pending[t])]
    /\ pending' = [pending EXCEPT ![t] = Tail(@)]

ThrowAway == pending' = [t \in Types |-> << >>] /\ UNCHANGED got

Next ==
    \/ \E m \in Messages : Accept(m)
    \/ \E r \in Readers, t \in Types : Deliver(r, t)
    \/ ThrowAway

Spec == Init /\ [][Next]_<<pending, got>>
=============================================================================
