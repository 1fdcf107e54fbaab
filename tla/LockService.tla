---------------------------- MODULE LockService ----------------------------
(***************************************************************************)
(* What the semaphore demos promise their users: each semaphore set is a   *)
(* lock ("demonstrates semaphore use like a file locking mechanism",       *)
(* semdemo.cpp:2).  A lock has at most one owner, it is taken only when    *)
(* free, and only its owner gives it up, by unlocking or by terminating.   *)
(***************************************************************************)
CONSTANTS Procs,   \* the processes that use locks
          Locks    \* the identifiers of the semaphore sets

VARIABLE owners    \* owners[l] is the set of processes that own lock l

Init == owners = [l \in Locks |-> {}]

Acquire(p, l) ==
    /\ owners[l] = {}
    /\ owners' = [owners EXCEPT ![l] = {p}]

Release(p, l) ==
    /\ p \in owners[l]
    /\ owners' = [owners EXCEPT ![l] = @ \ {p}]

Next == \E p \in Procs, l \in Locks : Acquire(p, l) \/ Release(p, l)

Spec == Init /\ [][Next]_owners
=============================================================================
