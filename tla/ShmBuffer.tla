----------------------------- MODULE ShmBuffer -----------------------------
(***************************************************************************)
(* the_shared_mem: parent, producer and consumer (local.h, parent.cpp,     *)
(* producer.cpp, consumer.cpp).  The parent makes a shared segment and two *)
(* semaphores under its own pid as the key, forks the two children, waits  *)
(* for one of them, kills and removes.  The children pass strings through  *)
(* a ring of N_SLOTS slots.  Every semop carries SEM_UNDO, so the kernel   *)
(* takes back the operations of a child when it terminates.                *)
(*                                                                         *)
(* A string is the number of its production.  strcpy takes the time from   *)
(* "write" (or "copy") to the end of that step.  The kernel's part (System *)
(* V semaphores and segments, wait, SIGKILL) is modelled from how the      *)
(* programs use it.                                                        *)
(***************************************************************************)
EXTENDS Integers, Sequences

CONSTANTS
    N_SLOTS,         \* slots of the ring (6)
    TIMES,           \* 20 in producer.cpp: modulus of the argument, and i's base
    ProducerLimits,  \* the values of sleep_limit a producer may be given
    ConsumerLimits   \* the values of sleep_limit a consumer may be given

ASSUME ConstantsAssumption ==
    /\ N_SLOTS \in Nat \ {0}
    /\ TIMES \in Nat \ {0}
    /\ ProducerLimits \subseteq (1 - TIMES) .. (TIMES - 1)
    /\ ConsumerLimits \subseteq (1 - TIMES) .. (TIMES - 1)

Children == {"producer", "consumer"}
Procs    == {"parent"} \cup Children

AVAIL_SLOTS == 0
TO_CONSUME  == 1
Sems        == {AVAIL_SLOTS, TO_CONSUME}
Slots       == 0 .. N_SLOTS - 1

VARIABLES
    shm, sem,     \* the segment, the semaphore set: "none", "live" or "removed"
    semval,       \* values of the two semaphores
    semadj,       \* semadj[c][s]: what is added to s when c terminates
    buffer,       \* buffer[k]: number of the string in slot k, 0 at first
    head, tail,   \* fields of struct MEMORY
    sent,         \* strings the producer has written
    received,     \* strings the consumer has copied and printed, in order
    sleep_limit,  \* local sleep_limit of each child
    croaker,      \* the child that wait returned
    killed,       \* children with a SIGKILL pending
    pc

mem    == <<buffer, head, tail>>
ipc    == <<shm, sem, semval, semadj>>
locals == <<sleep_limit, croaker, killed>>
vars   == <<ipc, mem, sent, received, locals, pc>>

Init ==
    /\ shm = "none" /\ sem = "none"
    /\ semval = [s \in Sems |-> 0]
    /\ semadj = [c \in Children |-> [s \in Sems |-> 0]]
    /\ buffer = [k \in Slots |-> 0] /\ head = 0 /\ tail = 0
    /\ sent = 0 /\ received = << >>
    /\ sleep_limit = [c \in Children |-> 0]
    /\ croaker = "none" /\ killed = {}
    /\ pc = [p \in Procs |-> IF p = "parent" THEN "shmget" ELSE "none"]

-----------------------------------------------------------------------------
(***************************************************************************)
(* The kernel.                                                             *)
(***************************************************************************)

Goto(p, label) == pc' = [pc EXCEPT ![p] = label]

\* Running children; a terminated one is a "zombie" until wait reaps it ("gone").
Active(c) == pc[c] \notin {"none", "zombie", "gone"}

\* exit or a signal: SEM_UNDO adds semadj, down to 0 at most.
Terminate(c) ==
    /\ Goto(c, "zombie")
    /\ semval' = [s \in Sems |-> IF semval[s] + semadj[c][s] < 0 THEN 0
                                 ELSE semval[s] + semadj[c][s]]
    /\ semadj' = [semadj EXCEPT ![c] = [s \in Sems |-> 0]]
    /\ UNCHANGED <<shm, sem, mem, sent, received, locals>>

\* A semop with SEM_UNDO that succeeds; below 0 it would block.
Semop(c, s, op) ==
    /\ sem = "live" /\ semval[s] + op >= 0
    /\ semval' = [semval EXCEPT ![s] = @ + op]
    /\ semadj' = [semadj EXCEPT ![c][s] = @ - op]
    /\ UNCHANGED <<shm, sem>>

-----------------------------------------------------------------------------
(***************************************************************************)
(* parent                                                                  *)
(***************************************************************************)

ParentMoves(from, to) == pc["parent"] = from /\ Goto("parent", to)

ShmGet ==
    /\ ParentMoves("shmget", "shmat")
    /\ shm' = "live"
    /\ UNCHANGED <<sem, semval, semadj, mem, sent, received, locals>>

\* shmat, and memcpy of a struct whose head and tail are 0.
ShmAttach ==
    /\ ParentMoves("shmat", "semget")
    /\ buffer' = [k \in Slots |-> 0] /\ head' = 0 /\ tail' = 0
    /\ UNCHANGED <<ipc, sent, received, locals>>

SemGet ==
    /\ ParentMoves("semget", "setall")
    /\ sem' = "live"
    /\ UNCHANGED <<shm, semval, semadj, mem, sent, received, locals>>

\* Slip: start_val has one slot too many.
SetAllOneMore ==
    /\ ParentMoves("setall", "fork_producer")
    /\ semval' = [s \in Sems |-> IF s = AVAIL_SLOTS THEN N_SLOTS + 1 ELSE 0]
    /\ semadj' = [c \in Children |-> [s \in Sems |-> 0]]
    /\ UNCHANGED <<shm, sem, mem, sent, received, locals>>

\* semctl(SETALL, start_val)
SetAll ==
    /\ ParentMoves("setall", "fork_producer")
    /\ semval' = [s \in Sems |-> IF s = AVAIL_SLOTS THEN N_SLOTS ELSE 0]
    /\ semadj' = [c \in Children |-> [s \in Sems |-> 0]]
    /\ UNCHANGED <<shm, sem, mem, sent, received, locals>>

ForkProducer ==
    /\ pc["parent"] = "fork_producer"
    /\ pc' = [pc EXCEPT !["parent"] = "fork_consumer", !["producer"] = "exec"]
    /\ UNCHANGED <<ipc, mem, sent, received, locals>>

ForkConsumer ==
    /\ pc["parent"] = "fork_consumer"
    /\ pc' = [pc EXCEPT !["parent"] = "wait", !["consumer"] = "exec"]
    /\ UNCHANGED <<ipc, mem, sent, received, locals>>

\* A call up to the second fork fails: exit(1) to exit(7), and nothing that was
\* made before is removed.
ParentFails ==
    /\ pc["parent"] \in {"shmget", "shmat", "semget", "setall",
                         "fork_producer", "fork_consumer"}
    /\ Goto("parent", "failed")
    /\ UNCHANGED <<ipc, mem, sent, received, locals>>

\* croaker = wait(0)
Wait ==
    /\ pc["parent"] = "wait"
    /\ \E c \in Children :
         /\ pc[c] = "zombie"
         /\ croaker' = c
         /\ pc' = [pc EXCEPT !["parent"] = "kill", ![c] = "gone"]
    /\ UNCHANGED <<ipc, mem, sent, received, sleep_limit, killed>>

\* kill((croaker == pid) ? c_id : p_id, SIGKILL); a reaped child is not there.
Target == IF croaker = "parent" THEN "consumer" ELSE "producer"

KillOther ==
    /\ ParentMoves("kill", "rm_shm")
    /\ killed' = IF Active(Target) THEN killed \cup {Target} ELSE killed
    /\ UNCHANGED <<ipc, mem, sent, received, sleep_limit, croaker>>

\* shmdt, and IPC_RMID: children that are attached keep their mapping.
RemoveShm ==
    /\ ParentMoves("rm_shm", "rm_sem")
    /\ shm' = "removed"
    /\ UNCHANGED <<sem, semval, semadj, mem, sent, received, locals>>

\* Slip: the parent forgets the semaphores.
LeaveSem ==
    /\ ParentMoves("rm_sem", "exited")
    /\ UNCHANGED <<ipc, mem, sent, received, locals>>

\* IPC_RMID: values and undo records go; blocked and later semops fail.  exit(0).
RemoveSem ==
    /\ ParentMoves("rm_sem", "exited")
    /\ sem' = "removed"
    /\ semval' = [s \in Sems |-> 0]
    /\ semadj' = [c \in Children |-> [s \in Sems |-> 0]]
    /\ UNCHANGED <<shm, mem, sent, received, locals>>

Parent ==
    \/ ShmGet \/ ShmAttach \/ SemGet \/ SetAll \/ ForkProducer \/ ForkConsumer
    \/ Wait \/ KillOther \/ RemoveShm \/ RemoveSem

-----------------------------------------------------------------------------
(***************************************************************************)
(* What producer and consumer do in the same way.                          *)
(***************************************************************************)

ParentGone == pc["parent"] \in {"exited", "failed", "killed"}

\* execl and getppid.  A child whose parent is gone by then asks for the
\* segment of its adopter, and exits; so it does when execl fails.
Exec(c) ==
    /\ pc[c] = "exec" /\ ~ParentGone
    /\ Goto(c, "attach")
    /\ UNCHANGED <<ipc, mem, sent, received, locals>>

ExecFails(c) == pc[c] = "exec" /\ Terminate(c)

\* shmget(ppid, 0, 0) and shmat; exit(2) when there is no segment.
Attach(c) ==
    /\ pc[c] = "attach" /\ shm = "live"
    /\ Goto(c, "getsem")
    /\ UNCHANGED <<ipc, mem, sent, received, locals>>

AttachFails(c) == pc[c] = "attach" /\ shm # "live" /\ Terminate(c)

\* semget(ppid, 2, 0), and sleep_limit from argv[1]; exit(3) without the set.
OpenSem(c) ==
    /\ pc[c] = "getsem" /\ sem = "live"
    /\ \E l \in (IF c = "producer" THEN ProducerLimits ELSE ConsumerLimits) :
         sleep_limit' = [sleep_limit EXCEPT ![c] = l]
    /\ Goto(c, "loop")
    /\ UNCHANGED <<ipc, mem, sent, received, croaker, killed>>

OpenSemFails(c) == pc[c] = "getsem" /\ sem # "live" /\ Terminate(c)

\* i of the producer's while (i--).
Remaining == TIMES - sleep_limit["producer"] - sent

\* Another round of the loop: the producer counts i down, the consumer does not.
InLoop(c) == pc[c] = "loop" /\ (c = "producer" => Remaining # 0)

\* A removed set fails semop (EIDRM or EINVAL) and the child exits.
SemopFails(c) ==
    /\ InLoop(c) \/ pc[c] = "release"
    /\ sem # "live"
    /\ Terminate(c)

\* sleep(rand() % sleep_limit + 1): a limit of 0 is a division by zero, SIGFPE.
Sleep(c) ==
    /\ pc[c] = "sleep" /\ sleep_limit[c] # 0
    /\ Goto(c, "loop")
    /\ UNCHANGED <<ipc, mem, sent, received, locals>>

SleepDividesByZero(c) == pc[c] = "sleep" /\ sleep_limit[c] = 0 /\ Terminate(c)

\* A pending SIGKILL takes effect.
Die(c) == Active(c) /\ c \in killed /\ Terminate(c)

(***************************************************************************)
(* producer                                                                *)
(***************************************************************************)

ProducerAcquire ==
    /\ InLoop("producer")
    /\ Semop("producer", AVAIL_SLOTS, -1)
    /\ Goto("producer", "write")
    /\ UNCHANGED <<mem, sent, received, locals>>

\* strcpy into buffer[tail], then tail moves on.
Write ==
    /\ pc["producer"] = "write"
    /\ buffer' = [buffer EXCEPT ![tail] = sent + 1]
    /\ tail' = (tail + 1) % N_SLOTS
    /\ sent' = sent + 1
    /\ Goto("producer", "release")
    /\ UNCHANGED <<ipc, head, received, locals>>

\* Slips: release.sem_num keeps its initial 0; release without SEM_UNDO.
ProducerReleaseAvail ==
    /\ pc["producer"] = "release"
    /\ Semop("producer", AVAIL_SLOTS, 1)
    /\ Goto("producer", "sleep")
    /\ UNCHANGED <<mem, sent, received, locals>>
ProducerReleaseNoUndo ==
    /\ pc["producer"] = "release" /\ sem = "live"
    /\ semval' = [semval EXCEPT ![TO_CONSUME] = @ + 1]
    /\ Goto("producer", "sleep")
    /\ UNCHANGED <<shm, sem, semadj, mem, sent, received, locals>>

ProducerRelease ==
    /\ pc["producer"] = "release"
    /\ Semop("producer", TO_CONSUME, 1)
    /\ Goto("producer", "sleep")
    /\ UNCHANGED <<mem, sent, received, locals>>

\* i has come down to 0: exit(0).
ProducerEnds ==
    /\ pc["producer"] = "loop" /\ Remaining = 0
    /\ Terminate("producer")

(***************************************************************************)
(* consumer                                                                *)
(***************************************************************************)

\* Slip: acquire.sem_num keeps its initial 0.
ConsumerAcquireAvail ==
    /\ InLoop("consumer")
    /\ Semop("consumer", AVAIL_SLOTS, -1)
    /\ Goto("consumer", "copy")
    /\ UNCHANGED <<mem, sent, received, locals>>

ConsumerAcquire ==
    /\ InLoop("consumer")
    /\ Semop("consumer", TO_CONSUME, -1)
    /\ Goto("consumer", "copy")
    /\ UNCHANGED <<mem, sent, received, locals>>

\* strcpy out of buffer[head], print, then head moves on.
Copy ==
    /\ pc["consumer"] = "copy"
    /\ received' = Append(received, buffer[head])
    /\ head' = (head + 1) % N_SLOTS
    /\ Goto("consumer", "release")
    /\ UNCHANGED <<ipc, buffer, tail, sent, locals>>

ConsumerRelease ==
    /\ pc["consumer"] = "release"
    /\ Semop("consumer", AVAIL_SLOTS, 1)
    /\ Goto("consumer", "sleep")
    /\ UNCHANGED <<mem, sent, received, locals>>

Child(c) ==
    \/ Exec(c) \/ ExecFails(c) \/ Attach(c) \/ AttachFails(c)
    \/ OpenSem(c) \/ OpenSemFails(c) \/ SemopFails(c)
    \/ Sleep(c) \/ SleepDividesByZero(c) \/ Die(c)

Producer == ProducerAcquire \/ Write \/ ProducerRelease \/ ProducerEnds

Consumer == ConsumerAcquire \/ Copy \/ ConsumerRelease

\* Somebody sends SIGKILL (or SIGINT) to one of the three.
Signal(c) ==
    /\ Active(c) /\ killed' = killed \cup {c}
    /\ UNCHANGED <<ipc, mem, sent, received, sleep_limit, croaker, pc>>

ParentKilled ==
    /\ ~ParentGone /\ Goto("parent", "killed")
    /\ UNCHANGED <<ipc, mem, sent, received, locals>>

Next ==
    \/ Parent \/ ParentFails \/ Producer \/ Consumer
    \/ \E c \in Children : Child(c) \/ Signal(c)
    \/ ParentKilled

Spec == Init /\ [][Next]_vars

\* No program waits for a user: each runs on, and a blocked one goes on when
\* what it waits for has come.  Failures and outside signals need not happen.
Fairness ==
    /\ WF_vars(Parent) /\ WF_vars(Producer) /\ WF_vars(Consumer)
    /\ \A c \in Children : WF_vars(Child(c)) /\ WF_vars(Die(c))

FairSpec == Spec /\ Fairness

-----------------------------------------------------------------------------
(***************************************************************************)
(* Properties.                                                             *)
(***************************************************************************)

ParentLabels == {"shmget", "shmat", "semget", "setall", "fork_producer",
                 "fork_consumer", "wait", "kill", "rm_shm", "rm_sem",
                 "exited", "failed", "killed"}
ChildLabels  == {"none", "exec", "attach", "getsem", "loop", "write", "copy",
                 "release", "sleep", "zombie", "gone"}

TypeOK ==
    /\ shm \in {"none", "live", "removed"} /\ sem \in {"none", "live", "removed"}
    /\ semval \in [Sems -> Nat]
    /\ semadj \in [Children -> [Sems -> Int]]
    /\ buffer \in [Slots -> Nat] /\ head \in Slots /\ tail \in Slots
    /\ sent \in Nat /\ received \in Seq(Nat)
    /\ sleep_limit \in [Children -> (1 - TIMES) .. (TIMES - 1)]
    /\ croaker \in Children \cup {"none"}
    /\ killed \subseteq Children
    /\ pc \in [Procs -> ParentLabels \cup ChildLabels]

Ended(c) == pc[c] \in {"zombie", "gone"}
One(b)   == IF b THEN 1 ELSE 0

\* Producer and consumer are never at work on the same slot, also after one of
\* them has died and SEM_UNDO has changed the semaphores.
SlotExclusive ==
    ~ (pc["producer"] = "write" /\ pc["consumer"] = "copy" /\ head = tail)

\* Until a child dies each semaphore counts what it is named for: the slots that
\* are free, and the strings that wait.
SlotsAccounted ==
    pc["parent"] = "wait" /\ (\A c \in Children : ~Ended(c)) =>
        /\ semval[AVAIL_SLOTS] = N_SLOTS
              - (sent + One(pc["producer"] = "write"))
              + (Len(received) - One(pc["consumer"] = "release"))
        /\ semval[TO_CONSUME] = (sent - One(pc["producer"] = "release"))
              - (Len(received) + One(pc["consumer"] = "copy"))

\* The ring implements the bounded FIFO: every string is taken out once, in
\* order and whole, whoever is killed.
Abstract == INSTANCE BoundedFifo WITH Capacity <- N_SLOTS
ImplementsBoundedFifo == Abstract!Spec

\* The undo of a dead producer takes its strings out of TO_CONSUME: those that
\* wait in the ring are never consumed.  Only a copy under way is completed.
StrandedAfterProducer ==
    [][ Ended("producer") /\ pc'["consumer"] = "copy"
            => pc["consumer"] = "copy" ]_vars

\* A parent that gets as far as wait, and is not killed itself, leaves nothing:
\* segment and semaphores are removed and both children end.
NormalRunCleansUp ==
    pc["parent"] = "wait" ~>
        \/ pc["parent"] = "killed"
        \/ /\ pc["parent"] = "exited" /\ shm = "removed" /\ sem = "removed"
           /\ \A c \in Children : ~Active(c)
=============================================================================
