------------------------------ MODULE SemLock ------------------------------
(***************************************************************************)
(* The System V semaphore programs of the_semaphores that share the key    *)
(* ftok(".", 'J'): semdemo and semdemo_mod (create or find the set with    *)
(* initsem, then lock and unlock it), create (makes a set with SETVAL),    *)
(* semrm (removes it) and monitoring (counts the blocked processes).       *)
(*                                                                         *)
(* A process is one user at one terminal, who may run the program of that  *)
(* terminal again when it has ended.  Any run may be killed at any moment: *)
(* each of these programs spends most of its time in getchar().  The       *)
(* kernel's part (semget, semop, semctl, SEM_UNDO) is modelled from how    *)
(* the programs use it.                                                    *)
(***************************************************************************)
EXTENDS Integers, FiniteSets

CONSTANTS
    Demo,         \* processes that run semdemo
    DemoMod,      \* processes that run semdemo_mod
    Creator,      \* processes that run create
    Remover,      \* processes that run semrm
    MAX_RETRIES,  \* polls of sem_otime before initsem gives up
    SEMVMX,       \* largest value of a semaphore (32767 on Linux)
    MaxSets       \* bound: how many sets are ever created

Lockers == Demo \cup DemoMod
Procs   == Lockers \cup Creator \cup Remover
Ids     == 1 .. MaxSets   \* semids; a semid is never used again
NoSet   == 0

ASSUME ConstantsAssumption ==
    /\ MAX_RETRIES \in Nat \ {0}
    /\ SEMVMX \in Nat \ {0}
    /\ MaxSets \in Nat \ {0}
    /\ Lockers \cap (Creator \cup Remover) = {}
    /\ Demo \cap DemoMod = {} /\ Creator \cap Remover = {}

VARIABLES
    key,      \* the set that semget finds under the key, or NoSet
    nextId,   \* the semid the next new set gets
    semval,   \* semval[id]: value of the one semaphore of the set
    otime,    \* otime[id]: sem_otime is not 0, i.e. some semop has succeeded
    semadj,   \* semadj[id][p]: what the kernel adds when p terminates (SEM_UNDO)
    pc,       \* where each run is; "idle" when the terminal runs nothing
    semid,    \* local semid of each run
    tries,    \* local i of initsem's retry loop
    sem_op    \* local sb.sem_op of each run

vars == <<key, nextId, semval, otime, semadj, pc, semid, tries, sem_op>>
kernel == <<key, nextId, semval, otime, semadj>>

Init ==
    /\ key = NoSet /\ nextId = 1
    /\ semval = [id \in Ids |-> 0]
    /\ otime  = [id \in Ids |-> FALSE]
    /\ semadj = [id \in Ids |-> [p \in Procs |-> 0]]
    /\ pc     = [p \in Procs |-> "idle"]
    /\ semid  = [p \in Procs |-> NoSet]
    /\ tries  = [p \in Procs |-> 0]
    /\ sem_op = [p \in Procs |-> -1]

(***************************************************************************)
(* Kernel helpers.                                                         *)
(***************************************************************************)

\* A removed set answers EINVAL (EIDRM to a blocked semop).
Live(id) == id # NoSet /\ id = key

Clip(n) == IF n < 0 THEN 0 ELSE IF n > SEMVMX THEN SEMVMX ELSE n

Goto(p, label) == pc' = [pc EXCEPT ![p] = label]

\* A run ends, by exit, return or signal: the kernel undoes what semadj
\* records, and the next run starts from fresh locals.
Terminate(p) ==
    /\ Goto(p, "idle")
    /\ semid'  = [semid EXCEPT ![p] = NoSet]
    /\ tries'  = [tries EXCEPT ![p] = 0]
    /\ sem_op' = [sem_op EXCEPT ![p] = -1]
    /\ semval' = [id \in Ids |-> Clip(semval[id] + semadj[id][p])]
    /\ semadj' = [id \in Ids |-> [semadj[id] EXCEPT ![p] = 0]]
    /\ UNCHANGED <<key, nextId, otime>>

\* A successful semop of p on its set; SEM_UNDO keeps the opposite in semadj.
Semop(p, op, undo) ==
    LET id == semid[p] IN
    /\ semval' = [semval EXCEPT ![id] = @ + op]
    /\ otime'  = [otime EXCEPT ![id] = TRUE]
    /\ semadj' = IF undo THEN [semadj EXCEPT ![id][p] = @ - op] ELSE semadj
    /\ UNCHANGED <<key, nextId>>

-----------------------------------------------------------------------------
(***************************************************************************)
(* Getting the set: semget in create, semrm and initsem.                   *)
(***************************************************************************)

\* semget(key, 1, IPC_CREAT | IPC_EXCL | 0666) makes the set: value 0, sem_otime 0.
CreateSet(p) ==
    /\ pc[p] = "idle" /\ p \in Lockers \cup Creator
    /\ key = NoSet /\ nextId <= MaxSets
    /\ key' = nextId /\ nextId' = nextId + 1
    /\ semid' = [semid EXCEPT ![p] = nextId]
    /\ Goto(p, IF p \in Creator THEN "setval" ELSE "init")
    /\ UNCHANGED <<semval, otime, semadj, tries, sem_op>>

\* EEXIST: initsem goes on to get the id that is there.
CreateExists(p) ==
    /\ pc[p] = "idle" /\ p \in Lockers
    /\ key # NoSet
    /\ Goto(p, "open")
    /\ UNCHANGED <<kernel, semid, tries, sem_op>>

\* semget(key, 1, 0) finds the set.
Open(p) ==
    /\ pc[p] = (IF p \in Remover THEN "idle" ELSE "open")
    /\ key # NoSet
    /\ semid' = [semid EXCEPT ![p] = key]
    /\ Goto(p, IF p \in Remover THEN "rmid" ELSE "stat")
    /\ UNCHANGED <<kernel, tries, sem_op>>

\* The set that gave EEXIST has been removed since: ENOENT, exit(1).
OpenFails(p) ==
    /\ pc[p] = "open" /\ key = NoSet
    /\ Terminate(p)

(***************************************************************************)
(* initsem, create and semrm on the set.                                   *)
(***************************************************************************)

\* The creator's user presses Enter, and semop(+1, no undo) frees the lock and
\* sets sem_otime, which is what the others poll.
InitSemop(p) ==
    /\ pc[p] = "init" /\ Live(semid[p])
    /\ Semop(p, 1, FALSE)
    /\ Goto(p, "ready")
    /\ UNCHANGED <<semid, tries, sem_op>>

\* The set is gone: semop fails, the cleaning IPC_RMID fails too, exit(1).
InitSemopFails(p) ==
    /\ pc[p] = "init" /\ ~Live(semid[p])
    /\ Terminate(p)

\* Slip: no test of sem_otime.
SeesAnySet(p) == Live(semid[p]) \/ pc[p] = "stat"

\* IPC_STAT, and the test of buf.sem_otime.  In "stat" buf has not been filled
\* yet, in "poll" it holds a sem_otime of 0: a failed IPC_STAT leaves it so, and
\* the code does not look at the result.
SeesOtime(p) ==
    \/ Live(semid[p]) /\ otime[semid[p]]
    \/ ~Live(semid[p]) /\ pc[p] = "stat"
SeesNoOtime(p) == ~(Live(semid[p]) /\ otime[semid[p]])

PollReady(p) ==
    /\ pc[p] \in {"stat", "poll"} /\ SeesOtime(p)
    /\ Goto(p, "ready")
    /\ UNCHANGED <<kernel, semid, tries, sem_op>>

PollAgain(p) ==
    /\ pc[p] \in {"stat", "poll"} /\ SeesNoOtime(p)
    /\ tries[p] + 1 < MAX_RETRIES
    /\ tries' = [tries EXCEPT ![p] = @ + 1]
    /\ Goto(p, IF Live(semid[p]) THEN "poll" ELSE pc[p])
    /\ UNCHANGED <<kernel, semid, sem_op>>

\* ETIME: not ready after MAX_RETRIES polls, exit(1).
PollTimeout(p) ==
    /\ pc[p] \in {"stat", "poll"} /\ SeesNoOtime(p)
    /\ tries[p] + 1 = MAX_RETRIES
    /\ Terminate(p)

\* create: SETVAL 1 clears every semadj of the semaphore and leaves sem_otime
\* alone; it fails when the set is gone.  The program ends either way.
SetVal(p) ==
    /\ pc[p] = "setval"
    /\ LET id == semid[p] IN
       /\ semval' = IF Live(id) THEN [semval EXCEPT ![id] = 1] ELSE semval
       /\ semadj' = IF Live(id) THEN [semadj EXCEPT ![id] = [q \in Procs |-> 0]]
                                ELSE semadj
    /\ Goto(p, "idle")
    /\ semid' = [semid EXCEPT ![p] = NoSet]
    /\ UNCHANGED <<key, nextId, otime, tries, sem_op>>

\* semrm: IPC_RMID takes the set and its undo records away; a second semrm that
\* got the same id fails.  The program ends either way.
Rmid(p) ==
    /\ pc[p] = "rmid"
    /\ LET id == semid[p] IN
       /\ key'    = IF Live(id) THEN NoSet ELSE key
       /\ semval' = IF Live(id) THEN [semval EXCEPT ![id] = 0] ELSE semval
       /\ otime'  = IF Live(id) THEN [otime EXCEPT ![id] = FALSE] ELSE otime
       /\ semadj' = IF Live(id) THEN [semadj EXCEPT ![id] = [q \in Procs |-> 0]]
                                ELSE semadj
    /\ Goto(p, "idle")
    /\ semid' = [semid EXCEPT ![p] = NoSet]
    /\ UNCHANGED <<nextId, tries, sem_op>>

(***************************************************************************)
(* Locking and unlocking.                                                  *)
(***************************************************************************)

\* "Press Enter to lock": the user does, and the run calls semop.
PressEnter(p) ==
    /\ pc[p] = "ready"
    /\ Goto(p, "trying")
    /\ UNCHANGED <<kernel, semid, tries, sem_op>>

\* Slip: sem_flg without SEM_UNDO for the lock.
LockNoUndo(p) ==
    /\ pc[p] = "trying" /\ Live(semid[p])
    /\ semval[semid[p]] + sem_op[p] \in 0 .. SEMVMX
    /\ Semop(p, sem_op[p], FALSE)
    /\ Goto(p, "locked")
    /\ UNCHANGED <<semid, tries, sem_op>>

\* semop(sb, SEM_UNDO) with sb.sem_op as it is; blocks below 0.
Lock(p) ==
    /\ pc[p] = "trying" /\ Live(semid[p])
    /\ semval[semid[p]] + sem_op[p] \in 0 .. SEMVMX
    /\ Semop(p, sem_op[p], TRUE)
    /\ Goto(p, "locked")
    /\ UNCHANGED <<semid, tries, sem_op>>

\* Slips: the result of semop is not tested; a removed set wakes nobody.
LockErrorIgnored(p) ==
    /\ pc[p] = "trying" /\ ~Live(semid[p])
    /\ Goto(p, "locked")
    /\ UNCHANGED <<kernel, semid, tries, sem_op>>
LockSleepsOn(p) ==
    /\ pc[p] = "trying" /\ Live(semid[p])
    /\ semval[semid[p]] + sem_op[p] > SEMVMX
    /\ Terminate(p)

\* The set is gone (EINVAL, or EIDRM while blocked) or the value would pass
\* SEMVMX (ERANGE): exit(1).
LockFails(p) ==
    /\ pc[p] = "trying"
    /\ \/ ~Live(semid[p])
       \/ Live(semid[p]) /\ semval[semid[p]] + sem_op[p] > SEMVMX
    /\ Terminate(p)

\* Slip: sem_flg without SEM_UNDO for the unlock only.
UnlockNoUndo(p) ==
    /\ pc[p] = "locked" /\ Live(semid[p])
    /\ semval[semid[p]] + 1 <= SEMVMX
    /\ Semop(p, 1, FALSE)
    /\ sem_op' = [sem_op EXCEPT ![p] = 1]
    /\ Goto(p, IF p \in Demo THEN "done" ELSE "ready")
    /\ UNCHANGED <<semid, tries>>

\* sb.sem_op = 1; semop.  semdemo then ends; semdemo_mod goes round its loop,
\* and sb.sem_op stays 1.
Unlock(p) ==
    /\ pc[p] = "locked" /\ Live(semid[p])
    /\ semval[semid[p]] + 1 <= SEMVMX
    /\ Semop(p, 1, TRUE)
    /\ sem_op' = [sem_op EXCEPT ![p] = 1]
    /\ Goto(p, IF p \in Demo THEN "done" ELSE "ready")
    /\ UNCHANGED <<semid, tries>>

UnlockFails(p) ==
    /\ pc[p] = "locked"
    /\ \/ ~Live(semid[p])
       \/ Live(semid[p]) /\ semval[semid[p]] + 1 > SEMVMX
    /\ Terminate(p)

\* semdemo returns; semdemo_mod leaves its loop on 'q' or at end of input while
\* it holds the lock.
Finish(p) ==
    /\ \/ pc[p] = "done"
       \/ pc[p] = "locked" /\ p \in DemoMod
    /\ Terminate(p)

\* SIGINT or SIGKILL from outside: no program here catches a signal.
Kill(p) ==
    /\ pc[p] # "idle"
    /\ Terminate(p)

-----------------------------------------------------------------------------
Step(p) ==
    \/ CreateSet(p) \/ CreateExists(p) \/ Open(p) \/ OpenFails(p)
    \/ InitSemop(p) \/ InitSemopFails(p)
    \/ PollReady(p) \/ PollAgain(p) \/ PollTimeout(p)
    \/ SetVal(p) \/ Rmid(p)
    \/ PressEnter(p) \/ Lock(p) \/ LockFails(p)
    \/ Unlock(p) \/ UnlockFails(p) \/ Finish(p)

Next == \E p \in Procs : Step(p) \/ Kill(p)

Spec == Init /\ [][Next]_vars

\* Steps that wait for no user are taken eventually.  The kernel hands the
\* semaphore to the processes blocked in semop in their order of arrival, hence
\* SF for Lock.  Nothing makes a user press Enter, start a program or kill one.
Fairness ==
    \A p \in Procs :
        /\ WF_vars(pc[p] = "open" /\ (Open(p) \/ OpenFails(p)))
        /\ WF_vars(PollReady(p) \/ PollAgain(p) \/ PollTimeout(p))
        /\ WF_vars(SetVal(p)) /\ WF_vars(Rmid(p))
        /\ SF_vars(Lock(p)) /\ WF_vars(LockFails(p))
        /\ WF_vars(pc[p] = "done" /\ Finish(p))

FairSpec == Spec /\ Fairness

-----------------------------------------------------------------------------
(***************************************************************************)
(* Properties.                                                             *)
(***************************************************************************)

Labels == {"idle", "open", "init", "stat", "poll", "ready", "trying",
           "locked", "done", "setval", "rmid"}

TypeOK ==
    /\ key \in Ids \cup {NoSet}
    /\ nextId \in 1 .. MaxSets + 1
    /\ semval \in [Ids -> 0 .. SEMVMX]
    /\ otime \in [Ids -> BOOLEAN]
    /\ semadj \in [Ids -> [Procs -> Int]]
    /\ pc \in [Procs -> Labels]
    /\ semid \in [Procs -> Ids \cup {NoSet}]
    /\ tries \in [Procs -> 0 .. MAX_RETRIES - 1]
    /\ sem_op \in [Procs -> {-1, 1}]

\* The processes that have printed "Locked." for the set and not unlocked it.
Holders(id) == {p \in Procs : pc[p] = "locked" /\ semid[p] = id}

\* GETNCNT as monitoring shows it: the processes blocked in semop on the set.
Waiting(id) ==
    {p \in Procs : /\ pc[p] = "trying" /\ semid[p] = id
                   /\ semval[id] + sem_op[p] < 0}

\* At most one process holds the lock that a set is, whatever is killed,
\* removed and created again meanwhile (semdemo.cpp: lock, unlock, SEM_UNDO).
MutualExclusion ==
    \A id \in Ids : \A p, q \in Holders(id) : p = q

\* No run gets past initsem on a set that exists but was never initialised: the
\* hand-over through sem_otime works (semdemo.cpp:55-64).
ReadyMeansInitialised ==
    \A p \in Procs :
        pc[p] \in {"ready", "trying", "locked"} /\ Live(semid[p])
            => otime[semid[p]]

\* The lock is neither lost nor doubled by unlocks, kills and SEM_UNDO: while
\* monitoring counts waiting processes some process holds the lock, and an
\* initialised set has value 1 exactly when nobody does.
LockConserved ==
    key # NoSet =>
        /\ Waiting(key) # {} => Holders(key) # {}
        /\ otime[key] => (semval[key] = 1 <=> Holders(key) = {})

\* The semaphore programs implement one lock per set.
Abstract == INSTANCE LockService
                WITH Locks <- Ids, owners <- [id \in Ids |-> Holders(id)]
ImplementsLockService == Abstract!Spec

\* Waiting ends.  If no user sits on the lock for ever, each process that calls semop
\* to lock gets the lock or fails: a killed or quitting holder wakes the next process,
\* and removing the set wakes them all.  And initsem does not wait for ever for a creator
\* that never initialises the set.
WaitsEnd ==
    /\ (\A p \in Procs : []<>(pc[p] # "locked"))
           => \A p \in Procs : pc[p] = "trying" ~> pc[p] # "trying"
    /\ \A p \in Procs : pc[p] \in {"stat", "poll"} ~> pc[p] \notin {"stat", "poll"}
=============================================================================
