---------------------------- MODULE FileBuffer -----------------------------
(***************************************************************************)
(* the_semaphores/sem_prod_con.cpp: runs of one program pass numbers       *)
(* through the file ./buffer.  The run that makes the semaphore set of key *)
(* 'S' is the producer, all others are consumers.  A session is the life   *)
(* of one set.  Every semop carries SEM_UNDO.                              *)
(*                                                                         *)
(* The consumer calls semop(semid, &acquire, 2) with ONE sembuf.  What the *)
(* second operation is depends on what the build puts behind acquire:      *)
(*   "release"   the static variable release, READ + 1;                    *)
(*   "zeroRead"  padding before release, wait for READ = 0;                *)
(*   "zeroMade"  start_val, wait for MADE = 0;                             *)
(*   "range"     a semaphore that is not there, semop fails.               *)
(*                                                                         *)
(* A number is <<session, i>>.  Time is not modelled, nor sleep.           *)
(***************************************************************************)
EXTENDS Integers, Sequences

CONSTANTS
    Runs,      \* processes that run the program
    COUNT,     \* numbers that a producer makes (10)
    Seconds,   \* possible second operations
    MaxSets    \* bound: sets made under the key

READ == 0
MADE == 1
Sems == {READ, MADE}

ASSUME ConstantsAssumption ==
    /\ COUNT \in Nat /\ MaxSets \in Nat
    /\ Seconds \subseteq {"release", "zeroRead", "zeroMade", "range"}

VARIABLES
    second,    \* what this build has as the second operation
    key,       \* the set that has key 'S', 0 if there is none
    made,      \* number of sets made
    semval,    \* values of the semaphores of set key
    semadj,    \* semadj[p][s]: what is added to s when p terminates
    pc, semid, \* of each run
    i,         \* local i of each run
    file,      \* contents of ./buffer, << >> when empty
    obtained,  \* numbers read in this session, in order
    dead       \* a process has died in this session with the set still there

vars == <<second, key, made, semval, semadj, pc, semid, i, file, obtained, dead>>

Producing == {"setall", "loop", "write", "close", "made"}
Consuming == {"wait", "read", "got"}

Init ==
    /\ second \in Seconds
    /\ key = 0 /\ made = 0 /\ semval = [s \in Sems |-> 0]
    /\ semadj = [p \in Runs |-> [s \in Sems |-> 0]]
    /\ pc = [p \in Runs |-> "start"]
    /\ semid = [p \in Runs |-> 0] /\ i = [p \in Runs |-> 0]
    /\ file = << >> /\ obtained = << >> /\ dead = FALSE

Goto(p, label) == pc' = [pc EXCEPT ![p] = label]

Attached(p) == semid[p] = key

\* What the kernel does to the set when p ends: its operations are undone, a
\* value does not fall below 0.  The values stay far from their upper limit.
Clip(n) == IF n < 0 THEN 0 ELSE n

Exit(p, how) ==
    /\ Goto(p, how)
    /\ IF Attached(p)
       THEN /\ semval' = [s \in Sems |-> Clip(semval[s] + semadj[p][s])]
            /\ dead' = TRUE
       ELSE UNCHANGED <<semval, dead>>
    /\ semadj' = [semadj EXCEPT ![p] = [s \in Sems |-> 0]]
    /\ UNCHANGED <<second, key, made, semid, i, file, obtained>>

\* One operation of semop with SEM_UNDO.
Add(p, s, n) ==
    /\ semval[s] + n >= 0
    /\ semval' = [semval EXCEPT ![s] = @ + n]
    /\ semadj' = [semadj EXCEPT ![p][s] = @ - n]

-----------------------------------------------------------------------------
(***************************************************************************)
(* Who is the producer.                                                    *)
(***************************************************************************)

\* Slip: without IPC_EXCL everybody succeeds with the first semget.
SemgetShared(p) ==
    /\ pc[p] = "start"
    /\ IF key = 0
       THEN /\ made < MaxSets /\ made' = made + 1 /\ key' = made + 1
            /\ semval' = [s \in Sems |-> 0]
            /\ obtained' = << >> /\ dead' = FALSE
       ELSE UNCHANGED <<made, key, semval, obtained, dead>>
    /\ semid' = [semid EXCEPT ![p] = key']
    /\ Goto(p, "setall")
    /\ UNCHANGED <<second, semadj, i, file>>

\* semget(IPC_CREAT | IPC_EXCL).
SemgetExcl(p) ==
    /\ pc[p] = "start" /\ key = 0 /\ made < MaxSets
    /\ key' = made + 1 /\ made' = made + 1
    /\ semval' = [s \in Sems |-> 0]
    /\ semid' = [semid EXCEPT ![p] = made + 1]
    /\ obtained' = << >> /\ dead' = FALSE
    /\ Goto(p, "setall")
    /\ UNCHANGED <<second, semadj, i, file>>

\* It fails: the set exists, or there is no room for one.
SemgetExclFails(p) ==
    /\ pc[p] = "start"
    /\ Goto(p, "exists")
    /\ UNCHANGED <<second, key, made, semval, semadj, semid, i, file, obtained, dead>>

\* The second semget.  A consumer may come before SETALL.
Semget(p) ==
    /\ pc[p] = "exists" /\ key # 0
    /\ semid' = [semid EXCEPT ![p] = key]
    /\ Goto(p, "wait")
    /\ UNCHANGED <<second, key, made, semval, semadj, i, file, obtained, dead>>

SemgetFails(p) == pc[p] = "exists" /\ key = 0 /\ Exit(p, "exit")

\* Slip: start_val lets the producer make two numbers at first.
SetAllTwo(p) ==
    /\ pc[p] = "setall" /\ Attached(p)
    /\ semval' = [s \in Sems |-> IF s = READ THEN 2 ELSE 0]
    /\ semadj' = [q \in Runs |-> [s \in Sems |-> 0]]
    /\ Goto(p, "loop")
    /\ UNCHANGED <<second, key, made, semid, i, file, obtained, dead>>

\* SETALL gives start_val and forgets what was to be undone.
SetAll(p) ==
    /\ pc[p] = "setall" /\ Attached(p)
    /\ semval' = [s \in Sems |-> IF s = READ THEN 1 ELSE 0]
    /\ semadj' = [q \in Runs |-> [s \in Sems |-> 0]]
    /\ Goto(p, "loop")
    /\ UNCHANGED <<second, key, made, semid, i, file, obtained, dead>>

-----------------------------------------------------------------------------
(***************************************************************************)
(* The producer.                                                           *)
(***************************************************************************)

ProducerAcquire(p) ==
    /\ pc[p] = "loop" /\ i[p] < COUNT /\ Attached(p) /\ Add(p, READ, -1)
    /\ Goto(p, "write")
    /\ UNCHANGED <<second, key, made, semid, i, file, obtained, dead>>

\* fopen truncates the file, fprintf only fills a buffer.
OpenToWrite(p) ==
    /\ pc[p] = "write"
    /\ file' = << >>
    /\ Goto(p, "close")
    /\ UNCHANGED <<second, key, made, semval, semadj, semid, i, obtained, dead>>

CloseWritten(p) ==
    /\ pc[p] = "close"
    /\ file' = <<semid[p], i[p] + 1>>
    /\ Goto(p, "made")
    /\ UNCHANGED <<second, key, made, semval, semadj, semid, i, obtained, dead>>

ProducerRelease(p) ==
    /\ pc[p] = "made" /\ Attached(p) /\ Add(p, MADE, 1)
    /\ i' = [i EXCEPT ![p] = @ + 1]
    /\ Goto(p, "loop")
    /\ UNCHANGED <<second, key, made, semid, file, obtained, dead>>

\* After the loop, sleep(5) and IPC_RMID; the undo of the producer has nothing
\* to act on any more.
Rmid(p) ==
    /\ pc[p] = "loop" /\ i[p] = COUNT /\ Attached(p)
    /\ key' = 0
    /\ Goto(p, "exit")
    /\ UNCHANGED <<second, made, semval, semadj, semid, i, file, obtained, dead>>

-----------------------------------------------------------------------------
(***************************************************************************)
(* The consumer.                                                           *)
(***************************************************************************)

\* semop(semid, &acquire, 2): both operations or none, in this order.
ConsumerAcquire(p) ==
    /\ pc[p] = "wait" /\ Attached(p) /\ second # "range"
    /\ IF second = "release"
       THEN /\ semval[MADE] > 0
            /\ semval' = [semval EXCEPT ![MADE] = @ - 1, ![READ] = @ + 1]
            /\ semadj' = [semadj EXCEPT ![p][MADE] = @ + 1, ![p][READ] = @ - 1]
       ELSE /\ second = "zeroRead" => semval[READ] = 0
            /\ second = "zeroMade" => semval[MADE] = 1
            /\ Add(p, MADE, -1)
    /\ Goto(p, "read")
    /\ UNCHANGED <<second, key, made, semid, i, file, obtained, dead>>

\* What is not in the file by now (fscanf finds nothing) leaves n as it was.
ReadFile(p) ==
    /\ pc[p] = "read"
    /\ obtained' = IF Attached(p) THEN Append(obtained, file) ELSE obtained
    /\ Goto(p, "got")
    /\ UNCHANGED <<second, key, made, semval, semadj, semid, i, file, dead>>

ConsumerRelease(p) ==
    /\ pc[p] = "got" /\ Attached(p) /\ Add(p, READ, 1)
    /\ Goto(p, "wait")
    /\ UNCHANGED <<second, key, made, semid, i, file, obtained, dead>>

-----------------------------------------------------------------------------
(***************************************************************************)
(* Errors and kills.                                                       *)
(***************************************************************************)

\* Slip: a failing semop is reported and tried again.
SemopFailsRetried(p) ==
    /\ pc[p] \in {"setall", "loop", "made", "wait", "got"} /\ ~Attached(p)
    /\ UNCHANGED vars

\* semop or semctl fails: the set is gone, or its number is out of range.
SemopFails(p) ==
    /\ \/ pc[p] \in {"setall", "loop", "made", "wait", "got"} /\ ~Attached(p)
       \/ pc[p] = "wait" /\ second = "range"
    /\ Exit(p, "exit")

FopenFails(p) == pc[p] \in {"write", "read"} /\ Exit(p, "exit")

Kill(p) == pc[p] \in (Producing \cup Consuming) /\ Exit(p, "exit")

-----------------------------------------------------------------------------
Step(p) ==
    \/ Semget(p) \/ SemgetFails(p) \/ SetAll(p)
    \/ ProducerAcquire(p) \/ OpenToWrite(p) \/ CloseWritten(p)
    \/ ProducerRelease(p) \/ Rmid(p)
    \/ ConsumerAcquire(p) \/ ReadFile(p) \/ ConsumerRelease(p) \/ SemopFails(p)

Next ==
    \E p \in Runs :
        Step(p) \/ SemgetExcl(p) \/ SemgetExclFails(p) \/ FopenFails(p) \/ Kill(p)

Spec == Init /\ [][Next]_vars

\* A run goes on while it can.
FairSpec == Spec /\ \A p \in Runs : WF_vars(Step(p))

-----------------------------------------------------------------------------
(***************************************************************************)
(* Properties.                                                             *)
(***************************************************************************)

TypeOK ==
    /\ second \in Seconds
    /\ key \in {0, made} /\ made \in 0 .. MaxSets
    /\ semval \in [Sems -> Nat]
    /\ semadj \in [Runs -> [Sems -> Int]]
    /\ pc \in [Runs -> Producing \cup Consuming \cup {"start", "exists", "exit"}]
    /\ semid \in [Runs -> 0 .. MaxSets] /\ i \in [Runs -> 0 .. COUNT]
    /\ file \in {<< >>} \cup (1 .. MaxSets) \X (1 .. COUNT)
    /\ dead \in BOOLEAN

\* A session has one producer, even when runs start at the same time and when
\* the session before has only just been removed.
OneProducer ==
    \A p, q \in Runs :
        p # q /\ semid[p] = semid[q] /\ pc[p] \in Producing => pc[q] \notin Producing

\* Nobody reads the file before the producer of the session has put in its first
\* number, whatever the undo of dead runs leaves in the semaphores.  As long as nobody
\* has died, producer and consumers take turns: each number is read whole, once and in
\* order, and not overwritten before.  A build whose second operation lets the producer
\* on before the number has been read is the exception.
Alternates ==
    /\ \A q \in Runs : pc[q] = "read" /\ Attached(q) =>
         \E p \in Runs : semid[p] = key /\ i[p] > 0
    /\ ~dead /\ second # "release" =>
         /\ \A n \in 1 .. Len(obtained) : obtained[n] = <<made, n>>
         /\ \A p, q \in Runs :
              Attached(p) /\ Attached(q) /\ pc[p] \in {"write", "close", "made"} =>
                  Len(obtained) = i[p] /\ pc[q] # "read"

\* A consumer ends after the removal of its set, and a producer ends when it has
\* a consumer and nobody dies.
SessionEnds ==
    /\ \A p \in Runs : pc[p] \in Consuming /\ ~Attached(p) ~> pc[p] = "exit"
    /\ \A p, q \in Runs :
         pc[p] \in Producing /\ pc[q] \in Consuming /\ semid[p] = semid[q]
             ~> pc[p] = "exit" \/ dead
=============================================================================
