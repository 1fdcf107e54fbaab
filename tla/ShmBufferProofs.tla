-------------------------- MODULE ShmBufferProofs --------------------------
(***************************************************************************)
(* Proofs about the two ways in which messages wait for their readers.     *)
(*                                                                         *)
(* ShmBuffer, for any number of slots and any sleep_limits.  While both    *)
(* children live the semaphores count the free and the filled slots        *)
(* (Counted); the death of one of them only makes the semaphore the other  *)
(* one waits for smaller (ProducerDead, ConsumerDead); so a writer has a   *)
(* free slot, a reader a filled one (Room), and the ring between head and  *)
(* tail holds the next strings in order (Ring).                            *)
(*                                                                         *)
(* MsgQueue, at the end of the module as the instance M: types, that clean *)
(* exits are true, and that it implements TypedQueue (ChatInv).            *)
(***************************************************************************)
EXTENDS ShmBuffer, WellFoundedInduction, TLAPS

Waiting == sent - Len(received)

\* Strings acquired and released so far by each child.
PAcquired == sent + One(pc["producer"] = "write")
PReleased == sent - One(pc["producer"] = "release")
CAcquired == Len(received) + One(pc["consumer"] = "copy")
CReleased == Len(received) - One(pc["consumer"] = "release")

\* The semaphores have been set and still exist.
SetUp == sem = "live" /\ (pc["producer"] # "none" \/ pc["parent"] = "fork_producer")

Started ==
    /\ pc["parent"] \in {"shmget", "shmat", "semget", "setall", "fork_producer"}
          => pc["producer"] = "none" /\ pc["consumer"] = "none"
    /\ pc["parent"] = "fork_consumer" => pc["consumer"] = "none"
    /\ pc["parent"] \in {"fork_consumer", "wait"} => pc["producer"] # "none"
    /\ pc["parent"] \in {"setall", "fork_producer", "fork_consumer", "wait"}
          => sem = "live"
    /\ pc["producer"] = "none" => sent = 0 /\ pc["consumer"] = "none"
    /\ pc["consumer"] = "none" => received = << >>

Undo ==
    SetUp =>
        /\ semadj["producer"][AVAIL_SLOTS] =
              IF Ended("producer") THEN 0 ELSE PAcquired
        /\ semadj["producer"][TO_CONSUME] =
              IF Ended("producer") THEN 0 ELSE - PReleased
        /\ semadj["consumer"][AVAIL_SLOTS] =
              IF Ended("consumer") THEN 0 ELSE - CReleased
        /\ semadj["consumer"][TO_CONSUME] =
              IF Ended("consumer") THEN 0 ELSE CAcquired

Counted ==
    SetUp /\ ~Ended("producer") /\ ~Ended("consumer") =>
        /\ semval[AVAIL_SLOTS] = N_SLOTS - PAcquired + CReleased
        /\ semval[TO_CONSUME] = PReleased - CAcquired

ProducerDead ==
    SetUp /\ Ended("producer") /\ ~Ended("consumer") => semval[TO_CONSUME] = 0

ConsumerDead ==
    SetUp /\ Ended("consumer") /\ ~Ended("producer") =>
        semval[AVAIL_SLOTS] = 0 \/ semval[AVAIL_SLOTS] + PAcquired <= N_SLOTS

Room ==
    /\ Waiting \in 0 .. N_SLOTS
    /\ pc["producer"] = "write" => Waiting < N_SLOTS
    /\ pc["consumer"] = "copy" => Waiting > 0

SlotAfter(k, j) == IF k + j < N_SLOTS THEN k + j ELSE k + j - N_SLOTS

Ring ==
    /\ tail - head = Waiting \/ tail - head = Waiting - N_SLOTS
    /\ \A j \in Slots : j < Waiting =>
          buffer[SlotAfter(head, j)] = Len(received) + 1 + j

Inv == /\ TypeOK /\ Started /\ Undo /\ Counted /\ ProducerDead /\ ConsumerDead
       /\ Room /\ Ring

-----------------------------------------------------------------------------
(***************************************************************************)
(* Types.                                                                  *)
(***************************************************************************)

LEMMA SlotSuccessor ==
    ASSUME NEW k \in Slots
    PROVE  (k + 1) % N_SLOTS = IF k + 1 = N_SLOTS THEN 0 ELSE k + 1
<1>1. N_SLOTS \in Nat /\ N_SLOTS > 0 /\ k \in Nat /\ k + 1 <= N_SLOTS
  BY ConstantsAssumption DEF ConstantsAssumption, Slots
<1>2. CASE k + 1 = N_SLOTS
  BY <1>1, <1>2
<1>3. CASE k + 1 < N_SLOTS
  BY <1>1, <1>3
<1>4. QED
  BY <1>1, <1>2, <1>3

LEMMA Distinct ==
    /\ Children = {"producer", "consumer"}
    /\ Procs = {"parent", "producer", "consumer"}
    /\ Sems = {0, 1} /\ AVAIL_SLOTS = 0 /\ TO_CONSUME = 1
BY DEF Children, Procs, Sems, AVAIL_SLOTS, TO_CONSUME

LEMMA TerminateTypes ==
    ASSUME TypeOK, NEW c \in Children, Terminate(c)
    PROVE  TypeOK'
<1>1. semval' \in [Sems -> Nat]
  BY DEF Terminate, TypeOK
<1>2. semadj' \in [Children -> [Sems -> Int]]
  BY DEF Terminate, TypeOK
<1>3. pc' \in [Procs -> ParentLabels \cup ChildLabels]
  BY DEF Terminate, TypeOK, Goto, ChildLabels
<1>4. QED
  BY <1>1, <1>2, <1>3 DEF Terminate, TypeOK, mem, locals

LEMMA SemopTypes ==
    ASSUME TypeOK, NEW c \in Children, NEW s \in Sems, NEW op \in Int,
           Semop(c, s, op)
    PROVE  /\ semval' \in [Sems -> Nat]
           /\ semadj' \in [Children -> [Sems -> Int]]
<1>1. semval' \in [Sems -> Nat]
  BY DEF Semop, TypeOK
<1>2. [semadj[c] EXCEPT ![s] = @ - op] \in [Sems -> Int]
  BY DEF TypeOK
<1>3. QED
  BY <1>1, <1>2 DEF Semop, TypeOK

LEMMA TypeStep ==
    ASSUME TypeOK, [Next]_vars
    PROVE  TypeOK'
<1> USE DEF Goto, ParentLabels, ChildLabels, mem, ipc, locals
<1>1. CASE UNCHANGED vars
  BY <1>1 DEF vars, TypeOK
<1>2. CASE ShmAttach \/ SetAll \/ RemoveSem
  <2>1. [k \in Slots |-> 0] \in [Slots -> Nat] /\ 0 \in Slots
    BY ConstantsAssumption DEF ConstantsAssumption, Slots
  <2>2. /\ [s \in Sems |-> 0] \in [Sems -> Nat]
        /\ [s \in Sems |-> IF s = AVAIL_SLOTS THEN N_SLOTS ELSE 0] \in [Sems -> Nat]
        /\ [c \in Children |-> [s \in Sems |-> 0]] \in [Children -> [Sems -> Int]]
    BY ConstantsAssumption DEF ConstantsAssumption
  <2>3. QED
    BY <1>2, <2>1, <2>2 DEF ShmAttach, SetAll, RemoveSem, ParentMoves, TypeOK
<1>3. CASE \/ ShmGet \/ SemGet \/ ForkProducer \/ ForkConsumer \/ ParentFails
           \/ ParentKilled \/ RemoveShm
  BY <1>3 DEF ShmGet, SemGet, ForkProducer, ForkConsumer, ParentFails,
     ParentKilled, RemoveShm, ParentMoves, TypeOK
<1>4. CASE Wait \/ KillOther
  BY <1>4, Distinct DEF Wait, KillOther, Target, ParentMoves, TypeOK
<1>5. ASSUME NEW c \in Children, Exec(c) \/ Attach(c) \/ Sleep(c) \/ Signal(c)
      PROVE  TypeOK'
  BY <1>5 DEF Exec, Attach, Sleep, Signal, TypeOK
<1>6. ASSUME NEW c \in Children, OpenSem(c)
      PROVE  TypeOK'
  BY <1>6, ConstantsAssumption DEF ConstantsAssumption, OpenSem, TypeOK
<1>7. ASSUME NEW c \in Children,
             \/ ExecFails(c) \/ AttachFails(c) \/ OpenSemFails(c)
             \/ SemopFails(c) \/ SleepDividesByZero(c) \/ Die(c)
      PROVE  TypeOK'
  BY <1>7, TerminateTypes DEF ExecFails, AttachFails, OpenSemFails, SemopFails,
     SleepDividesByZero, Die
<1>8. CASE ProducerEnds
  BY <1>8, TerminateTypes, Distinct DEF ProducerEnds
<1>9. CASE ProducerAcquire \/ ProducerRelease \/ ConsumerAcquire \/ ConsumerRelease
  <2>1. PICK c \in Children, s \in Sems, op \in {-1, 1}, l \in ChildLabels :
          Semop(c, s, op) /\ Goto(c, l)
          /\ UNCHANGED <<mem, sent, received, locals>>
    BY <1>9, Distinct DEF ProducerAcquire, ProducerRelease, ConsumerAcquire,
       ConsumerRelease
  <2>2. /\ semval' \in [Sems -> Nat]
        /\ semadj' \in [Children -> [Sems -> Int]]
    BY <2>1, SemopTypes
  <2>3. QED
    BY <2>1, <2>2 DEF Semop, TypeOK
<1>10. CASE Write
  <2>1. tail' \in Slots
    BY <1>10, SlotSuccessor, ConstantsAssumption
       DEF Write, TypeOK, Slots, ConstantsAssumption
  <2>2. buffer' \in [Slots -> Nat] /\ sent' \in Nat
    BY <1>10 DEF Write, TypeOK
  <2>3. QED
    BY <1>10, <2>1, <2>2 DEF Write, TypeOK
<1>11. CASE Copy
  <2>1. head' \in Slots
    BY <1>11, SlotSuccessor, ConstantsAssumption
       DEF Copy, TypeOK, Slots, ConstantsAssumption
  <2>2. received' \in Seq(Nat)
    BY <1>11 DEF Copy, TypeOK
  <2>3. QED
    BY <1>11, <2>1, <2>2 DEF Copy, TypeOK
<1>12. QED
  BY <1>1, <1>2, <1>3, <1>4, <1>5, <1>6, <1>7, <1>8, <1>9, <1>10, <1>11
     DEF Next, Parent, Producer, Consumer, Child

LEMMA TypeInit == Init => TypeOK
<1> SUFFICES ASSUME Init
             PROVE  TypeOK
  OBVIOUS
<1>1. buffer \in [Slots -> Nat] /\ head \in Slots /\ tail \in Slots
  BY ConstantsAssumption DEF Init, Slots, ConstantsAssumption
<1>2. sleep_limit \in [Children -> (1 - TIMES) .. (TIMES - 1)]
  BY ConstantsAssumption DEF Init, ConstantsAssumption
<1>3. QED
  BY <1>1, <1>2 DEF Init, TypeOK, ParentLabels, ChildLabels

\* The state keeps its types: the semaphores never go below 0, head and tail
\* stay inside the ring, for any number of slots.
THEOREM ShmTypeCorrect == Spec => []TypeOK
BY TypeInit, TypeStep, PTL DEF Spec

-----------------------------------------------------------------------------
(***************************************************************************)
(* Inv is inductive.                                                       *)
(***************************************************************************)

\* A step that leaves strings and semaphores alone, and moves no child into or
\* out of the labels that the invariant counts.
LEMMA QuietStep ==
    ASSUME Inv, TypeOK', Started', SetUp' => SetUp,
           UNCHANGED <<semval, semadj, mem, sent, received>>,
           \A c \in Children : /\ Ended(c)' <=> Ended(c)
                               /\ (pc'[c] = "write")   <=> (pc[c] = "write")
                               /\ (pc'[c] = "copy")    <=> (pc[c] = "copy")
                               /\ (pc'[c] = "release") <=> (pc[c] = "release")
    PROVE  Inv'
<1> DEFINE Same(c) == /\ Ended(c)' <=> Ended(c)
                      /\ (pc'[c] = "write")   <=> (pc[c] = "write")
                      /\ (pc'[c] = "copy")    <=> (pc[c] = "copy")
                      /\ (pc'[c] = "release") <=> (pc[c] = "release")
<1>1. Same("producer") /\ Same("consumer")
  BY Distinct
<1>2. /\ PAcquired' = PAcquired /\ PReleased' = PReleased
      /\ CAcquired' = CAcquired /\ CReleased' = CReleased
      /\ Waiting' = Waiting
  BY <1>1 DEF PAcquired, PReleased, CAcquired, CReleased, Waiting, One
<1>3. Undo' /\ Counted' /\ ProducerDead' /\ ConsumerDead'
  BY <1>1, <1>2 DEF Inv, Undo, Counted, ProducerDead, ConsumerDead
<1>4. Room' /\ Ring'
  BY <1>1, <1>2 DEF Inv, Room, Ring, mem, SlotAfter
<1>5. QED
  BY <1>3, <1>4 DEF Inv

\* Before the children exist, and after the set is gone, only the strings count.
LEMMA NoSetStep ==
    ASSUME Inv, TypeOK', Started', ~SetUp',
           UNCHANGED <<mem, sent, received>>,
           \A c \in Children : pc'[c] = pc[c]
    PROVE  Inv'
<1>1. pc'["producer"] = pc["producer"] /\ pc'["consumer"] = pc["consumer"]
  BY Distinct
<1>2. Undo' /\ Counted' /\ ProducerDead' /\ ConsumerDead'
  BY DEF Undo, Counted, ProducerDead, ConsumerDead
<1>3. Room' /\ Ring'
  BY <1>1 DEF Inv, Room, Ring, mem, SlotAfter, Waiting
<1>4. QED
  BY <1>2, <1>3 DEF Inv

LEMMA ParentStep ==
    ASSUME Inv, TypeOK', Parent \/ ParentFails \/ ParentKilled
    PROVE  Inv'
<1> USE Distinct DEF ParentMoves, Goto, mem, ipc, locals
<1>0. TypeOK /\ Started
  BY DEF Inv
<1>1. Started'
  BY ZenonT(30), <1>0 DEF TypeOK, Started, Parent, ParentFails, ParentKilled, ParentGone,
     ShmGet, ShmAttach, SemGet, SetAll, ForkProducer, ForkConsumer, Wait,
     KillOther, RemoveShm, RemoveSem
<1>2. CASE \/ ShmGet \/ ForkProducer \/ ForkConsumer \/ Wait \/ KillOther
           \/ RemoveShm \/ ParentFails \/ ParentKilled
  <2>1. UNCHANGED <<sem, semval, semadj, mem, sent, received>>
    BY <1>2 DEF ShmGet, ForkProducer, ForkConsumer, Wait, KillOther, RemoveShm,
       ParentFails, ParentKilled
  <2>2. SetUp' => SetUp
    BY <1>0, <1>2, <2>1 DEF ShmGet, ForkProducer, ForkConsumer, Wait, KillOther,
       RemoveShm, ParentFails, ParentKilled, SetUp, TypeOK, Started
  <2>3. \A c \in Children : /\ Ended(c)' <=> Ended(c)
                            /\ (pc'[c] = "write")   <=> (pc[c] = "write")
                            /\ (pc'[c] = "copy")    <=> (pc[c] = "copy")
                            /\ (pc'[c] = "release") <=> (pc[c] = "release")
    <3>1. CASE Wait
      BY <1>0, <3>1 DEF Wait, TypeOK, Ended
    <3>2. CASE ForkProducer \/ ForkConsumer
      BY <1>0, <3>2 DEF ForkProducer, ForkConsumer, TypeOK, Started, Ended
    <3>3. CASE ShmGet \/ KillOther \/ RemoveShm \/ ParentFails \/ ParentKilled
      <4>1. \A c \in Children : pc'[c] = pc[c]
        BY <1>0, <3>3 DEF ShmGet, KillOther, RemoveShm, ParentFails,
           ParentKilled, TypeOK
      <4>2. QED
        BY <4>1 DEF Ended
    <3>4. QED
      BY <1>2, <3>1, <3>2, <3>3
  <2>4. QED
    BY <1>1, <2>1, <2>2, <2>3, QuietStep
<1>3. CASE ShmAttach
  <2>1. sent = 0 /\ received = << >> /\ sent' = 0 /\ received' = << >>
    BY <1>0, <1>3 DEF ShmAttach, Started
  <2>2. /\ pc'["producer"] = "none" /\ pc'["consumer"] = "none"
        /\ pc'["parent"] = "semget"
    BY <1>0, <1>3 DEF ShmAttach, Started, TypeOK
  <2>3. Undo' /\ Counted' /\ ProducerDead' /\ ConsumerDead'
    BY <2>2 DEF SetUp, Undo, Counted, ProducerDead, ConsumerDead
  <2>4. Waiting' = 0
    <3>1. Len(<< >>) = 0
      OBVIOUS
    <3>2. Len(received') = 0
      BY <2>1, <3>1
    <3>3. Waiting' = 0 - 0
      BY ONLY <2>1, <3>2 DEF Waiting
    <3>4. QED
      BY <3>3
  <2>5. Room' /\ Ring'
    BY <1>3, <2>2, <2>4, ConstantsAssumption
       DEF ShmAttach, Room, Ring, ConstantsAssumption, Slots
  <2>6. QED
    BY <1>1, <2>3, <2>5 DEF Inv
<1>4. CASE SemGet \/ RemoveSem
  <2>1. ~SetUp' /\ \A c \in Children : pc'[c] = pc[c]
    BY <1>0, <1>4 DEF SemGet, RemoveSem, SetUp, Started, TypeOK
  <2>2. UNCHANGED <<mem, sent, received>>
    BY <1>4 DEF SemGet, RemoveSem
  <2>3. QED
    BY <1>1, <2>1, <2>2, NoSetStep
<1>5. CASE SetAll
  <2>1. sent = 0 /\ received = << >> /\ UNCHANGED <<mem, sent, received>>
    BY <1>0, <1>5 DEF SetAll, Started
  <2>2. pc'["producer"] = "none" /\ pc'["consumer"] = "none"
        /\ pc["producer"] = "none" /\ pc["consumer"] = "none"
    BY <1>0, <1>5 DEF SetAll, Started, TypeOK
  <2>3. /\ PAcquired' = 0 /\ PReleased' = 0 /\ CAcquired' = 0 /\ CReleased' = 0
    BY <2>1, <2>2 DEF PAcquired, PReleased, CAcquired, CReleased, One
  <2>4. /\ semval'[0] = N_SLOTS /\ semval'[1] = 0
        /\ \A c \in Children, s \in Sems : semadj'[c][s] = 0
    BY <1>5 DEF SetAll
  <2>5. Undo' /\ Counted' /\ ProducerDead' /\ ConsumerDead'
    BY <2>2, <2>3, <2>4, ConstantsAssumption
       DEF Undo, Counted, ProducerDead, ConsumerDead, Ended, ConstantsAssumption
  <2>6. Room' /\ Ring'
    BY <2>1, <2>2 DEF Inv, Room, Ring, SlotAfter, Waiting
  <2>7. QED
    BY <1>1, <2>5, <2>6 DEF Inv
<1>6. QED
  BY <1>2, <1>3, <1>4, <1>5 DEF Parent

\* A death takes the child's own operations back, which can only make the
\* semaphore its partner waits for smaller.
LEMMA TerminateStep ==
    ASSUME Inv, TypeOK', NEW c \in Children, Active(c), Terminate(c)
    PROVE  Inv'
<1> USE Distinct DEF Goto, mem, locals
<1>0. TypeOK /\ Started /\ Undo /\ Counted /\ ProducerDead /\ ConsumerDead
      /\ Room /\ Ring
  BY DEF Inv
<1>1. /\ pc' = [pc EXCEPT ![c] = "zombie"]
      /\ UNCHANGED <<sem, buffer, head, tail, sent, received>>
      /\ \A s \in Sems : semval'[s] =
            IF semval[s] + semadj[c][s] < 0 THEN 0 ELSE semval[s] + semadj[c][s]
      /\ \A d \in Children, s \in Sems :
            semadj'[d][s] = IF d = c THEN 0 ELSE semadj[d][s]
  BY <1>0 DEF Terminate, TypeOK
<1>2. Ended(c)' /\ ~Ended(c) /\ pc'[c] = "zombie" /\ pc[c] # "none"
      /\ \A p \in Procs : p # c => pc'[p] = pc[p]
  BY <1>0, <1>1 DEF Ended, Active, TypeOK
<1>3. Started'
  BY <1>0, <1>1, <1>2 DEF Started
<1>4. SetUp' <=> SetUp
  BY <1>0, <1>1, <1>2 DEF SetUp
<1>5. Room' /\ Ring'
  BY <1>0, <1>1, <1>2 DEF Room, Ring, SlotAfter, Waiting
<1>6. CASE c = "producer"
  <2>1. /\ CAcquired' = CAcquired /\ CReleased' = CReleased
        /\ Ended("consumer")' <=> Ended("consumer")
    BY <1>1, <1>2, <1>6 DEF CAcquired, CReleased, Ended, One
  <2>2. Undo'
    BY <1>0, <1>1, <1>2, <1>4, <1>6, <2>1 DEF Undo
  <2>3. Counted' /\ ConsumerDead'
    BY <1>2, <1>6 DEF Counted, ConsumerDead
  <2>4. ProducerDead'
    <3> SUFFICES ASSUME SetUp, ~Ended("consumer")
                 PROVE  semval'[1] = 0
      BY <1>4, <2>1 DEF ProducerDead
    <3>1. semval[1] = PReleased - CAcquired
      BY <1>0, <1>2, <1>6 DEF Counted
    <3>2. semadj["producer"][1] = - PReleased
      BY <1>0, <1>2, <1>6 DEF Undo
    <3>3. PReleased \in Int /\ CAcquired \in Nat
      <4>1. sent \in Nat /\ Len(received) \in Nat
        BY <1>0 DEF TypeOK
      <4>2. QED
        BY <4>1 DEF PReleased, CAcquired, One
    <3>4. QED
      BY <1>1, <1>6, <3>1, <3>2, <3>3
  <2>5. QED
    BY <1>3, <1>5, <2>2, <2>3, <2>4 DEF Inv
<1>7. CASE c = "consumer"
  <2>1. /\ PAcquired' = PAcquired /\ PReleased' = PReleased
        /\ Ended("producer")' <=> Ended("producer")
    BY <1>1, <1>2, <1>7 DEF PAcquired, PReleased, Ended, One
  <2>2. Undo'
    BY <1>0, <1>1, <1>2, <1>4, <1>7, <2>1 DEF Undo
  <2>3. Counted' /\ ProducerDead'
    BY <1>2, <1>7 DEF Counted, ProducerDead
  <2>4. ConsumerDead'
    <3> SUFFICES ASSUME SetUp, ~Ended("producer")
                 PROVE  semval'[0] = 0 \/ semval'[0] + PAcquired <= N_SLOTS
      BY <1>4, <2>1 DEF ConsumerDead
    <3>1. semval[0] = N_SLOTS - PAcquired + CReleased
      BY <1>0, <1>2, <1>7 DEF Counted
    <3>2. semadj["consumer"][0] = - CReleased
      BY <1>0, <1>2, <1>7 DEF Undo
    <3>3. PAcquired \in Int /\ CReleased \in Int /\ N_SLOTS \in Int
      BY <1>0, ConstantsAssumption
         DEF TypeOK, PAcquired, CReleased, One, ConstantsAssumption
    <3>4. QED
      BY <1>1, <1>7, <3>1, <3>2, <3>3
  <2>5. QED
    BY <1>3, <1>5, <2>2, <2>3, <2>4 DEF Inv
<1>8. QED
  BY <1>6, <1>7

LEMMA ChildStep ==
    ASSUME Inv, TypeOK', NEW c \in Children, Child(c) \/ Signal(c)
    PROVE  Inv'
<1> USE Distinct DEF Goto, mem, ipc, locals
<1>0. TypeOK /\ Started
  BY DEF Inv
<1>1. CASE Exec(c) \/ Attach(c) \/ OpenSem(c) \/ Sleep(c) \/ Signal(c)
  <2>1. UNCHANGED <<sem, semval, semadj, mem, sent, received>>
    BY <1>1 DEF Exec, Attach, OpenSem, Sleep, Signal
  <2>2. \A p \in Procs : p # c => pc'[p] = pc[p]
    BY <1>0, <1>1 DEF Exec, Attach, OpenSem, Sleep, Signal, TypeOK
  <2>3. CASE Signal(c)
    <3>1. pc' = pc
      BY <2>3 DEF Signal
    <3>2. \A d \in Children : /\ Ended(d)' <=> Ended(d)
                              /\ (pc'[d] = "write")   <=> (pc[d] = "write")
                              /\ (pc'[d] = "copy")    <=> (pc[d] = "copy")
                              /\ (pc'[d] = "release") <=> (pc[d] = "release")
      BY <3>1 DEF Ended
    <3>3. Started' /\ (SetUp' => SetUp)
      BY <1>0, <2>1, <3>1 DEF Started, SetUp
    <3>4. QED
      BY <2>1, <3>2, <3>3, QuietStep
  <2>4. CASE Exec(c) \/ Attach(c) \/ OpenSem(c) \/ Sleep(c)
    <3>1. /\ pc[c] \in {"exec", "attach", "getsem", "sleep"}
          /\ pc'[c] \in {"attach", "getsem", "loop"}
      BY <1>0, <2>4 DEF Exec, Attach, OpenSem, Sleep, TypeOK
    <3>2. \A d \in Children : /\ Ended(d)' <=> Ended(d)
                              /\ (pc'[d] = "write")   <=> (pc[d] = "write")
                              /\ (pc'[d] = "copy")    <=> (pc[d] = "copy")
                              /\ (pc'[d] = "release") <=> (pc[d] = "release")
      BY <2>2, <3>1 DEF Ended
    <3>3. Started' /\ (SetUp' => SetUp)
      BY <1>0, <2>1, <2>2, <3>1 DEF Started, SetUp
    <3>4. QED
      BY <2>1, <3>2, <3>3, QuietStep
  <2>5. QED
    BY <1>1, <2>3, <2>4
<1>2. CASE \/ ExecFails(c) \/ AttachFails(c) \/ OpenSemFails(c)
           \/ SemopFails(c) \/ SleepDividesByZero(c) \/ Die(c)
  <2>1. Active(c) /\ Terminate(c)
    BY <1>2 DEF ExecFails, AttachFails, OpenSemFails, SemopFails, InLoop,
       SleepDividesByZero, Die, Active
  <2>2. QED
    BY <2>1, TerminateStep
<1>3. QED
  BY <1>1, <1>2 DEF Child

\* What the steps of the two loops have in common: only c moves.
LEMMA LoopFrame ==
    ASSUME Inv, NEW c \in Children, NEW from \in ChildLabels \ {"none", "zombie", "gone"},
           NEW to \in ChildLabels \ {"none", "zombie", "gone"},
           pc[c] = from, Goto(c, to), sem' = sem,
           c = "producer" => received' = received,
           c = "consumer" => sent' = sent
    PROVE  /\ \A p \in Procs : p # c => pc'[p] = pc[p]
           /\ pc'[c] = to
           /\ \A d \in Children : Ended(d)' <=> Ended(d)
           /\ Started' /\ (SetUp' <=> SetUp)
<1> USE Distinct
<1>1. pc' = [pc EXCEPT ![c] = to] /\ pc \in [Procs -> ParentLabels \cup ChildLabels]
  BY DEF Inv, TypeOK, Goto
<1>2. /\ \A p \in Procs : p # c => pc'[p] = pc[p]
      /\ pc'[c] = to
  BY <1>1
<1>3. \A d \in Children : Ended(d)' <=> Ended(d)
  BY <1>2 DEF Ended
<1>4. Started' /\ (SetUp' <=> SetUp)
  BY <1>2 DEF Inv, Started, SetUp
<1>5. QED
  BY <1>2, <1>3, <1>4

LEMMA ProducerStep ==
    ASSUME Inv, TypeOK', Producer
    PROVE  Inv'
<1> USE Distinct
<1>0. TypeOK /\ Started /\ Undo /\ Counted /\ ProducerDead /\ ConsumerDead
      /\ Room /\ Ring
  BY DEF Inv
<1>a. /\ sent \in Nat /\ Len(received) \in Nat /\ N_SLOTS \in Nat \ {0}
      /\ head \in Slots /\ tail \in Slots /\ Waiting = sent - Len(received)
      /\ semval[0] \in Nat /\ semval[1] \in Nat
  BY <1>0, ConstantsAssumption DEF TypeOK, ConstantsAssumption, Waiting
<1>1. CASE ProducerAcquire
  <2> USE <1>1 DEF ProducerAcquire, Semop, InLoop, mem, ipc, locals
  <2>1. /\ \A p \in Procs : p # "producer" => pc'[p] = pc[p]
        /\ pc'["producer"] = "write" /\ pc["producer"] = "loop"
        /\ \A d \in Children : Ended(d)' <=> Ended(d)
        /\ Started' /\ (SetUp' <=> SetUp) /\ SetUp /\ ~Ended("producer")
    BY LoopFrame DEF ChildLabels, SetUp, Ended
  <2>2. /\ PAcquired' = PAcquired + 1 /\ PReleased' = PReleased
        /\ CAcquired' = CAcquired /\ CReleased' = CReleased
        /\ PAcquired = sent /\ PReleased = sent
        /\ CAcquired \in Int /\ CReleased \in Int /\ CReleased <= Len(received)
    BY <1>a, <2>1 DEF PAcquired, PReleased, CAcquired, CReleased, One
  <2>3. /\ semval'[0] = semval[0] - 1 /\ semval[0] >= 1
        /\ semval'[1] = semval[1]
    BY SMTT(30), <1>0, <1>a DEF TypeOK
  <2>4. /\ semadj'["producer"][0] = semadj["producer"][0] + 1
        /\ semadj'["producer"][1] = semadj["producer"][1]
        /\ semadj'["consumer"] = semadj["consumer"]
        /\ semadj["producer"][0] \in Int
    BY <1>0 DEF TypeOK
  <2>5. Undo'
    BY <1>0, <2>1, <2>2, <2>4 DEF Undo
  <2>6. Counted' /\ ProducerDead'
    BY <1>0, <1>a, <2>1, <2>2, <2>3 DEF Counted, ProducerDead
  <2>7. ConsumerDead'
    BY <1>0, <1>a, <2>1, <2>2, <2>3 DEF ConsumerDead
  <2>8. Waiting < N_SLOTS
    <3>1. CASE Ended("consumer")
      BY <1>0, <1>a, <2>1, <2>2, <2>3, <3>1 DEF ConsumerDead
    <3>2. CASE ~Ended("consumer")
      BY <1>0, <1>a, <2>1, <2>2, <2>3, <3>2 DEF Counted
    <3>3. QED
      BY <3>1, <3>2
  <2>9. Room' /\ Ring'
    BY <1>0, <2>1, <2>8 DEF Room, Ring, Waiting, SlotAfter
  <2>10. QED
    BY <2>1, <2>5, <2>6, <2>7, <2>9 DEF Inv
<1>2. CASE Write
  <2> USE <1>2 DEF Write, mem, ipc, locals
  <2>1. /\ \A p \in Procs : p # "producer" => pc'[p] = pc[p]
        /\ pc'["producer"] = "release" /\ pc["producer"] = "write"
        /\ \A d \in Children : Ended(d)' <=> Ended(d)
        /\ Started' /\ (SetUp' <=> SetUp)
    BY LoopFrame DEF ChildLabels
  <2>2. /\ PAcquired' = PAcquired /\ PReleased' = PReleased
        /\ CAcquired' = CAcquired /\ CReleased' = CReleased
    BY <1>a, <2>1 DEF PAcquired, PReleased, CAcquired, CReleased, One
  <2>3. Undo' /\ Counted' /\ ProducerDead' /\ ConsumerDead'
    BY <1>0, <2>1, <2>2 DEF Undo, Counted, ProducerDead, ConsumerDead
  <2>4. Waiting \in 0 .. N_SLOTS - 1 /\ Waiting' = Waiting + 1
        /\ head' = head /\ received' = received /\ sent' = sent + 1
    BY <1>0, <1>a, <2>1 DEF Room, Waiting
  <2>5. Room'
    BY <1>0, <1>a, <2>1, <2>4 DEF Room
  <2>6. tail = SlotAfter(head, Waiting)
    BY <1>0, <1>a, <2>4 DEF Ring, SlotAfter, Slots
  <2>7. tail' - head = Waiting + 1 \/ tail' - head = Waiting + 1 - N_SLOTS
    <3>1. tail' = IF tail + 1 = N_SLOTS THEN 0 ELSE tail + 1
      BY <1>a, SlotSuccessor
    <3>2. QED
      BY <1>0, <1>a, <2>4, <3>1 DEF Ring, Slots
  <2>8. ASSUME NEW j \in Slots, j < Waiting + 1
        PROVE  buffer'[SlotAfter(head, j)] = Len(received) + 1 + j
    <3>1. SlotAfter(head, j) \in Slots
      BY <1>a DEF Slots, SlotAfter
    <3>2. CASE j = Waiting
      BY <1>0, <1>a, <2>6, <3>1, <3>2 DEF TypeOK
    <3>3. CASE j < Waiting
      <4>1. SlotAfter(head, j) # tail
        BY SMTT(30), <1>a, <2>4, <2>6, <3>3 DEF Slots, SlotAfter
      <4>2. QED
        BY <1>0, <3>1, <3>3, <4>1 DEF TypeOK, Ring
    <3>4. QED
      BY <1>a, <2>4, <2>8, <3>2, <3>3 DEF Slots
  <2>9. Ring'
    <3>1. \A j \in Slots : j < Waiting' =>
              buffer'[SlotAfter(head', j)] = Len(received') + 1 + j
      BY ONLY <2>4, <2>8 DEF SlotAfter
    <3>2. tail' - head' = Waiting' \/ tail' - head' = Waiting' - N_SLOTS
      BY ONLY <1>a, <2>4, <2>7
    <3>3. QED
      BY ONLY <3>1, <3>2 DEF Ring, SlotAfter
  <2>10. QED
    BY <2>1, <2>3, <2>5, <2>9 DEF Inv
<1>3. CASE ProducerRelease
  <2> USE <1>3 DEF ProducerRelease, Semop, mem, ipc, locals
  <2>1. /\ \A p \in Procs : p # "producer" => pc'[p] = pc[p]
        /\ pc'["producer"] = "sleep" /\ pc["producer"] = "release"
        /\ \A d \in Children : Ended(d)' <=> Ended(d)
        /\ Started' /\ (SetUp' <=> SetUp) /\ SetUp /\ ~Ended("producer")
    BY LoopFrame DEF ChildLabels, SetUp, Ended
  <2>2. /\ PAcquired' = PAcquired /\ PReleased' = PReleased + 1
        /\ CAcquired' = CAcquired /\ CReleased' = CReleased
        /\ PReleased \in Int /\ CAcquired \in Int /\ PAcquired \in Int
        /\ CReleased \in Int
    BY <1>a, <2>1 DEF PAcquired, PReleased, CAcquired, CReleased, One
  <2>3. /\ semval'[1] = semval[1] + 1 /\ semval'[0] = semval[0]
    BY <1>0, <1>a DEF TypeOK
  <2>4. /\ semadj'["producer"][1] = semadj["producer"][1] - 1
        /\ semadj'["producer"][0] = semadj["producer"][0]
        /\ semadj'["consumer"] = semadj["consumer"]
        /\ semadj["producer"][1] \in Int
    BY <1>0 DEF TypeOK
  <2>5. Undo'
    BY <1>0, <2>1, <2>2, <2>4 DEF Undo
  <2>6. Counted' /\ ProducerDead' /\ ConsumerDead'
    <3>1. Counted'
      BY <1>0, <1>a, <2>1, <2>2, <2>3 DEF Counted
    <3>2. ProducerDead'
      BY <2>1 DEF ProducerDead
    <3>3. ConsumerDead'
      BY <1>0, <1>a, <2>1, <2>2, <2>3 DEF ConsumerDead
    <3> QED BY <3>1, <3>2, <3>3
  <2>7. Room' /\ Ring'
    BY <1>0, <2>1 DEF Room, Ring, Waiting, SlotAfter
  <2>8. QED
    BY <2>1, <2>5, <2>6, <2>7 DEF Inv
<1>4. CASE ProducerEnds
  BY <1>4, TerminateStep DEF ProducerEnds, Active
<1>5. QED
  BY <1>1, <1>2, <1>3, <1>4 DEF Producer

LEMMA ConsumerStep ==
    ASSUME Inv, TypeOK', Consumer
    PROVE  Inv'
<1> USE Distinct
<1>0. TypeOK /\ Started /\ Undo /\ Counted /\ ProducerDead /\ ConsumerDead
      /\ Room /\ Ring
  BY DEF Inv
<1>a. /\ sent \in Nat /\ Len(received) \in Nat /\ N_SLOTS \in Nat \ {0}
      /\ head \in Slots /\ tail \in Slots /\ Waiting = sent - Len(received)
      /\ semval[0] \in Nat /\ semval[1] \in Nat
  BY <1>0, ConstantsAssumption DEF TypeOK, ConstantsAssumption, Waiting
<1>1. CASE ConsumerAcquire
  <2> USE <1>1 DEF ConsumerAcquire, Semop, InLoop, mem, ipc, locals
  <2>1. /\ \A p \in Procs : p # "consumer" => pc'[p] = pc[p]
        /\ pc'["consumer"] = "copy" /\ pc["consumer"] = "loop"
        /\ \A d \in Children : Ended(d)' <=> Ended(d)
        /\ Started' /\ (SetUp' <=> SetUp) /\ ~Ended("consumer") /\ sem = "live"
    BY LoopFrame DEF ChildLabels, Ended
  <2>2. /\ PAcquired' = PAcquired /\ PReleased' = PReleased
        /\ CAcquired' = CAcquired + 1 /\ CReleased' = CReleased
        /\ CAcquired = Len(received) /\ CReleased = Len(received)
        /\ PAcquired \in Int /\ PReleased \in Int /\ PReleased <= sent
    BY <1>a, <2>1 DEF PAcquired, PReleased, CAcquired, CReleased, One
  <2>3. /\ semval'[1] = semval[1] - 1 /\ semval[1] >= 1
        /\ semval'[0] = semval[0]
    BY SMTT(30), <1>0, <1>a DEF TypeOK
  <2>4. /\ semadj'["consumer"][1] = semadj["consumer"][1] + 1
        /\ semadj'["consumer"][0] = semadj["consumer"][0]
        /\ semadj'["producer"] = semadj["producer"]
        /\ semadj["consumer"][1] \in Int
    BY <1>0 DEF TypeOK
  <2>5. Undo'
    BY <1>0, <2>1, <2>2, <2>4 DEF Undo
  <2>6. Counted' /\ ConsumerDead' /\ ProducerDead'
    BY SMTT(30), <1>0, <1>a, <2>1, <2>2, <2>3 DEF Counted, ProducerDead, ConsumerDead
  <2>7. SetUp
    BY <1>0, <2>1 DEF Started, SetUp
  <2>8. Waiting > 0
    BY SMTT(30), <1>0, <1>a, <2>1, <2>2, <2>3, <2>7 DEF Counted, ProducerDead
  <2>9. Room' /\ Ring'
    BY <1>0, <2>1, <2>8 DEF Room, Ring, Waiting, SlotAfter
  <2>10. QED
    BY <2>1, <2>5, <2>6, <2>9 DEF Inv
<1>2. CASE Copy
  <2> USE <1>2 DEF Copy, mem, ipc, locals
  <2>1. /\ \A p \in Procs : p # "consumer" => pc'[p] = pc[p]
        /\ pc'["consumer"] = "release" /\ pc["consumer"] = "copy"
        /\ \A d \in Children : Ended(d)' <=> Ended(d)
        /\ Started' /\ (SetUp' <=> SetUp)
    BY LoopFrame DEF ChildLabels
  <2>2. Len(received') = Len(received) + 1
    BY <1>0 DEF TypeOK
  <2>3. /\ PAcquired' = PAcquired /\ PReleased' = PReleased
        /\ CAcquired' = CAcquired /\ CReleased' = CReleased
    BY <1>a, <2>1, <2>2 DEF PAcquired, PReleased, CAcquired, CReleased, One
  <2>4. Undo' /\ Counted' /\ ProducerDead' /\ ConsumerDead'
    BY <1>0, <2>1, <2>3 DEF Undo, Counted, ProducerDead, ConsumerDead
  <2>5. Waiting \in 1 .. N_SLOTS /\ Waiting' = Waiting - 1
        /\ tail' = tail /\ buffer' = buffer
    BY <1>0, <1>a, <2>1, <2>2 DEF Room, Waiting
  <2>6. Room'
    BY <1>0, <1>a, <2>1, <2>5 DEF Room
  <2>7. head' = IF head + 1 = N_SLOTS THEN 0 ELSE head + 1
    BY <1>a, SlotSuccessor
  <2>8. tail - head' = Waiting - 1 \/ tail - head' = Waiting - 1 - N_SLOTS
    BY <1>0, <1>a, <2>5, <2>7 DEF Ring, Slots
  <2>9. ASSUME NEW j \in Slots, j < Waiting - 1
        PROVE  buffer[SlotAfter(head', j)] = Len(received) + 1 + 1 + j
    <3>1. SlotAfter(head', j) = SlotAfter(head, j + 1)
      BY ONLY <1>a, <2>5, <2>7, <2>9, j \in Slots DEF Slots, SlotAfter
    <3>2. j + 1 \in Slots /\ j + 1 < Waiting
      BY <1>a, <2>5, <2>9 DEF Slots
    <3>3. QED
      BY <1>0, <1>a, <3>1, <3>2 DEF Ring, Slots
  <2>10. Ring'
    BY <2>2, <2>5, <2>8, <2>9 DEF Ring, SlotAfter
  <2>11. QED
    BY <2>1, <2>4, <2>6, <2>10 DEF Inv
<1>3. CASE ConsumerRelease
  <2> USE <1>3 DEF ConsumerRelease, Semop, mem, ipc, locals
  <2>1. /\ \A p \in Procs : p # "consumer" => pc'[p] = pc[p]
        /\ pc'["consumer"] = "sleep" /\ pc["consumer"] = "release"
        /\ \A d \in Children : Ended(d)' <=> Ended(d)
        /\ Started' /\ (SetUp' <=> SetUp) /\ ~Ended("consumer")
    BY LoopFrame DEF ChildLabels, Ended
  <2>2. /\ PAcquired' = PAcquired /\ PReleased' = PReleased
        /\ CAcquired' = CAcquired /\ CReleased' = CReleased + 1
        /\ PReleased \in Int /\ CAcquired \in Int /\ PAcquired \in Int
        /\ CReleased \in Int
    BY <1>a, <2>1 DEF PAcquired, PReleased, CAcquired, CReleased, One
  <2>3. /\ semval'[0] = semval[0] + 1 /\ semval'[1] = semval[1]
    BY <1>0, <1>a DEF TypeOK
  <2>4. /\ semadj'["consumer"][0] = semadj["consumer"][0] - 1
        /\ semadj'["consumer"][1] = semadj["consumer"][1]
        /\ semadj'["producer"] = semadj["producer"]
        /\ semadj["consumer"][0] \in Int
    BY <1>0 DEF TypeOK
  <2>5. Undo'
    BY <1>0, <2>1, <2>2, <2>4 DEF Undo
  <2>6. Counted' /\ ProducerDead' /\ ConsumerDead'
    BY SMTT(30), <1>0, <1>a, <2>1, <2>2, <2>3 DEF Counted, ProducerDead, ConsumerDead
  <2>7. Room' /\ Ring'
    BY <1>0, <2>1 DEF Room, Ring, Waiting, SlotAfter
  <2>8. QED
    BY <2>1, <2>5, <2>6, <2>7 DEF Inv
<1>4. QED
  BY <1>1, <1>2, <1>3 DEF Consumer

LEMMA InvInvariant == Spec => []Inv
<1>1. Init => Inv
  <2> SUFFICES ASSUME Init
               PROVE  Inv
    OBVIOUS
  <2>1. sent = 0 /\ received = << >> /\ head = 0 /\ tail = 0
        /\ pc["parent"] = "shmget" /\ pc["producer"] = "none"
        /\ pc["consumer"] = "none"
    BY Distinct DEF Init
  <2>2. Len(received) = 0
    BY <2>1
  <2>3. Waiting = 0
    <3>1. Waiting = 0 - 0
      BY ONLY <2>1, <2>2 DEF Waiting
    <3>2. QED
      BY <3>1
  <2>4. Room /\ Ring
    BY <2>1, <2>3, ConstantsAssumption DEF Room, Ring, ConstantsAssumption, Slots
  <2>5. ~SetUp /\ Started
    BY <2>1 DEF SetUp, Started
  <2>6. QED
    BY <2>4, <2>5, TypeInit DEF Inv, Undo, Counted, ProducerDead, ConsumerDead
<1>2. Inv /\ [Next]_vars => Inv'
  <2> SUFFICES ASSUME Inv, [Next]_vars
               PROVE  Inv'
    OBVIOUS
  <2>0. TypeOK'
    BY TypeStep DEF Inv
  <2>1. CASE UNCHANGED vars
    <3>1. /\ Waiting' = Waiting /\ PAcquired' = PAcquired
          /\ PReleased' = PReleased /\ CAcquired' = CAcquired
          /\ CReleased' = CReleased /\ (SetUp' <=> SetUp)
          /\ \A c \in Children : Ended(c)' <=> Ended(c)
      BY <2>1 DEF vars, ipc, mem, Waiting, PAcquired, PReleased, CAcquired,
         CReleased, SetUp, Ended, One
    <3>2. UNCHANGED <<sem, semval, semadj, buffer, head, tail, sent, received, pc>>
      BY <2>1 DEF vars, ipc, mem
    <3>3. QED
      BY <2>0, <3>1, <3>2, Distinct DEF Inv, Started, Undo, Counted,
         ProducerDead, ConsumerDead, Room, Ring, SlotAfter
  <2>2. CASE Parent \/ ParentFails \/ ParentKilled
    BY <2>0, <2>2, ParentStep
  <2>3. CASE Producer
    BY <2>0, <2>3, ProducerStep
  <2>4. CASE Consumer
    BY <2>0, <2>4, ConsumerStep
  <2>5. CASE \E c \in Children : Child(c) \/ Signal(c)
    BY <2>0, <2>5, ChildStep
  <2>6. QED
    BY <2>1, <2>2, <2>3, <2>4, <2>5 DEF Next
<1>3. QED
  BY <1>1, <1>2, PTL DEF Spec

-----------------------------------------------------------------------------
(***************************************************************************)
(* Theorems.                                                               *)
(***************************************************************************)

\* Producer and consumer are never at work on the same slot, for any number of
\* slots, whoever dies at whatever point.
THEOREM SlotsNeverShared == Spec => []SlotExclusive
<1>1. Inv => SlotExclusive
  BY ConstantsAssumption DEF Inv, TypeOK, Slots, Room, Ring, SlotExclusive,
     ConstantsAssumption
<1>2. QED
  BY <1>1, InvInvariant, PTL

\* Until a child dies the semaphores count the free slots and the strings that
\* wait: no operation is missing and none is done on the wrong semaphore.
THEOREM SlotsCounted == Spec => []SlotsAccounted
<1>1. Inv => SlotsAccounted
  <2> SUFFICES ASSUME Inv, pc["parent"] = "wait", \A c \in Children : ~Ended(c)
               PROVE  /\ semval[AVAIL_SLOTS] = N_SLOTS - PAcquired + CReleased
                      /\ semval[TO_CONSUME] = PReleased - CAcquired
    BY DEF SlotsAccounted, PAcquired, PReleased, CAcquired, CReleased
  <2>1. SetUp
    BY DEF Inv, Started, SetUp
  <2>2. ~Ended("producer") /\ ~Ended("consumer")
    BY Distinct
  <2>3. QED
    BY <2>1, <2>2 DEF Inv, Counted
<1>2. QED
  BY <1>1, InvInvariant, PTL

\* After the end of the producer nothing that waits in the ring is consumed.
THEOREM StrandedStrings == Spec => StrandedAfterProducer
<1>1. Inv /\ [Next]_vars =>
        [Ended("producer") /\ pc'["consumer"] = "copy"
            => pc["consumer"] = "copy"]_vars
  <2> SUFFICES ASSUME Inv, Next, Ended("producer"), pc'["consumer"] = "copy",
                      pc["consumer"] # "copy"
               PROVE  FALSE
    BY DEF vars
  <2> USE Distinct DEF Goto
  <2>0. pc \in [Procs -> ParentLabels \cup ChildLabels]
    BY DEF Inv, TypeOK
  <2>1. CASE Parent \/ ParentFails \/ ParentKilled
    BY <2>0, <2>1 DEF Parent, ParentFails, ParentKilled, ParentMoves, ShmGet,
       ShmAttach, SemGet, SetAll, ForkProducer, ForkConsumer, Wait, KillOther,
       RemoveShm, RemoveSem
  <2>2. CASE Producer
    BY <2>0, <2>2 DEF Producer, ProducerAcquire, Write, ProducerRelease,
       ProducerEnds, Terminate
  <2>3. CASE \E c \in Children : Child(c) \/ Signal(c)
    BY <2>0, <2>3 DEF Child, Signal, Exec, ExecFails, Attach, AttachFails,
       OpenSem, OpenSemFails, SemopFails, Sleep, SleepDividesByZero, Die,
       Terminate
  <2>4. CASE Copy \/ ConsumerRelease
    BY <2>0, <2>4 DEF Copy, ConsumerRelease
  <2>5. CASE ConsumerAcquire
    <3>1. SetUp /\ ~Ended("consumer") /\ semval[TO_CONSUME] - 1 >= 0
      <4>1. pc["consumer"] = "loop" /\ sem = "live"
            /\ semval[TO_CONSUME] + (-1) >= 0
        BY <2>5 DEF ConsumerAcquire, Semop, InLoop
      <4>2. SetUp /\ ~Ended("consumer")
        BY <4>1 DEF Inv, Started, SetUp, Ended
      <4>3. semval[TO_CONSUME] \in Nat
        BY DEF Inv, TypeOK
      <4>4. QED
        BY <4>1, <4>2, <4>3
    <3>2. semval[TO_CONSUME] = 0
      BY <3>1 DEF Inv, ProducerDead
    <3>3. QED
      BY <3>1, <3>2
  <2>6. QED
    BY <2>1, <2>2, <2>3, <2>4, <2>5 DEF Next, Consumer
<1>2. QED
  BY <1>1, InvInvariant, PTL DEF Spec, StrandedAfterProducer

\* The ring implements the bounded FIFO for any number of slots: every string
\* is taken out once, in order and whole, whoever is killed.
THEOREM ShmRefines == Spec => ImplementsBoundedFifo
<1>1. Init => Abstract!Init
  BY DEF Init, Abstract!Init
<1>2. Inv /\ [Next]_vars => [Abstract!Next]_<<sent, received>>
  <2> SUFFICES ASSUME Inv, [Next]_vars
               PROVE  [Abstract!Next]_<<sent, received>>
    OBVIOUS
  <2>1. CASE Write
    <3>1. Waiting < N_SLOTS
      BY <2>1 DEF Write, Inv, Room
    <3>2. QED
      BY <2>1, <3>1 DEF Write, Waiting, Abstract!Put, Abstract!Next
  <2>2. CASE Copy
    <3>1. Waiting > 0 /\ Waiting = sent - Len(received)
          /\ sent \in Nat /\ Len(received) \in Nat
      BY <2>2 DEF Copy, Inv, Room, Waiting, TypeOK
    <3>2. buffer[SlotAfter(head, 0)] = Len(received) + 1 + 0
      BY <3>1, ConstantsAssumption DEF Inv, Ring, Slots, ConstantsAssumption
    <3>3. SlotAfter(head, 0) = head
      BY ConstantsAssumption
         DEF Inv, TypeOK, Slots, SlotAfter, ConstantsAssumption
    <3>4. buffer[head] = Len(received) + 1
      BY <3>1, <3>2, <3>3
    <3>5. QED
      BY <2>2, <3>1, <3>4 DEF Copy, Abstract!Get, Abstract!Next
  <2>3. CASE ~Write /\ ~Copy
    <3>1. UNCHANGED <<sent, received>>
      BY <2>3, Distinct DEF Next, vars, Parent, ParentFails, ParentKilled,
         ShmGet, ShmAttach, SemGet, SetAll, ForkProducer, ForkConsumer, Wait,
         KillOther, RemoveShm, RemoveSem, Producer, ProducerAcquire,
         ProducerRelease, ProducerEnds, Consumer, ConsumerAcquire,
         ConsumerRelease, Child, Signal, Exec, ExecFails, Attach, AttachFails,
         OpenSem, OpenSemFails, SemopFails, Sleep, SleepDividesByZero, Die,
         Terminate
    <3>2. QED
      BY <3>1
  <2>4. QED
    BY <2>1, <2>2, <2>3
<1>3. QED
  BY <1>1, <1>2, InvInvariant, PTL
     DEF Spec, ImplementsBoundedFifo, Abstract!Spec

-----------------------------------------------------------------------------
(***************************************************************************)
(* The message queue of the_mess_que, for any number of senders, receivers *)
(* and generators and any capacity: it implements one FIFO per type.  The  *)
(* lemmas and theorems are about MsgQueue alone, the specification M!Spec, *)
(* whose pc is meant by pc, and hold under its assumption, M!ConstantsOK.  *)
(*                                                                         *)
(* What OfType gives is defined by a recursion over the positions of the   *)
(* queue.  Facts about it are proved by induction over a set of numbers.   *)
(***************************************************************************)
CONSTANTS PlainSenders, ModSenders, PlainReceivers, ModReceivers, Generators,
          Numbers, Capacity, MaxLines, MaxQueues
VARIABLES key, made, queue, msqid, buf, typed, refused, msgtype

M == INSTANCE MsgQueue

\* What is said of the number 0 and of the successor of each number of which it is said.
LEMMA SetInduction ==
    ASSUME NEW T, 0 \in T, \A n \in Nat : n \in T => n + 1 \in T
    PROVE  \A n \in Nat : n \in T
<1> DEFINE R == OpToRel(<, Nat)
<1>1. IsWellFoundedOn(R, Nat)
  BY NatLessThanWellFounded, PTL
<1>2. \A m, n \in Nat : m < n => <<m, n>> \in R
  BY DEF OpToRel
<1> HIDE DEF R
<1>3. SUFFICES ASSUME NEW k \in Nat, k \notin T PROVE FALSE
  OBVIOUS
<1> DEFINE B == {n \in Nat : n \notin T}
<1>4. B \subseteq Nat /\ B # {}
  BY <1>3
<1> HIDE DEF B
<1>5. PICK x \in B : \A y \in B : ~ (<<y, x>> \in R)
  BY <1>1, <1>4, WFMin
<1>6. x \in Nat /\ x \notin T
  BY <1>5 DEF B
<1>7. x # 0
  BY <1>6
<1>8. x - 1 \in Nat /\ x - 1 < x /\ (x - 1) + 1 = x
  BY <1>6, <1>7
<1>9. x - 1 \in T
  BY <1>2, <1>5, <1>6, <1>8 DEF B
<1> QED BY <1>6, <1>8, <1>9

-----------------------------------------------------------------------------
(***************************************************************************)
(* OfType: the messages of one type.                                       *)
(***************************************************************************)

\* f[k] is what there is of type t among the first k messages of q, for k up to n.
Filters(f, q, t, n) ==
    /\ f[0] = << >>
    /\ \A k \in 1 .. n :
         f[k] = IF q[k].type = t THEN Append(f[k - 1], q[k]) ELSE f[k - 1]

\* There is such a function for each beginning of q.
LEMMA FilterExists ==
    ASSUME NEW q \in Seq(M!Messages), NEW t
    PROVE  \A n \in Nat : n <= Len(q) =>
              \E f \in [0 .. n -> Seq(M!Messages)] : Filters(f, q, t, n)
<1> DEFINE T == {n \in Nat : n <= Len(q) =>
                    \E f \in [0 .. n -> Seq(M!Messages)] : Filters(f, q, t, n)}
<1>1. 0 \in T
  <2> DEFINE f == [k \in 0 .. 0 |-> << >>]
  <2>1. f \in [0 .. 0 -> Seq(M!Messages)]
    OBVIOUS
  <2>2. Filters(f, q, t, 0)
    BY DEF Filters
  <2> QED BY <2>1, <2>2
<1>2. ASSUME NEW n \in Nat, n \in T PROVE n + 1 \in T
  <2> SUFFICES ASSUME n + 1 <= Len(q)
               PROVE  \E f \in [0 .. n + 1 -> Seq(M!Messages)] : Filters(f, q, t, n + 1)
    OBVIOUS
  <2>1. PICK g \in [0 .. n -> Seq(M!Messages)] : Filters(g, q, t, n)
    BY <1>2
  <2> DEFINE last == IF q[n + 1].type = t THEN Append(g[n], q[n + 1]) ELSE g[n]
             f == [k \in 0 .. n + 1 |-> IF k = n + 1 THEN last ELSE g[k]]
  <2>2. q[n + 1] \in M!Messages /\ g[n] \in Seq(M!Messages)
    OBVIOUS
  <2>3. last \in Seq(M!Messages)
    BY <2>2
  <2> HIDE DEF last
  <2>4. f \in [0 .. n + 1 -> Seq(M!Messages)]
    BY <2>1, <2>3
  <2>5. f[0] = << >> /\ f[n + 1] = last /\ f[n] = g[n]
    BY <2>1 DEF Filters
  <2>6. \A k \in 1 .. n : f[k] = g[k] /\ f[k - 1] = g[k - 1]
    OBVIOUS
  <2> HIDE DEF f
  <2>7. \A k \in 1 .. n + 1 :
            f[k] = IF q[k].type = t THEN Append(f[k - 1], q[k]) ELSE f[k - 1]
    <3> SUFFICES ASSUME NEW k \in 1 .. n + 1
                 PROVE  f[k] = IF q[k].type = t THEN Append(f[k - 1], q[k]) ELSE f[k - 1]
      OBVIOUS
    <3>1. CASE k = n + 1
      <4>1. k - 1 = n
        BY <3>1
      <4> QED BY <3>1, <4>1, <2>5 DEF last
    <3>2. CASE k # n + 1
      <4>1. k \in 1 .. n
        BY <3>2
      <4> QED BY <4>1, <2>1, <2>6 DEF Filters
    <3> QED BY <3>1, <3>2
  <2> QED BY <2>4, <2>5, <2>7 DEF Filters
<1> HIDE DEF T
<1>3. \A n \in Nat : n \in T
  BY <1>1, <1>2, SetInduction
<1> QED BY <1>3 DEF T

\* OfType is what such a function ends with.
LEMMA OfTypeFilters ==
    ASSUME NEW q \in Seq(M!Messages), NEW t
    PROVE  \E f \in [0 .. Len(q) -> Seq(M!Messages)] :
              Filters(f, q, t, Len(q)) /\ M!OfType(q, t) = f[Len(q)]
<1> DEFINE Step(f) ==
        [k \in 0 .. Len(q) |->
            IF k = 0 THEN << >>
            ELSE IF q[k].type = t THEN Append(f[k - 1], q[k]) ELSE f[k - 1]]
<1> DEFINE F == CHOOSE f : f = Step(f)
<1>1. M!OfType(q, t) = F[Len(q)]
  BY DEF M!OfType
<1>2. Len(q) \in Nat /\ Len(q) <= Len(q)
  OBVIOUS
<1>3. PICK g \in [0 .. Len(q) -> Seq(M!Messages)] : Filters(g, q, t, Len(q))
  BY <1>2, FilterExists
<1>4. \A k \in 0 .. Len(q) :
          g[k] = IF k = 0 THEN << >>
                 ELSE IF q[k].type = t THEN Append(g[k - 1], q[k]) ELSE g[k - 1]
  <2> SUFFICES ASSUME NEW k \in 0 .. Len(q)
               PROVE  g[k] = IF k = 0 THEN << >>
                             ELSE IF q[k].type = t THEN Append(g[k - 1], q[k]) ELSE g[k - 1]
    OBVIOUS
  <2>1. CASE k = 0
    BY <1>3, <2>1 DEF Filters
  <2>2. CASE k # 0
    <3>1. k \in 1 .. Len(q)
      BY <2>2
    <3> QED BY <1>3, <2>2, <3>1 DEF Filters
  <2> QED BY <2>1, <2>2
<1>5. g = Step(g)
  <2>1. g = [k \in 0 .. Len(q) |-> g[k]]
    OBVIOUS
  <2> QED BY <1>4, <2>1
<1>6. F = Step(F)
  BY <1>5
<1> HIDE DEF F
<1>7. \A k \in 0 .. Len(q) :
          F[k] = IF k = 0 THEN << >>
                 ELSE IF q[k].type = t THEN Append(F[k - 1], q[k]) ELSE F[k - 1]
  BY <1>6
<1>8. Filters(F, q, t, Len(q))
  BY <1>7 DEF Filters
<1>9. \A n \in Nat : n <= Len(q) => F[n] = g[n]
  <2> DEFINE T == {n \in Nat : n <= Len(q) => F[n] = g[n]}
  <2>1. 0 \in T
    BY <1>3, <1>8 DEF Filters
  <2>2. ASSUME NEW n \in Nat, n \in T PROVE n + 1 \in T
    <3> SUFFICES ASSUME n + 1 <= Len(q) PROVE F[n + 1] = g[n + 1]
      OBVIOUS
    <3>1. n + 1 \in 1 .. Len(q) /\ (n + 1) - 1 = n /\ F[n] = g[n]
      BY <2>2
    <3>2. F[n + 1] = IF q[n + 1].type = t THEN Append(F[n], q[n + 1]) ELSE F[n]
      BY <1>8, <3>1 DEF Filters
    <3>3. g[n + 1] = IF q[n + 1].type = t THEN Append(g[n], q[n + 1]) ELSE g[n]
      BY <1>3, <3>1 DEF Filters
    <3> QED BY <3>1, <3>2, <3>3
  <2> HIDE DEF T
  <2>3. \A n \in Nat : n \in T
    BY <2>1, <2>2, SetInduction
  <2> QED BY <2>3 DEF T
<1>10. M!OfType(q, t) = g[Len(q)]
  BY <1>1, <1>2, <1>9
<1> QED BY <1>3, <1>10

\* Two such functions agree on a common beginning.
LEMMA SameBeginning ==
    ASSUME NEW q \in Seq(M!Messages), NEW r \in Seq(M!Messages), NEW t,
           NEW f, Filters(f, q, t, Len(q)), NEW g, Filters(g, r, t, Len(r)),
           NEW b \in Nat, b <= Len(q), b <= Len(r), \A k \in 1 .. b : q[k] = r[k]
    PROVE  \A n \in Nat : n <= b => f[n] = g[n]
<1> DEFINE T == {n \in Nat : n <= b => f[n] = g[n]}
<1>1. 0 \in T
  BY DEF Filters
<1>2. ASSUME NEW n \in Nat, n \in T PROVE n + 1 \in T
  <2> SUFFICES ASSUME n + 1 <= b PROVE f[n + 1] = g[n + 1]
    OBVIOUS
  <2>1. n + 1 \in 1 .. b /\ (n + 1) - 1 = n /\ f[n] = g[n]
    BY <1>2
  <2>2. n + 1 \in 1 .. Len(q) /\ n + 1 \in 1 .. Len(r)
    OBVIOUS
  <2>3. f[n + 1] = IF q[n + 1].type = t THEN Append(f[n], q[n + 1]) ELSE f[n]
    BY <2>1, <2>2 DEF Filters
  <2>4. g[n + 1] = IF r[n + 1].type = t THEN Append(g[n], r[n + 1]) ELSE g[n]
    BY <2>1, <2>2 DEF Filters
  <2> QED BY <2>1, <2>3, <2>4
<1> HIDE DEF T
<1>3. \A n \in Nat : n \in T
  BY <1>1, <1>2, SetInduction
<1> QED BY <1>3 DEF T

\* An empty queue has no messages of any type.
LEMMA OfTypeEmpty == \A t : M!OfType(<< >>, t) = << >>
<1> SUFFICES ASSUME NEW t PROVE M!OfType(<< >>, t) = << >>
  OBVIOUS
<1> DEFINE e == << >>
<1>1. e \in Seq(M!Messages) /\ Len(e) = 0
  OBVIOUS
<1> HIDE DEF e
<1>2. PICK f : Filters(f, e, t, Len(e)) /\ M!OfType(e, t) = f[Len(e)]
  BY <1>1, OfTypeFilters
<1>3. f[0] = << >>
  BY <1>2 DEF Filters
<1>4. M!OfType(e, t) = << >>
  BY <1>1, <1>2, <1>3
<1> QED BY <1>4 DEF e

\* A new message is the last one of its type, and the other types do not see it.
LEMMA OfTypeAppend ==
    ASSUME NEW q \in Seq(M!Messages), NEW m \in M!Messages, NEW t
    PROVE  M!OfType(Append(q, m), t) =
              IF m.type = t THEN Append(M!OfType(q, t), m) ELSE M!OfType(q, t)
<1> DEFINE r == Append(q, m)
<1>1. /\ r \in Seq(M!Messages) /\ Len(r) = Len(q) + 1 /\ Len(q) \in Nat
      /\ r[Len(q) + 1] = m /\ \A k \in 1 .. Len(q) : q[k] = r[k]
  OBVIOUS
<1>. HIDE DEF r
<1>2. PICK f : Filters(f, q, t, Len(q)) /\ M!OfType(q, t) = f[Len(q)]
  BY OfTypeFilters
<1>3. PICK g : Filters(g, r, t, Len(r)) /\ M!OfType(r, t) = g[Len(r)]
  BY <1>1, OfTypeFilters
<1>4. Len(q) <= Len(q) /\ Len(q) <= Len(r)
  BY <1>1
<1>5. f[Len(q)] = g[Len(q)]
  BY <1>1, <1>2, <1>3, <1>4, SameBeginning
<1>6. \A x \in Nat : x + 1 \in 1 .. x + 1 /\ (x + 1) - 1 = x
  OBVIOUS
<1>7. Len(r) \in 1 .. Len(r) /\ Len(r) - 1 = Len(q)
  BY <1>1, <1>6
<1>8. g[Len(r)] = IF r[Len(r)].type = t THEN Append(g[Len(q)], r[Len(r)]) ELSE g[Len(q)]
  BY <1>3, <1>7 DEF Filters
<1> QED BY <1>1, <1>2, <1>3, <1>5, <1>8 DEF r

\* What is left when message k is taken out.
LEMMA Removed ==
    ASSUME NEW q \in Seq(M!Messages), NEW k \in 1 .. Len(q)
    PROVE  /\ M!RemoveAt(q, k) \in Seq(M!Messages)
           /\ Len(M!RemoveAt(q, k)) = Len(q) - 1
           /\ \A i \in 1 .. Len(q) - 1 : M!RemoveAt(q, k)[i] = IF i < k THEN q[i] ELSE q[i + 1]
<1> DEFINE a == SubSeq(q, 1, k - 1)
           b == SubSeq(q, k + 1, Len(q))
<1>1. a \in Seq(M!Messages) /\ Len(a) = k - 1 /\ \A i \in 1 .. k - 1 : a[i] = q[i]
  OBVIOUS
<1>2. b \in Seq(M!Messages) /\ Len(b) = Len(q) - k /\ \A i \in 1 .. Len(q) - k : b[i] = q[k + i]
  OBVIOUS
<1>3. M!RemoveAt(q, k) = a \o b
  BY DEF M!RemoveAt
<1> HIDE DEF a, b
<1>a. \A x \in Nat, y \in Int : (y - 1) + (x - y) = x - 1
  OBVIOUS
<1>b. Len(q) \in Nat /\ k \in Int
  OBVIOUS
<1>4. a \o b \in Seq(M!Messages) /\ Len(a \o b) = Len(q) - 1
  <2>1. \A v, w \in Seq(M!Messages) :
            v \o w \in Seq(M!Messages) /\ Len(v \o w) = Len(v) + Len(w)
    OBVIOUS
  <2>2. Len(a) + Len(b) = Len(q) - 1
    BY <1>1, <1>2, <1>a, <1>b
  <2> QED BY <1>1, <1>2, <2>1, <2>2
<1>5. ASSUME NEW i \in 1 .. Len(q) - 1
      PROVE  (a \o b)[i] = IF i < k THEN q[i] ELSE q[i + 1]
  <2>1. CASE i < k
    BY <1>1, <1>2, <2>1
  <2>2. CASE ~(i < k)
    <3>1. (a \o b)[i] = b[i - (k - 1)]
      BY <1>1, <1>2, <2>2
    <3>2. i - (k - 1) \in 1 .. Len(q) - k /\ k + (i - (k - 1)) = i + 1
      BY <2>2
    <3>3. b[i - (k - 1)] = q[i + 1]
      BY <1>2, <3>2
    <3> QED BY <2>2, <3>1, <3>3
  <2> QED BY <2>1, <2>2
<1> QED BY <1>3, <1>4, <1>5

\* Without a message of another type, the messages of type t are the same.
LEMMA OfTypeRemoveOther ==
    ASSUME NEW q \in Seq(M!Messages), NEW k \in 1 .. Len(q), NEW t, q[k].type # t
    PROVE  M!OfType(M!RemoveAt(q, k), t) = M!OfType(q, t)
<1> DEFINE r == M!RemoveAt(q, k)
<1>1. /\ r \in Seq(M!Messages) /\ Len(r) = Len(q) - 1 /\ Len(q) \in Nat /\ k \in Nat
      /\ \A i \in 1 .. Len(q) - 1 : r[i] = IF i < k THEN q[i] ELSE q[i + 1]
  <2>1. Len(q) \in Nat /\ k \in Nat
    OBVIOUS
  <2> QED BY <2>1, Removed
<1>. HIDE DEF r
<1>2. PICK f : Filters(f, q, t, Len(q)) /\ M!OfType(q, t) = f[Len(q)]
  BY OfTypeFilters
<1>3. PICK g : Filters(g, r, t, Len(r)) /\ M!OfType(r, t) = g[Len(r)]
  BY <1>1, OfTypeFilters
<1>4. /\ k - 1 \in Nat /\ k - 1 <= Len(q) /\ k - 1 <= Len(r) /\ k - 1 <= k - 1
      /\ \A i \in 1 .. k - 1 : q[i] = r[i]
  <2>1. \A x \in Nat : \A y \in 1 .. x :
          /\ y - 1 \in Nat /\ y - 1 <= x /\ y - 1 <= x - 1 /\ y - 1 <= y - 1
          /\ \A i \in 1 .. y - 1 : i \in 1 .. x - 1 /\ i < y
    OBVIOUS
  <2>2. /\ k - 1 \in Nat /\ k - 1 <= Len(q) /\ k - 1 <= Len(q) - 1 /\ k - 1 <= k - 1
        /\ \A i \in 1 .. k - 1 : i \in 1 .. Len(q) - 1 /\ i < k
    BY <1>1, <2>1
  <2> QED BY <1>1, <2>2
<1>5. f[k - 1] = g[k - 1]
  <2> DEFINE b == k - 1
  <2>1. b \in Nat /\ b <= Len(q) /\ b <= Len(r) /\ b <= b /\ \A i \in 1 .. b : q[i] = r[i]
    BY <1>4
  <2> HIDE DEF b
  <2>2. f[b] = g[b]
    BY <1>1, <1>2, <1>3, <2>1, SameBeginning
  <2> QED BY <2>2 DEF b
<1>6. f[k] = f[k - 1]
  BY <1>2 DEF Filters
<1> DEFINE T == {n \in Nat : k + n <= Len(q) => f[k + n] = g[k + n - 1]}
<1>7. 0 \in T
  <2>1. k + 0 = k
    OBVIOUS
  <2> QED BY <1>5, <1>6, <2>1
<1>8. ASSUME NEW n \in Nat, n \in T PROVE n + 1 \in T
  <2> SUFFICES ASSUME k + (n + 1) <= Len(q) PROVE f[k + (n + 1)] = g[k + (n + 1) - 1]
    OBVIOUS
  <2> DEFINE j == k + n
  <2>1. /\ k + (n + 1) = j + 1 /\ k + (n + 1) - 1 = j
        /\ j \in 1 .. Len(r) /\ j + 1 \in 1 .. Len(q) /\ ~(j < k)
        /\ (j + 1) - 1 = j /\ j \in 1 .. Len(q) - 1
    BY <1>1
  <2>2. f[j] = g[j - 1]
    BY <1>8, <2>1
  <2> HIDE DEF j
  <2>3. r[j] = q[j + 1]
    BY <1>1, <2>1
  <2>4. f[j + 1] = IF q[j + 1].type = t THEN Append(f[j], q[j + 1]) ELSE f[j]
    BY <1>2, <2>1 DEF Filters
  <2>5. g[j] = IF r[j].type = t THEN Append(g[j - 1], r[j]) ELSE g[j - 1]
    BY <1>3, <2>1 DEF Filters
  <2> QED BY <2>1, <2>2, <2>3, <2>4, <2>5
<1> HIDE DEF T
<1>9. \A n \in Nat : n \in T
  BY <1>7, <1>8, SetInduction
<1>10. Len(q) - k \in Nat /\ k + (Len(q) - k) = Len(q)
  BY <1>1
<1>11. k + (Len(q) - k) <= Len(q) => f[k + (Len(q) - k)] = g[k + (Len(q) - k) - 1]
  <2> DEFINE n == Len(q) - k
  <2>1. n \in T
    BY <1>9, <1>10
  <2> HIDE DEF n
  <2>2. k + n <= Len(q) => f[k + n] = g[k + n - 1]
    BY <2>1 DEF T
  <2> QED BY <2>2 DEF n
<1>12. f[Len(q)] = g[Len(q) - 1]
  BY <1>1, <1>10, <1>11
<1> QED BY <1>1, <1>2, <1>3, <1>12 DEF r

\* The first message of type t is the head of those of type t.
LEMMA OfTypeRemoveFirst ==
    ASSUME NEW q \in Seq(M!Messages), NEW k \in 1 .. Len(q), NEW t, q[k].type = t,
           \A j \in 1 .. k - 1 : q[j].type # t
    PROVE  /\ M!OfType(q, t) # << >> /\ Head(M!OfType(q, t)) = q[k]
           /\ Tail(M!OfType(q, t)) = M!OfType(M!RemoveAt(q, k), t)
<1> DEFINE r == M!RemoveAt(q, k)
<1>1. /\ r \in Seq(M!Messages) /\ Len(r) = Len(q) - 1 /\ Len(q) \in Nat /\ k \in Nat
      /\ \A i \in 1 .. Len(q) - 1 : r[i] = IF i < k THEN q[i] ELSE q[i + 1]
  <2>1. Len(q) \in Nat /\ k \in Nat
    OBVIOUS
  <2> QED BY <2>1, Removed
<1>. HIDE DEF r
<1>2. PICK f : Filters(f, q, t, Len(q)) /\ M!OfType(q, t) = f[Len(q)]
  BY OfTypeFilters
<1>3. PICK g \in [0 .. Len(r) -> Seq(M!Messages)] :
         Filters(g, r, t, Len(r)) /\ M!OfType(r, t) = g[Len(r)]
  BY <1>1, OfTypeFilters
<1>4. /\ k - 1 \in Nat /\ k - 1 <= Len(q) /\ k - 1 <= Len(r) /\ k - 1 <= k - 1
      /\ \A i \in 1 .. k - 1 : q[i] = r[i]
  <2>1. \A x \in Nat : \A y \in 1 .. x :
          /\ y - 1 \in Nat /\ y - 1 <= x /\ y - 1 <= x - 1 /\ y - 1 <= y - 1
          /\ \A i \in 1 .. y - 1 : i \in 1 .. x - 1 /\ i < y
    OBVIOUS
  <2>2. /\ k - 1 \in Nat /\ k - 1 <= Len(q) /\ k - 1 <= Len(q) - 1 /\ k - 1 <= k - 1
        /\ \A i \in 1 .. k - 1 : i \in 1 .. Len(q) - 1 /\ i < k
    BY <1>1, <2>1
  <2> QED BY <1>1, <2>2
<1>5. f[k - 1] = g[k - 1]
  <2> DEFINE b == k - 1
  <2>1. b \in Nat /\ b <= Len(q) /\ b <= Len(r) /\ b <= b /\ \A i \in 1 .. b : q[i] = r[i]
    BY <1>4
  <2> HIDE DEF b
  <2>2. Filters(f, q, t, Len(q)) /\ Filters(g, r, t, Len(r))
    BY <1>2, <1>3
  <2>3. \A n \in Nat : n <= b => f[n] = g[n]
    BY ONLY SMTT(30), <1>1, <2>1, <2>2, q \in Seq(M!Messages), SameBeginning
  <2>4. f[b] = g[b]
    BY <2>1, <2>3
  <2> QED BY <2>4 DEF b
<1>6. f[k - 1] = << >>
  <2> DEFINE T == {n \in Nat : n <= k - 1 => f[n] = << >>}
  <2>1. 0 \in T
    BY <1>2 DEF Filters
  <2>2. ASSUME NEW n \in Nat, n \in T PROVE n + 1 \in T
    <3> SUFFICES ASSUME n + 1 <= k - 1 PROVE f[n + 1] = << >>
      OBVIOUS
    <3>1. n + 1 \in 1 .. Len(q) /\ (n + 1) - 1 = n /\ n + 1 \in 1 .. k - 1 /\ f[n] = << >>
      BY <2>2, <1>1
    <3> QED BY <1>2, <3>1 DEF Filters
  <2> HIDE DEF T
  <2>3. \A n \in Nat : n \in T
    BY <2>1, <2>2, SetInduction
  <2> QED BY <1>4, <2>3 DEF T
<1> DEFINE x == q[k]
<1>7. x \in M!Messages /\ f[k] = Append(f[k - 1], x)
  <2>1. k \in 1 .. Len(q) /\ q[k] \in M!Messages
    OBVIOUS
  <2> QED BY <1>2, <2>1 DEF Filters
<1>. HIDE DEF x
<1> DEFINE T == {n \in Nat : k + n <= Len(q) => f[k + n] = <<x>> \o g[k + n - 1]}
<1>8. 0 \in T
  <2>1. k + 0 = k
    OBVIOUS
  <2>2. f[k] = <<x>> \o g[k - 1]
    BY <1>5, <1>6, <1>7
  <2> QED BY <2>1, <2>2
<1>9. ASSUME NEW n \in Nat, n \in T PROVE n + 1 \in T
  <2> SUFFICES ASSUME k + (n + 1) <= Len(q)
               PROVE  f[k + (n + 1)] = <<x>> \o g[k + (n + 1) - 1]
    OBVIOUS
  <2> DEFINE j == k + n
  <2>1. /\ k + (n + 1) = j + 1 /\ k + (n + 1) - 1 = j
        /\ j \in 1 .. Len(r) /\ j + 1 \in 1 .. Len(q) /\ ~(j < k)
        /\ (j + 1) - 1 = j /\ j \in 1 .. Len(q) - 1 /\ j - 1 \in 0 .. Len(r)
    BY <1>1
  <2>2. f[j] = <<x>> \o g[j - 1]
    BY <1>9, <2>1
  <2> HIDE DEF j
  <2>3. r[j] = q[j + 1] /\ r[j] \in M!Messages /\ g[j - 1] \in Seq(M!Messages)
    BY <1>1, <1>3, <2>1
  <2>4. f[j + 1] = IF q[j + 1].type = t THEN Append(f[j], q[j + 1]) ELSE f[j]
    BY <1>2, <2>1 DEF Filters
  <2>5. g[j] = IF r[j].type = t THEN Append(g[j - 1], r[j]) ELSE g[j - 1]
    BY <1>3, <2>1 DEF Filters
  <2>6. \A s \in Seq(M!Messages), m \in M!Messages :
            Append(<<x>> \o s, m) = <<x>> \o Append(s, m)
    BY <1>7
  <2>7. f[j + 1] = <<x>> \o g[j]
    <3>1. CASE r[j].type = t
      <4>1. f[j + 1] = Append(<<x>> \o g[j - 1], r[j])
        BY <2>2, <2>3, <2>4, <3>1
      <4>2. g[j] = Append(g[j - 1], r[j])
        BY <2>5, <3>1
      <4> QED BY <2>3, <2>6, <4>1, <4>2
    <3>2. CASE r[j].type # t
      BY <2>2, <2>3, <2>4, <2>5, <3>2
    <3> QED BY <3>1, <3>2
  <2> QED BY <2>1, <2>7
<1> HIDE DEF T
<1>10. \A n \in Nat : n \in T
  BY <1>8, <1>9, SetInduction
<1>11. Len(q) - k \in Nat /\ k + (Len(q) - k) = Len(q)
  BY <1>1
<1>a. k + (Len(q) - k) <= Len(q) =>
         f[k + (Len(q) - k)] = <<x>> \o g[k + (Len(q) - k) - 1]
  <2> DEFINE n == Len(q) - k
  <2>1. n \in T
    BY <1>10, <1>11
  <2> HIDE DEF n
  <2>2. k + n <= Len(q) => f[k + n] = <<x>> \o g[k + n - 1]
    BY <2>1 DEF T
  <2> QED BY <2>2 DEF n
<1>b. k + (Len(q) - k) - 1 = Len(q) - 1 /\ k + (Len(q) - k) <= Len(q)
  BY <1>1
<1>12. f[Len(q)] = <<x>> \o g[Len(q) - 1]
  <2>1. f[k + (Len(q) - k)] = <<x>> \o g[k + (Len(q) - k) - 1]
    BY <1>a, <1>b
  <2> QED BY <1>11, <1>b, <2>1
<1>13. M!OfType(r, t) \in Seq(M!Messages) /\ M!OfType(q, t) = <<x>> \o M!OfType(r, t)
  <2>1. Len(r) \in 0 .. Len(r)
    BY <1>1
  <2>2. M!OfType(r, t) \in Seq(M!Messages)
    BY <1>3, <2>1
  <2>3. M!OfType(q, t) = <<x>> \o g[Len(r)]
    BY <1>1, <1>2, <1>12
  <2> QED BY <1>3, <2>2, <2>3
<1>14. \A s \in Seq(M!Messages) : /\ <<x>> \o s # << >> /\ Head(<<x>> \o s) = x
                               /\ Tail(<<x>> \o s) = s
  BY <1>7
<1> QED BY <1>13, <1>14 DEF x, r

-----------------------------------------------------------------------------
(***************************************************************************)
(* The inductive invariant of MsgQueue.                                    *)
(***************************************************************************)

\* What a sender is about to send is a message.
Ready == \A s \in M!Senders : pc[s] = "sending" => buf[s] \in M!Messages

\* A sender that has met an error is not at its end, and its queue has not come back.
RefusedOK ==
    /\ \A p \in M!Procs : msqid[p] <= made
    /\ \A s \in M!Senders :
         /\ pc[s] \in {"typing", "sending"} => msqid[s] # M!NoQueue
         /\ s \in refused => /\ pc[s] \in {"typing", "sending", "failed"}
                             /\ pc[s] # "failed" => msqid[s] # key

ChatInv == M!TypeOK /\ Ready /\ RefusedOK

\* The invariant holds at first.
LEMMA ChatInit == M!ConstantsOK /\ M!Init => ChatInv
<1> SUFFICES ASSUME M!ConstantsOK, M!Init PROVE ChatInv
  OBVIOUS
<1>1. << >> \in Seq(M!Messages) /\ Len(<< >>) = 0
  OBVIOUS
<1>2. M!TypeOK
  BY <1>1 DEF M!Init, M!TypeOK, M!ConstantsOK, M!NoQueue
<1> QED BY <1>2 DEF M!Init, ChatInv, Ready, RefusedOK, M!NoQueue, M!Senders, M!Procs

\* The message that msgrcv takes is there, and the first one of its type.
LEMMA PositionFacts ==
    ASSUME M!TypeOK, NEW r \in M!Receivers, M!Wanted(r) # {}
    PROVE  /\ M!Position(r) \in 1 .. Len(queue)
           /\ \A j \in 1 .. M!Position(r) - 1 : queue[j].type # queue[M!Position(r)].type
<1> DEFINE n == msgtype[r]
           K == M!Wanted(r)
           Ty(k) == queue[k].type
<1>1. queue \in Seq(M!Messages) /\ n \in Int /\ K \subseteq 1 .. Len(queue) /\ K \subseteq Nat
  BY DEF M!TypeOK, M!Wanted
<1>2. \A k \in 1 .. Len(queue) : queue[k] \in M!Messages /\ Ty(k) \in {1, 2}
  <2> SUFFICES ASSUME NEW k \in 1 .. Len(queue)
               PROVE  queue[k] \in M!Messages /\ Ty(k) \in {1, 2}
    OBVIOUS
  <2>1. queue[k] \in M!Messages
    BY <1>1
  <2>2. \A m \in M!Messages : m.type \in {1, 2}
    BY DEF M!Messages, M!Types
  <2> QED BY <2>1, <2>2
<1>3. \A j, k \in 1 .. Len(queue) : Ty(j) = Ty(k) /\ k \in K => j \in K
  BY DEF M!Wanted
<1> HIDE DEF K
<1>4. \A B : B \subseteq Nat /\ B # {} => \E m \in B : \A j \in B : m <= j
  <2> SUFFICES ASSUME NEW B, B \subseteq Nat, B # {} PROVE \E m \in B : \A j \in B : m <= j
    OBVIOUS
  <2>1. IsWellFoundedOn(OpToRel(<, Nat), Nat)
    BY NatLessThanWellFounded, PTL
  <2>2. PICK m \in B : \A j \in B : ~ (<<j, m>> \in OpToRel(<, Nat))
    BY <2>1, WFMin
  <2>3. \A j \in B : ~(j < m)
    BY <2>2 DEF OpToRel
  <2> QED BY <2>3
<1>5. \E k \in K : \A j \in K : IF n < 0 /\ Ty(j) # Ty(k) THEN Ty(k) < Ty(j) ELSE k <= j
  <2>1. CASE n < 0 /\ \E k \in K : Ty(k) = 1
    <3> DEFINE B == {k \in K : Ty(k) = 1}
    <3>1. B \subseteq Nat /\ B # {}
      BY <1>1, <2>1
    <3>2. PICK m \in B : \A j \in B : m <= j
      BY <1>4, <3>1
    <3>3. m \in K /\ Ty(m) = 1
      BY <3>2
    <3>4. ASSUME NEW j \in K
          PROVE  IF n < 0 /\ Ty(j) # Ty(m) THEN Ty(m) < Ty(j) ELSE m <= j
      <4>1. Ty(j) \in {1, 2}
        BY <1>1, <1>2
      <4>2. Ty(j) = 1 => m <= j
        BY <3>2
      <4> HIDE DEF Ty, n
      <4> QED BY <2>1, <3>3, <4>1, <4>2
    <3> QED BY <3>3, <3>4
  <2>2. CASE ~(n < 0 /\ \E k \in K : Ty(k) = 1)
    <3>1. PICK m \in K : \A j \in K : m <= j
      BY <1>1, <1>4 DEF K
    <3>2. n < 0 => \A k \in K : Ty(k) = 2
      BY <1>1, <1>2, <2>2
    <3> QED BY <3>1, <3>2
  <2> QED BY <2>1, <2>2
<1> DEFINE P == M!Position(r)
<1>6. P \in K /\ \A j \in K : IF n < 0 /\ Ty(j) # Ty(P) THEN Ty(P) < Ty(j) ELSE P <= j
  BY <1>5 DEF M!Position, K
<1> HIDE DEF P, Ty, n
<1>7. ASSUME NEW j \in 1 .. P - 1, Ty(j) = Ty(P) PROVE FALSE
  <2>1. P \in 1 .. Len(queue) /\ j \in 1 .. Len(queue) /\ ~(P <= j)
    BY <1>1, <1>6
  <2> QED BY <1>3, <1>6, <1>7, <2>1
<1> QED BY <1>1, <1>6, <1>7 DEF P, Ty

\* A queue with one message more, and the messages in it.
LEMMA QueueFacts ==
    ASSUME M!TypeOK
    PROVE  /\ queue \in Seq(M!Messages)
           /\ \A m \in M!Messages : /\ Append(queue, m) \in Seq(M!Messages)
                                 /\ Len(Append(queue, m)) = Len(queue) + 1
           /\ \A k \in 1 .. Len(queue) : queue[k] \in M!Messages
<1> USE DEF M!TypeOK
<1> HIDE DEF M!Messages
<1> QED BY DEF M!TypeOK

\* What gets or makes the queue of the key.
LEMMA GetStep ==
    ASSUME M!ConstantsOK, ChatInv, NEW p \in M!Procs, NEW label \in {"typing", "showing"},
           pc[p] = "start", M!GetOrCreate(p, label)
    PROVE  ChatInv'
<1>1. /\ key' \in {M!NoQueue, made'} /\ key' # M!NoQueue
      /\ made' \in 0 .. MaxQueues /\ made' >= made
      /\ (key = M!NoQueue => key' = made' /\ made' > made) /\ (key # M!NoQueue => key' = key)
  BY DEF M!GetOrCreate, ChatInv, M!TypeOK, M!NoQueue, M!ConstantsOK
<1>2. msqid' = [msqid EXCEPT ![p] = key'] /\ pc' = [pc EXCEPT ![p] = label]
      /\ UNCHANGED <<queue, buf, typed, refused, msgtype>>
  BY DEF M!GetOrCreate, M!Goto
<1>3. M!TypeOK'
  BY <1>1, <1>2 DEF ChatInv, M!TypeOK, M!NoQueue
<1>4. Ready'
  BY <1>2 DEF ChatInv, Ready, M!TypeOK
<1>5. key' <= made' /\ \A q \in M!Procs : msqid[q] \in Nat /\ msqid[q] <= made'
  BY <1>1 DEF ChatInv, RefusedOK, M!TypeOK, M!NoQueue, M!ConstantsOK
<1>6. RefusedOK'
  BY <1>1, <1>2, <1>5 DEF ChatInv, RefusedOK, M!TypeOK, M!Senders, M!Procs, M!NoQueue
<1> QED BY <1>3, <1>4, <1>6 DEF ChatInv

\* What removes the queue of the key, or nothing.
LEMMA RemoveStep ==
    ASSUME M!ConstantsOK, ChatInv, NEW p \in M!Procs, NEW how \in {"done", "failed"},
           pc[p] \in {"typing", "showing"},
           p \in refused => how = "failed",
           M!RemoveQueue \/ UNCHANGED <<key, queue>>, M!Goto(p, how),
           UNCHANGED <<made, msqid, buf, typed, refused, msgtype>>
    PROVE  ChatInv'
<1>1. key' \in {key, M!NoQueue} /\ queue' \in {queue, << >>} /\ pc' = [pc EXCEPT ![p] = how]
  BY DEF M!RemoveQueue, M!Goto
<1>2. queue' \in Seq(M!Messages) /\ Len(queue') <= Capacity
  <2>1. << >> \in Seq(M!Messages) /\ Len(<< >>) = 0
    OBVIOUS
  <2>2. queue \in Seq(M!Messages) /\ Len(queue) <= Capacity /\ 0 <= Capacity
    BY DEF ChatInv, M!TypeOK, M!ConstantsOK
  <2> HIDE DEF M!Messages
  <2> QED BY <1>1, <2>1, <2>2
<1>3. M!TypeOK'
  BY <1>1, <1>2 DEF ChatInv, M!TypeOK, M!NoQueue
<1>4. Ready'
  BY <1>1 DEF ChatInv, Ready, M!TypeOK
<1>5. RefusedOK'
  BY <1>1 DEF ChatInv, RefusedOK, M!TypeOK, M!Senders, M!Procs, M!NoQueue
<1> QED BY <1>3, <1>4, <1>5 DEF ChatInv

\* What only changes where a program is and what a receiver asks for.
LEMMA MoveStep ==
    ASSUME M!ConstantsOK, ChatInv, NEW p \in M!Procs,
           NEW how \in {"asking", "receiving", "failed"},
           p \in M!Receivers \/ how = "failed", M!Goto(p, how),
           msqid' = msqid \/ (p \in M!Receivers /\ msqid' = [msqid EXCEPT ![p] = key]),
           msgtype' \in [M!Receivers -> Int],
           UNCHANGED <<key, made, queue, buf, typed, refused>>
    PROVE  ChatInv'
<1>1. pc' = [pc EXCEPT ![p] = how] /\ (p \in M!Senders => how = "failed" /\ msqid' = msqid)
  BY DEF M!Goto, M!ConstantsOK
<1>2. key \in 0 .. MaxQueues /\ key <= made /\ made \in Nat
  BY DEF ChatInv, M!TypeOK, M!NoQueue, M!ConstantsOK
<1>3. msqid' \in [M!Procs -> 0 .. MaxQueues]
      /\ \A q \in M!Procs : msqid'[q] = msqid[q] \/ (q \notin M!Senders /\ msqid'[q] = key)
  BY ZenonT(30), <1>1, <1>2 DEF ChatInv, M!TypeOK, M!ConstantsOK
<1>4. M!TypeOK'
  BY <1>1, <1>3 DEF ChatInv, M!TypeOK
<1>5. Ready'
  BY <1>1 DEF ChatInv, Ready, M!TypeOK, M!Senders, M!Procs
<1>6. RefusedOK'
  BY <1>1, <1>2, <1>3 DEF ChatInv, RefusedOK, M!TypeOK, M!Senders, M!Procs
<1> QED BY <1>4, <1>5, <1>6 DEF ChatInv

\* Every step keeps the invariant.
LEMMA ChatStep == M!ConstantsOK /\ ChatInv /\ [M!Next]_(M!vars) => ChatInv'
<1> SUFFICES ASSUME M!ConstantsOK, ChatInv, [M!Next]_(M!vars) PROVE ChatInv'
  OBVIOUS
<1>p. /\ M!Senders \subseteq M!Procs /\ M!Receivers \subseteq M!Procs
      /\ Generators \subseteq M!Procs
  BY DEF M!Procs
<1>t. M!TypeOK /\ msgtype \in [M!Receivers -> Int]
  BY DEF ChatInv, M!TypeOK
<1>1. ASSUME NEW s \in M!Senders, M!SenderOpens(s) PROVE ChatInv'
  BY <1>1, <1>p, GetStep DEF M!SenderOpens
<1>2. ASSUME NEW s \in M!Senders, M!TypeLine(s) PROVE ChatInv'
  <2>1. PICK t \in M!Types :
           buf' = [buf EXCEPT ![s] = [from |-> s, n |-> typed[s] + 1, type |-> t]]
    BY <1>2 DEF M!TypeLine, M!LineType, M!Types
  <2>2. [from |-> s, n |-> typed[s] + 1, type |-> t] \in M!Messages
    BY <1>2, <2>1 DEF M!TypeLine, M!Messages, ChatInv, M!TypeOK, M!ConstantsOK
  <2>3. M!TypeOK'
    BY <1>2, <1>p, <2>1, <2>2 DEF M!TypeLine, M!Goto, ChatInv, M!TypeOK, M!ConstantsOK
  <2>4. Ready'
    BY <1>2, <1>p, <2>1, <2>2 DEF M!TypeLine, M!Goto, ChatInv, Ready, M!TypeOK
  <2>5. RefusedOK'
    BY <1>2, <1>p DEF M!TypeLine, M!Goto, ChatInv, RefusedOK, M!TypeOK
  <2> QED BY <2>3, <2>4, <2>5 DEF ChatInv
<1>3. ASSUME NEW s \in M!Senders, M!Send(s) PROVE ChatInv'
  <2>1. buf[s] \in M!Messages
    BY <1>3 DEF M!Send, ChatInv, Ready
  <2>2. queue' \in Seq(M!Messages) /\ Len(queue') = Len(queue) + 1
    BY <1>3, <1>t, <2>1, QueueFacts DEF M!Send
  <2>3. Len(queue') <= Capacity
    BY <1>3, <2>2, <1>t DEF M!Send, M!TypeOK, M!ConstantsOK
  <2>4. M!TypeOK'
    BY <1>3, <1>p, <2>2, <2>3 DEF M!Send, M!Goto, ChatInv, M!TypeOK
  <2>5. Ready' /\ RefusedOK'
    BY <1>3, <1>p DEF M!Send, M!Goto, ChatInv, Ready, RefusedOK, M!TypeOK
  <2> QED BY <2>4, <2>5 DEF ChatInv
<1>4. ASSUME NEW s \in M!Senders, M!SendFails(s) PROVE ChatInv'
  <2>1. M!TypeOK'
    BY <1>4, <1>p DEF M!SendFails, M!Goto, ChatInv, M!TypeOK
  <2>2. Ready' /\ RefusedOK'
    BY <1>4, <1>p DEF M!SendFails, M!Attached, M!Goto, ChatInv, Ready, RefusedOK, M!TypeOK
  <2> QED BY <2>1, <2>2 DEF ChatInv
<1>5. ASSUME NEW s \in M!Senders, M!Rmid(s) PROVE ChatInv'
  <2>1. CASE M!Attached(s)
    <3>1. s \notin refused
      BY <1>5, <2>1 DEF M!Rmid, M!Attached, ChatInv, RefusedOK
    <3> QED BY <1>5, <1>p, <2>1, <3>1, RemoveStep DEF M!Rmid
  <2>2. CASE ~M!Attached(s)
    BY <1>5, <1>p, <2>2, RemoveStep DEF M!Rmid
  <2> QED BY <2>1, <2>2
<1>6. ASSUME NEW r \in M!Receivers, M!ReceiverOpens(r) PROVE ChatInv'
  BY <1>6, <1>p, <1>t, MoveStep DEF M!ReceiverOpens
<1>7. ASSUME NEW r \in M!Receivers, M!EnterType(r) PROVE ChatInv'
  <2>1. msgtype' \in [M!Receivers -> Int]
    BY <1>7, <1>t DEF M!EnterType, M!ConstantsOK
  <2> QED BY <1>7, <1>p, <2>1, MoveStep DEF M!EnterType
<1>8. ASSUME NEW r \in M!Receivers, M!Receive(r) PROVE ChatInv'
  <2>1. M!Position(r) \in 1 .. Len(queue)
    BY <1>8, <1>t, PositionFacts DEF M!Receive
  <2>2. queue[M!Position(r)] \in M!Messages
    BY <1>t, <2>1, QueueFacts
  <2>3. queue' \in Seq(M!Messages) /\ Len(queue') = Len(queue) - 1
    BY <1>8, <1>t, <2>1, QueueFacts, Removed DEF M!Receive
  <2>4. Len(queue') <= Capacity
    BY <2>3, <1>t DEF M!TypeOK, M!ConstantsOK
  <2>5. r \notin M!Senders
    BY DEF M!ConstantsOK
  <2>6. M!TypeOK'
    BY <1>8, <2>2, <2>3, <2>4 DEF M!Receive, ChatInv, M!TypeOK
  <2>7. Ready' /\ RefusedOK'
    BY <1>8, <2>5 DEF M!Receive, ChatInv, Ready, RefusedOK, M!TypeOK
  <2> QED BY <2>6, <2>7 DEF ChatInv
<1>9. ASSUME NEW r \in M!Receivers, M!ReceiveFails(r) PROVE ChatInv'
  BY <1>9, <1>p, <1>t, MoveStep DEF M!ReceiveFails
<1>10. ASSUME NEW g \in Generators, M!GeneratorOpens(g) PROVE ChatInv'
  BY <1>10, <1>p, GetStep DEF M!GeneratorOpens
<1>11. ASSUME NEW g \in Generators, M!GeneratorFails(g) PROVE ChatInv'
  BY <1>11, <1>p, <1>t, MoveStep DEF M!GeneratorFails
<1>12. ASSUME NEW g \in Generators, M!GeneratorRemoves(g) PROVE ChatInv'
  <2>1. g \notin refused
    BY <1>t DEF M!TypeOK, M!ConstantsOK
  <2> QED BY <1>12, <1>p, <2>1, RemoveStep DEF M!GeneratorRemoves
<1>13. ASSUME NEW p \in M!Procs, M!OpenFails(p) \/ M!Kill(p) PROVE ChatInv'
  BY <1>13, <1>t, MoveStep DEF M!OpenFails, M!Kill
<1>14. CASE UNCHANGED M!vars
  BY <1>14 DEF M!vars, ChatInv, M!TypeOK, Ready, RefusedOK
<1> QED BY <1>1, <1>2, <1>3, <1>4, <1>5, <1>6, <1>7, <1>8, <1>9, <1>10, <1>11, <1>12, <1>13,
           <1>14 DEF M!Next, M!Sender, M!Receiver, M!Generator

\* MsgQueue keeps its types: the queue holds at most Capacity messages, and whoever has
\* the key has the queue that was made last.
THEOREM ChatTypeCorrect == M!ConstantsOK => (M!Spec => []M!TypeOK)
<1>1. SUFFICES ASSUME M!ConstantsOK PROVE M!Spec => []M!TypeOK
  OBVIOUS
<1>2. ChatInv => M!TypeOK
  BY DEF ChatInv
<1> QED BY <1>1, <1>2, ChatInit, ChatStep, PTL DEF M!Spec

\* A sender that exits with 0 has had every line accepted, for any number of senders,
\* receivers, generators and queues: when a msgsnd has failed, its queue is gone and does
\* not come back, so that its own msgctl fails too (sender.cpp:38-51, mod_sender.cpp:45-57).
THEOREM SendersExitTruly == M!ConstantsOK => (M!Spec => []M!CleanExitMeansAccepted)
<1>1. SUFFICES ASSUME M!ConstantsOK PROVE M!Spec => []M!CleanExitMeansAccepted
  OBVIOUS
<1>2. ChatInv => M!CleanExitMeansAccepted
  BY DEF ChatInv, RefusedOK, M!CleanExitMeansAccepted
<1> QED BY <1>1, <1>2, ChatInit, ChatStep, PTL DEF M!Spec

-----------------------------------------------------------------------------
(***************************************************************************)
(* MsgQueue implements TypedQueue.                                         *)
(***************************************************************************)

\* Every step of the programs is one of TypedQueue or changes nothing of it: msgsnd appends
\* to one type, msgrcv takes the first message of one type, whatever was asked for, a
\* removal throws all away.
LEMMA Implements ==
    M!ConstantsOK /\ ChatInv /\ [M!Next]_(M!vars) => [M!Service!Next]_<<M!Pending, M!Got>>
<1> SUFFICES ASSUME M!ConstantsOK, ChatInv, [M!Next]_(M!vars)
             PROVE  [M!Service!Next]_<<M!Pending, M!Got>>
  OBVIOUS
<1>t. M!TypeOK /\ queue \in Seq(M!Messages)
  BY DEF ChatInv, M!TypeOK
<1>1. M!Senders \cap M!Receivers = {}
  BY DEF M!ConstantsOK
<1>2. ASSUME queue' = queue PROVE M!Pending' = M!Pending
  BY <1>2 DEF M!Pending
<1>3. ASSUME \A r \in M!Receivers : buf'[r] = buf[r] PROVE M!Got' = M!Got
  BY <1>3 DEF M!Got
<1>4. ASSUME queue' = << >>, buf' = buf PROVE M!Service!Next
  <2>1. M!Pending' = [t \in M!Types |-> << >>]
    BY <1>4, OfTypeEmpty DEF M!Pending
  <2> QED BY <1>3, <1>4, <2>1 DEF M!Service!Next, M!Service!ThrowAway
<1>5. ASSUME NEW s \in M!Senders, M!Send(s) PROVE M!Service!Next
  <2> DEFINE m == buf[s]
  <2>1. m \in M!Messages /\ queue' = Append(queue, m) /\ buf' = buf
    BY <1>5 DEF M!Send, ChatInv, Ready
  <2>2. \A t \in M!Types :
           M!OfType(queue', t) = IF m.type = t THEN Append(M!OfType(queue, t), m)
                                 ELSE M!OfType(queue, t)
    BY <1>t, <2>1, OfTypeAppend
  <2>3. m.type \in M!Types
    BY <2>1 DEF M!Messages
  <2> HIDE DEF m
  <2>4. M!Pending' = [M!Pending EXCEPT ![m.type] = Append(@, m)]
    BY <2>2, <2>3 DEF M!Pending
  <2> QED BY <1>3, <2>1, <2>4 DEF M!Service!Next, M!Service!Accept
<1>6. ASSUME NEW r \in M!Receivers, M!Receive(r) PROVE M!Service!Next
  <2> DEFINE k == M!Position(r)
             u == queue[k].type
  <2>1. k \in 1 .. Len(queue) /\ \A j \in 1 .. k - 1 : queue[j].type # u
    BY <1>6, <1>t, PositionFacts DEF M!Receive
  <2>2. queue[k] \in M!Messages
    BY <1>t, <2>1, QueueFacts
  <2>3. u \in M!Types
    BY <2>2 DEF M!Messages
  <2>4. queue' = M!RemoveAt(queue, k) /\ buf' = [buf EXCEPT ![r] = queue[k]]
    BY <1>6 DEF M!Receive
  <2> HIDE DEF k
  <2>5. /\ M!OfType(queue, u) # << >> /\ Head(M!OfType(queue, u)) = queue[k]
        /\ M!OfType(queue', u) = Tail(M!OfType(queue, u))
    BY <1>t, <2>1, <2>4, OfTypeRemoveFirst
  <2>6. \A t \in M!Types : t # u => M!OfType(queue', t) = M!OfType(queue, t)
    BY <1>t, <2>1, <2>4, OfTypeRemoveOther
  <2> HIDE DEF u
  <2>7. M!Pending[u] # << >> /\ M!Pending' = [M!Pending EXCEPT ![u] = Tail(@)]
    BY <2>3, <2>5, <2>6 DEF M!Pending
  <2>8. M!Got' = [M!Got EXCEPT ![r] = Head(M!Pending[u])]
    BY <1>t, <2>3, <2>4, <2>5 DEF M!Got, M!Pending, M!TypeOK
  <2> QED BY <2>3, <2>7, <2>8 DEF M!Service!Next, M!Service!Deliver
<1>7. ASSUME NEW s \in M!Senders, M!TypeLine(s) PROVE UNCHANGED <<M!Pending, M!Got>>
  <2>1. queue' = queue /\ \A r \in M!Receivers : buf'[r] = buf[r]
    BY <1>1, <1>7, <1>t DEF M!TypeLine, M!TypeOK
  <2> QED BY <1>2, <1>3, <2>1
<1>8. ASSUME NEW p \in M!Procs, \/ p \in M!Senders /\ M!Rmid(p)
                                \/ p \in Generators /\ M!GeneratorRemoves(p)
      PROVE  M!Service!Next \/ UNCHANGED <<M!Pending, M!Got>>
  <2>1. (queue' = << >> \/ queue' = queue) /\ buf' = buf
    BY <1>8 DEF M!Rmid, M!GeneratorRemoves, M!RemoveQueue
  <2> QED BY <1>2, <1>3, <1>4, <2>1
<1>9. ASSUME queue' = queue, buf' = buf PROVE UNCHANGED <<M!Pending, M!Got>>
  BY <1>2, <1>3, <1>9
<1>10. CASE UNCHANGED M!vars
  BY <1>9, <1>10 DEF M!vars
<1>11. ASSUME NEW s \in M!Senders, M!SenderOpens(s) \/ M!SendFails(s)
       PROVE  UNCHANGED <<M!Pending, M!Got>>
  BY <1>9, <1>11 DEF M!SenderOpens, M!GetOrCreate, M!SendFails
<1>12. ASSUME NEW r \in M!Receivers, M!ReceiverOpens(r) \/ M!EnterType(r) \/ M!ReceiveFails(r)
       PROVE  UNCHANGED <<M!Pending, M!Got>>
  BY <1>9, <1>12 DEF M!ReceiverOpens, M!EnterType, M!ReceiveFails
<1>13. ASSUME NEW g \in Generators, M!GeneratorOpens(g) \/ M!GeneratorFails(g)
       PROVE  UNCHANGED <<M!Pending, M!Got>>
  BY <1>9, <1>13 DEF M!GeneratorOpens, M!GetOrCreate, M!GeneratorFails
<1>14. ASSUME NEW p \in M!Procs, M!OpenFails(p) \/ M!Kill(p)
       PROVE  UNCHANGED <<M!Pending, M!Got>>
  BY <1>9, <1>14 DEF M!OpenFails, M!Kill
<1> QED BY <1>5, <1>6, <1>7, <1>8, <1>10, <1>11, <1>12, <1>13, <1>14
        DEF M!Next, M!Sender, M!Receiver, M!Generator, M!Procs

\* The queue of the_mess_que is one FIFO per type, through creations and removals, senders
\* and receivers of both kinds, generators and kills, for any number of them and any
\* capacity (mod_sender.cpp:44, receiver.cpp:36, mod_receiver.cpp:40).
THEOREM ChatRefines == M!ConstantsOK => (M!Spec => M!ImplementsTypedQueue)
<1>1. SUFFICES ASSUME M!ConstantsOK PROVE M!Spec => M!ImplementsTypedQueue
  OBVIOUS
<1>2. M!Init => M!Service!Init
  BY OfTypeEmpty DEF M!Init, M!Service!Init, M!Pending, M!Got
<1> QED BY <1>1, <1>2, ChatInit, ChatStep, Implements, PTL
        DEF M!Spec, M!ImplementsTypedQueue, M!Service!Spec
=============================================================================
