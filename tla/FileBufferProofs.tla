-------------------------- MODULE FileBufferProofs --------------------------
(***************************************************************************)
(* Proofs about FileBuffer, for any number of runs, sessions and numbers   *)
(* and any build: types and OneProducer (Sessions), then that nothing is   *)
(* read before the first number is there (First), and the turns of a       *)
(* session in which nobody has died (Turns).                               *)
(***************************************************************************)
EXTENDS FileBuffer, TLAPS

Numbers == {<< >>} \cup (1 .. MaxSets) \X (1 .. COUNT)

\* A run that has not attached has nothing to undo; only the producer removes its set,
\* so that its set has the key.
AttachedAt(p) ==
    /\ semid[p] <= made
    /\ pc[p] \in {"start", "exists"} => semid[p] = 0 /\ i[p] = 0
    /\ pc[p] \in {"start", "exists", "setall"} => \A s \in Sems : semadj[p][s] = 0
    /\ pc[p] \in Producing => semid[p] = key /\ key # 0
    /\ pc[p] \in Consuming => semid[p] # 0
    /\ pc[p] \in {"write", "close", "made"} => i[p] < COUNT
    /\ pc[p] = "setall" => i[p] = 0

AttachedOK == \A p \in Runs : AttachedAt(p)

Sessions == TypeOK /\ obtained \in Seq(Numbers) /\ AttachedOK /\ OneProducer

\* Before the first number, MADE is 0 and nobody has changed it.
Started == \E p \in Runs : semid[p] = key /\ i[p] > 0

First ==
    key # 0 /\ ~Started =>
        /\ semval[MADE] = 0
        /\ \A q \in Runs : Attached(q) => semadj[q][MADE] = 0 /\ pc[q] # "read"

\* Nobody is at the file, and one consumer is.
Quiet == \A q \in Runs : Attached(q) => pc[q] \notin {"read", "got"}

Lone(label) ==
    \E q \in Runs :
        /\ Attached(q) /\ pc[q] = label
        /\ \A r \in Runs : Attached(r) /\ pc[r] \in {"read", "got"} => r = q

\* The session as the producer sees it: one unit goes from READ to MADE and back, and is
\* with the producer or with one consumer in between.
Turn(p) ==
    /\ pc[p] = "setall" => semval[READ] = 0 /\ semval[MADE] = 0 /\ Quiet /\ obtained = << >>
    /\ pc[p] \in {"write", "close", "made"} =>
         semval[READ] = 0 /\ semval[MADE] = 0 /\ Quiet /\ Len(obtained) = i[p]
    /\ pc[p] = "made" => file = <<key, i[p] + 1>>
    /\ pc[p] = "loop" =>
         \/ semval[READ] = 1 /\ semval[MADE] = 0 /\ Quiet /\ Len(obtained) = i[p]
         \/ semval[READ] = 0 /\ semval[MADE] = 1 /\ Quiet /\ Len(obtained) = i[p] - 1
            /\ file = <<key, i[p]>>
         \/ semval[READ] = 0 /\ semval[MADE] = 0 /\ Lone("read") /\ Len(obtained) = i[p] - 1
            /\ file = <<key, i[p]>>
         \/ semval[READ] = 0 /\ semval[MADE] = 0 /\ Lone("got") /\ Len(obtained) = i[p]

InOrder == \A n \in 1 .. Len(obtained) : obtained[n] = <<made, n>>

Turns ==
    ~dead /\ second # "release" =>
        /\ InOrder
        /\ key # 0 => \E p \in Runs : pc[p] \in Producing
        /\ \A p \in Runs : pc[p] \in Producing => Turn(p)

Inv == Sessions /\ First /\ Turns

-----------------------------------------------------------------------------
(***************************************************************************)
(* Types and who is in which session.                                      *)
(***************************************************************************)

\* The end of a run: what the operators of Exit amount to.
LEMMA ExitFacts ==
    ASSUME Sessions, NEW p \in Runs, NEW how, Exit(p, how)
    PROVE  /\ pc' = [pc EXCEPT ![p] = how]
           /\ semval' \in [Sems -> Nat]
           /\ semadj' = [semadj EXCEPT ![p] = [s \in Sems |-> 0]]
           /\ IF Attached(p)
              THEN /\ semval' = [s \in Sems |-> Clip(semval[s] + semadj[p][s])]
                   /\ dead'
              ELSE UNCHANGED <<semval, dead>>
           /\ dead' \in BOOLEAN
           /\ UNCHANGED <<second, key, made, semid, i, file, obtained>>
<1>1. ASSUME NEW s \in Sems PROVE Clip(semval[s] + semadj[p][s]) \in Nat
  BY DEF Sessions, TypeOK, Clip
<1> QED BY <1>1 DEF Exit, Goto, Sessions, TypeOK

\* One operation of semop.
LEMMA AddFacts ==
    ASSUME TypeOK, NEW p \in Runs, NEW s \in Sems, NEW n \in Int, Add(p, s, n)
    PROVE  /\ semval' \in [Sems -> Nat] /\ semadj' \in [Runs -> [Sems -> Int]]
           /\ semval'[s] = semval[s] + n
           /\ \A r \in Sems : r # s => semval'[r] = semval[r]
           /\ \A q \in Runs : q # p => semadj'[q] = semadj[q]
BY DEF Add, TypeOK

\* Nothing obtained.
LEMMA EmptySeq == << >> \in Seq(Numbers)
OBVIOUS

\* The session part holds at first.
LEMMA SessionsInit == ConstantsAssumption /\ Init => Sessions
<1> SUFFICES ASSUME ConstantsAssumption, Init PROVE Sessions
  OBVIOUS
<1>1. TypeOK
  <2>1. COUNT \in Nat /\ MaxSets \in Nat
    BY DEF ConstantsAssumption
  <2>2. second \in Seconds /\ key \in {0, made} /\ made \in 0 .. MaxSets
    BY <2>1 DEF Init
  <2>3. semval \in [Sems -> Nat] /\ semadj \in [Runs -> [Sems -> Int]]
    BY DEF Init
  <2>4. semid \in [Runs -> 0 .. MaxSets] /\ i \in [Runs -> 0 .. COUNT]
    BY <2>1 DEF Init
  <2> QED BY <2>2, <2>3, <2>4 DEF Init, TypeOK
<1>2. obtained \in Seq(Numbers)
  BY EmptySeq DEF Init
<1>3. AttachedOK /\ OneProducer
  BY DEF Init, AttachedOK, AttachedAt, OneProducer, Producing, Consuming, Sems
<1> QED BY <1>1, <1>2, <1>3 DEF Sessions

\* Every step keeps the session part.
LEMMA SessionsStep == ConstantsAssumption /\ Sessions /\ [Next]_vars => Sessions'
<1> SUFFICES ASSUME ConstantsAssumption, Sessions, [Next]_vars PROVE Sessions'
  OBVIOUS
<1>0. COUNT \in Nat /\ MaxSets \in Nat
  BY DEF ConstantsAssumption
<1>a. TypeOK /\ obtained \in Seq(Numbers) /\ AttachedOK /\ OneProducer
  BY DEF Sessions
<1>b. READ \in Sems /\ MADE \in Sems
  BY DEF Sems
<1> USE <1>a, <1>b
<1>1. CASE UNCHANGED vars
  BY <1>1 DEF vars, Sessions, TypeOK, AttachedOK, AttachedAt, OneProducer, Numbers
<1>2. ASSUME NEW p \in Runs, SemgetExcl(p) PROVE Sessions'
  <2>1. TypeOK'
    <3>1. made + 1 \in 0 .. MaxSets /\ made' = made + 1 /\ key' = made'
      BY <1>0, <1>2 DEF TypeOK, SemgetExcl
    <3>2. semval' \in [Sems -> Nat] /\ semid' \in [Runs -> 0 .. MaxSets]
      BY <1>2, <3>1 DEF TypeOK, SemgetExcl
    <3> QED BY <1>2, <3>1, <3>2 DEF TypeOK, Goto, Producing, Consuming, Sems, READ, MADE, SemgetExcl
  <2>2. obtained' \in Seq(Numbers)
    BY <1>2, EmptySeq DEF SemgetExcl
  <2>3. AttachedOK'
    BY <1>0, <1>2 DEF TypeOK, Goto, Producing, Consuming, Sems, READ, MADE, AttachedOK, AttachedAt, Attached, SemgetExcl
  <2>4. OneProducer'
    BY <1>2 DEF TypeOK, Goto, Producing, Consuming, Sems, READ, MADE, AttachedOK, AttachedAt, OneProducer, SemgetExcl
  <2> QED BY <2>1, <2>2, <2>3, <2>4 DEF Sessions, Numbers
<1>3. ASSUME NEW p \in Runs, SemgetExclFails(p) PROVE Sessions'
  <2>1. TypeOK'
    BY <1>0, <1>3 DEF TypeOK, Goto, Producing, Consuming, Sems, READ, MADE, SemgetExclFails
  <2>2. obtained' \in Seq(Numbers)
    BY <1>3 DEF SemgetExclFails
  <2>3. AttachedOK'
    BY <1>0, <1>3 DEF TypeOK, Goto, Producing, Consuming, Sems, READ, MADE, AttachedOK, AttachedAt, Attached, SemgetExclFails
  <2>4. OneProducer'
    BY <1>3 DEF TypeOK, Goto, Producing, Consuming, Sems, READ, MADE, AttachedOK, AttachedAt, OneProducer, SemgetExclFails
  <2> QED BY <2>1, <2>2, <2>3, <2>4 DEF Sessions, Numbers
<1>4. ASSUME NEW p \in Runs, Semget(p) PROVE Sessions'
  <2>1. TypeOK'
    BY <1>0, <1>4 DEF TypeOK, Goto, Producing, Consuming, Sems, READ, MADE, Semget
  <2>2. obtained' \in Seq(Numbers)
    BY <1>4 DEF Semget
  <2>3. AttachedOK'
    BY <1>0, <1>4 DEF TypeOK, Goto, Producing, Consuming, Sems, READ, MADE, AttachedOK, AttachedAt, Attached, Semget
  <2>4. OneProducer'
    BY <1>4 DEF TypeOK, Goto, Producing, Consuming, Sems, READ, MADE, AttachedOK, AttachedAt, OneProducer, Semget
  <2> QED BY <2>1, <2>2, <2>3, <2>4 DEF Sessions, Numbers
<1>5. ASSUME NEW p \in Runs, SetAll(p) PROVE Sessions'
  <2>1. TypeOK'
    BY <1>0, <1>5 DEF TypeOK, Goto, Producing, Consuming, Sems, READ, MADE, SetAll
  <2>2. obtained' \in Seq(Numbers)
    BY <1>5 DEF SetAll
  <2>3. AttachedOK'
    BY <1>0, <1>5 DEF TypeOK, Goto, Producing, Consuming, Sems, READ, MADE, AttachedOK, AttachedAt, Attached, SetAll
  <2>4. OneProducer'
    BY <1>5 DEF TypeOK, Goto, Producing, Consuming, Sems, READ, MADE, AttachedOK, AttachedAt, OneProducer, SetAll
  <2> QED BY <2>1, <2>2, <2>3, <2>4 DEF Sessions, Numbers
<1>6. ASSUME NEW p \in Runs, ProducerAcquire(p) PROVE Sessions'
  <2>0. /\ semval' \in [Sems -> Nat] /\ semadj' \in [Runs -> [Sems -> Int]]
        /\ \A q \in Runs : q # p => semadj'[q] = semadj[q]
    BY <1>6, READ \in Sems, MADE \in Sems, AddFacts DEF ProducerAcquire
  <2>1. TypeOK'
    BY <1>0, <1>6, <2>0 DEF TypeOK, Goto, Producing, Consuming, Sems, READ, MADE, ProducerAcquire
  <2>2. obtained' \in Seq(Numbers)
    BY <1>6, <2>0 DEF ProducerAcquire
  <2>3. AttachedOK'
    <3> SUFFICES ASSUME NEW q \in Runs PROVE AttachedAt(q)'
      BY DEF AttachedOK
    <3>0. AttachedAt(q)
      BY DEF AttachedOK
    <3>1. CASE q = p
      BY <1>0, <1>6, <2>0, <3>0, <3>1 DEF TypeOK, Goto, Producing, Consuming, Sems, READ, MADE, AttachedAt, Attached, ProducerAcquire
    <3>2. CASE q # p
      BY <1>0, <1>6, <2>0, <3>0, <3>2 DEF TypeOK, Goto, AttachedAt, ProducerAcquire
    <3> QED BY <3>1, <3>2
  <2>4. OneProducer'
    BY <1>6, <2>0 DEF TypeOK, Goto, Producing, Consuming, Sems, READ, MADE, AttachedOK, AttachedAt, OneProducer, ProducerAcquire
  <2> QED BY <2>1, <2>2, <2>3, <2>4 DEF Sessions, Numbers
<1>7. ASSUME NEW p \in Runs, OpenToWrite(p) PROVE Sessions'
  <2>1. TypeOK'
    BY <1>0, <1>7 DEF TypeOK, Goto, Producing, Consuming, Sems, READ, MADE, OpenToWrite
  <2>2. obtained' \in Seq(Numbers)
    BY <1>7 DEF OpenToWrite
  <2>3. AttachedOK'
    BY <1>0, <1>7 DEF TypeOK, Goto, Producing, Consuming, Sems, READ, MADE, AttachedOK, AttachedAt, Attached, OpenToWrite
  <2>4. OneProducer'
    BY <1>7 DEF TypeOK, Goto, Producing, Consuming, Sems, READ, MADE, AttachedOK, AttachedAt, OneProducer, OpenToWrite
  <2> QED BY <2>1, <2>2, <2>3, <2>4 DEF Sessions, Numbers
<1>8. ASSUME NEW p \in Runs, CloseWritten(p) PROVE Sessions'
  <2>1. TypeOK'
    BY <1>0, <1>8 DEF TypeOK, Goto, Producing, Consuming, Sems, READ, MADE, AttachedOK, AttachedAt, CloseWritten
  <2>2. obtained' \in Seq(Numbers)
    BY <1>8 DEF CloseWritten
  <2>3. AttachedOK'
    BY <1>0, <1>8 DEF TypeOK, Goto, Producing, Consuming, Sems, READ, MADE, AttachedOK, AttachedAt, Attached, CloseWritten
  <2>4. OneProducer'
    BY <1>8 DEF TypeOK, Goto, Producing, Consuming, Sems, READ, MADE, AttachedOK, AttachedAt, OneProducer, CloseWritten
  <2> QED BY <2>1, <2>2, <2>3, <2>4 DEF Sessions, Numbers
<1>9. ASSUME NEW p \in Runs, ProducerRelease(p) PROVE Sessions'
  <2>0. /\ semval' \in [Sems -> Nat] /\ semadj' \in [Runs -> [Sems -> Int]]
        /\ \A q \in Runs : q # p => semadj'[q] = semadj[q]
    BY <1>9, READ \in Sems, MADE \in Sems, AddFacts DEF ProducerRelease
  <2>1. TypeOK'
    <3>1. i[p] \in 0 .. COUNT /\ i[p] < COUNT
      BY <1>9 DEF TypeOK, AttachedOK, AttachedAt, ProducerRelease
    <3>2. i' \in [Runs -> 0 .. COUNT]
      BY <1>0, <1>9, <3>1 DEF TypeOK, ProducerRelease
    <3> QED BY <1>9, <2>0, <3>2 DEF TypeOK, Goto, Producing, Consuming, ProducerRelease
  <2>2. obtained' \in Seq(Numbers)
    BY <1>9, <2>0 DEF ProducerRelease
  <2>3. AttachedOK'
    <3> SUFFICES ASSUME NEW q \in Runs PROVE AttachedAt(q)'
      BY DEF AttachedOK
    <3>0. AttachedAt(q)
      BY DEF AttachedOK
    <3>1. CASE q = p
      BY <1>0, <1>9, <2>0, <3>0, <3>1 DEF TypeOK, Goto, Producing, Consuming, Sems, READ, MADE, AttachedAt, Attached, ProducerRelease
    <3>2. CASE q # p
      BY <1>0, <1>9, <2>0, <3>0, <3>2 DEF TypeOK, Goto, AttachedAt, ProducerRelease
    <3> QED BY <3>1, <3>2
  <2>4. OneProducer'
    BY SMTT(30), <1>9, <2>0 DEF TypeOK, Goto, Producing, Consuming, Sems, READ, MADE, AttachedOK, AttachedAt, OneProducer, ProducerRelease
  <2> QED BY <2>1, <2>2, <2>3, <2>4 DEF Sessions, Numbers
<1>10. ASSUME NEW p \in Runs, Rmid(p) PROVE Sessions'
  <2>1. TypeOK'
    BY <1>0, <1>10 DEF TypeOK, Goto, Producing, Consuming, Sems, READ, MADE, Rmid
  <2>2. obtained' \in Seq(Numbers)
    BY <1>10 DEF Rmid
  <2>3. AttachedOK'
    BY <1>0, <1>10 DEF TypeOK, Goto, Producing, Consuming, Sems, READ, MADE, AttachedOK, AttachedAt, Attached, OneProducer, Rmid
  <2>4. OneProducer'
    BY <1>10 DEF TypeOK, Goto, Producing, Consuming, Sems, READ, MADE, AttachedOK, AttachedAt, OneProducer, Rmid
  <2> QED BY <2>1, <2>2, <2>3, <2>4 DEF Sessions, Numbers
<1>11. ASSUME NEW p \in Runs, ConsumerAcquire(p) PROVE Sessions'
  <2>0. /\ semval' \in [Sems -> Nat] /\ semadj' \in [Runs -> [Sems -> Int]]
        /\ \A q \in Runs : q # p => semadj'[q] = semadj[q]
    <3>1. CASE second = "release"
      <4>1. semval[MADE] - 1 \in Nat /\ semval[READ] + 1 \in Nat
        BY <1>11, <3>1 DEF ConsumerAcquire, TypeOK
      <4>2. semval' \in [Sems -> Nat]
        BY <1>11, <3>1, <4>1 DEF ConsumerAcquire, TypeOK
      <4>3. semadj[p] \in [Sems -> Int]
        BY DEF TypeOK
      <4>4. semadj' = [semadj EXCEPT ![p] =
                         [semadj[p] EXCEPT ![MADE] = @ + 1, ![READ] = @ - 1]]
        BY <1>11, <3>1 DEF ConsumerAcquire, TypeOK, READ, MADE
      <4>5. [semadj[p] EXCEPT ![MADE] = @ + 1, ![READ] = @ - 1] \in [Sems -> Int]
        BY <4>3 DEF READ, MADE
      <4> QED BY <4>2, <4>4, <4>5 DEF TypeOK
    <3>2. CASE second # "release"
      BY <1>11, <3>2, AddFacts DEF ConsumerAcquire
    <3> QED BY <3>1, <3>2
  <2>1. TypeOK'
    BY <1>0, <1>11, <2>0 DEF TypeOK, Goto, Producing, Consuming, Sems, READ, MADE, ConsumerAcquire
  <2>2. obtained' \in Seq(Numbers)
    BY <1>11, <2>0 DEF ConsumerAcquire
  <2>3. AttachedOK'
    <3> SUFFICES ASSUME NEW q \in Runs PROVE AttachedAt(q)'
      BY DEF AttachedOK
    <3>0. AttachedAt(q)
      BY DEF AttachedOK
    <3>1. CASE q = p
      BY <1>0, <1>11, <2>0, <3>0, <3>1 DEF TypeOK, Goto, Producing, Consuming, Sems, READ, MADE, AttachedAt, Attached, ConsumerAcquire
    <3>2. CASE q # p
      BY <1>0, <1>11, <2>0, <3>0, <3>2 DEF TypeOK, Goto, AttachedAt, ConsumerAcquire
    <3> QED BY <3>1, <3>2
  <2>4. OneProducer'
    BY <1>11, <2>0 DEF TypeOK, Goto, Producing, Consuming, Sems, READ, MADE, AttachedOK, AttachedAt, OneProducer, ConsumerAcquire
  <2> QED BY <2>1, <2>2, <2>3, <2>4 DEF Sessions, Numbers
<1>12. ASSUME NEW p \in Runs, ReadFile(p) PROVE Sessions'
  <2>1. TypeOK'
    BY <1>0, <1>12 DEF TypeOK, Goto, Producing, Consuming, Sems, READ, MADE, ReadFile
  <2>2. obtained' \in Seq(Numbers)
    BY <1>12 DEF ReadFile, TypeOK, Numbers
  <2>3. AttachedOK'
    BY <1>0, <1>12 DEF TypeOK, Goto, Producing, Consuming, Sems, READ, MADE, AttachedOK, AttachedAt, Attached, ReadFile
  <2>4. OneProducer'
    BY <1>12 DEF TypeOK, Goto, Producing, Consuming, Sems, READ, MADE, AttachedOK, AttachedAt, OneProducer, ReadFile
  <2> QED BY <2>1, <2>2, <2>3, <2>4 DEF Sessions, Numbers
<1>13. ASSUME NEW p \in Runs, ConsumerRelease(p) PROVE Sessions'
  <2>0. /\ semval' \in [Sems -> Nat] /\ semadj' \in [Runs -> [Sems -> Int]]
        /\ \A q \in Runs : q # p => semadj'[q] = semadj[q]
    BY <1>13, READ \in Sems, MADE \in Sems, AddFacts DEF ConsumerRelease
  <2>1. TypeOK'
    BY <1>0, <1>13, <2>0 DEF TypeOK, Goto, Producing, Consuming, Sems, READ, MADE, ConsumerRelease
  <2>2. obtained' \in Seq(Numbers)
    BY <1>13, <2>0 DEF ConsumerRelease
  <2>3. AttachedOK'
    <3> SUFFICES ASSUME NEW q \in Runs PROVE AttachedAt(q)'
      BY DEF AttachedOK
    <3>0. AttachedAt(q)
      BY DEF AttachedOK
    <3>1. CASE q = p
      BY <1>0, <1>13, <2>0, <3>0, <3>1 DEF TypeOK, Goto, Producing, Consuming, Sems, READ, MADE, AttachedAt, Attached, ConsumerRelease
    <3>2. CASE q # p
      BY <1>0, <1>13, <2>0, <3>0, <3>2 DEF TypeOK, Goto, AttachedAt, ConsumerRelease
    <3> QED BY <3>1, <3>2
  <2>4. OneProducer'
    BY <1>13, <2>0 DEF TypeOK, Goto, Producing, Consuming, Sems, READ, MADE, AttachedOK, AttachedAt, OneProducer, ConsumerRelease
  <2> QED BY <2>1, <2>2, <2>3, <2>4 DEF Sessions, Numbers
<1>14. ASSUME NEW p \in Runs, Exit(p, "exit") PROVE Sessions'
  <2>0. /\ pc' = [pc EXCEPT ![p] = "exit"] /\ semval' \in [Sems -> Nat] /\ dead' \in BOOLEAN
        /\ semadj' = [semadj EXCEPT ![p] = [s \in Sems |-> 0]]
        /\ UNCHANGED <<second, key, made, semid, i, file, obtained>>
    BY <1>14, ExitFacts
  <2>1. TypeOK'
    BY <1>0, <1>14, <2>0 DEF TypeOK, Goto, Producing, Consuming, Sems, READ, MADE
  <2>2. obtained' \in Seq(Numbers)
    BY <1>14, <2>0 DEF Numbers
  <2>3. AttachedOK'
    BY <1>0, <1>14, <2>0 DEF TypeOK, Goto, Producing, Consuming, Sems, READ, MADE, AttachedOK, AttachedAt, Attached
  <2>4. OneProducer'
    BY SMTT(30), <1>14, <2>0 DEF TypeOK, Goto, Producing, Consuming, Sems, READ, MADE, AttachedOK, AttachedAt, OneProducer
  <2> QED BY <2>1, <2>2, <2>3, <2>4 DEF Sessions, Numbers
<1> QED
  BY <1>1, <1>2, <1>3, <1>4, <1>5, <1>6, <1>7, <1>8, <1>9, <1>10, <1>11, <1>12, <1>13, <1>14
  DEF Next, Step, SemgetFails, SemopFails, FopenFails, Kill

\* The session part is an invariant.
LEMMA SessionsHold == Spec => []Sessions
BY ConstantsAssumption, SessionsInit, SessionsStep, PTL DEF Spec

\* Types (sem_prod_con.cpp).
THEOREM BufferTypeCorrect == Spec => []TypeOK
BY SessionsHold, PTL DEF Sessions

\* However many runs are started at the same time, a session has one producer
\* (sem_prod_con.cpp:36).
THEOREM ProducerAlone == Spec => []OneProducer
BY SessionsHold, PTL DEF Sessions

-----------------------------------------------------------------------------
(***************************************************************************)
(* Nothing is read before the first number is in the file.                 *)
(***************************************************************************)

\* At first there is no session.
LEMMA FirstInit == Init => First
BY DEF Init, First

\* Every step keeps First.
LEMMA FirstStep == Sessions /\ First /\ [Next]_vars => First'
<1> SUFFICES ASSUME Sessions, First, [Next]_vars PROVE First'
  OBVIOUS
<1>a. TypeOK /\ AttachedOK
  BY DEF Sessions
<1>b. READ \in Sems /\ MADE \in Sems /\ READ # MADE
  BY DEF Sems, READ, MADE
<1> USE <1>a, <1>b
<1>1. CASE UNCHANGED vars
  BY <1>1 DEF vars, First, Started, Attached
<1>2. ASSUME NEW p \in Runs, SemgetExcl(p) PROVE First'
  BY <1>2 DEF SemgetExcl, First, Attached, AttachedOK, AttachedAt, TypeOK, Goto
<1>3. ASSUME NEW p \in Runs,
             SemgetExclFails(p) \/ OpenToWrite(p) \/ CloseWritten(p) \/ Rmid(p) \/ ReadFile(p)
      PROVE  First'
  BY <1>3 DEF SemgetExclFails, OpenToWrite, CloseWritten, Rmid, ReadFile, First, Started,
              Attached, TypeOK, Goto
<1>4. ASSUME NEW p \in Runs, Semget(p) PROVE First'
  BY <1>4 DEF Semget, First, Started, Attached, AttachedOK, AttachedAt, TypeOK, Goto
<1>5. ASSUME NEW p \in Runs, SetAll(p) PROVE First'
  BY <1>5 DEF SetAll, First, Started, Attached, TypeOK, Goto
<1>6. ASSUME NEW p \in Runs, ProducerAcquire(p) PROVE First'
  BY <1>6 DEF ProducerAcquire, Add, First, Started, Attached, TypeOK, Goto
<1>7. ASSUME NEW p \in Runs, ProducerRelease(p) PROVE First'
  <2>1. semid'[p] = key' /\ i'[p] > 0
    BY <1>7 DEF ProducerRelease, Attached, TypeOK
  <2> QED BY <2>1 DEF First, Started
<1>8. ASSUME NEW p \in Runs, ConsumerAcquire(p) PROVE First'
  <2>1. semval[MADE] > 0 /\ UNCHANGED <<key, semid, i>>
    BY <1>8 DEF ConsumerAcquire, Add, TypeOK
  <2>2. key # 0 /\ Started
    BY <1>8, <2>1 DEF ConsumerAcquire, Attached, AttachedOK, AttachedAt, Consuming, First
  <2> QED BY <2>1, <2>2 DEF First, Started
<1>9. ASSUME NEW p \in Runs, ConsumerRelease(p) PROVE First'
  BY <1>9 DEF ConsumerRelease, Add, First, Started, Attached, TypeOK, Goto
<1>10. ASSUME NEW p \in Runs, Exit(p, "exit") PROVE First'
  <2> SUFFICES ASSUME key # 0, ~Started
               PROVE  /\ semval'[MADE] = 0
                      /\ \A q \in Runs : Attached(q) => semadj'[q][MADE] = 0 /\ pc'[q] # "read"
    BY <1>10 DEF Exit, First, Started, Attached
  <2>1. semval[MADE] = 0 /\ (Attached(p) => semadj[p][MADE] = 0)
    BY DEF First
  <2>2. semval'[MADE] = 0
    BY <1>10, <2>1 DEF Exit, Clip
  <2>3. \A q \in Runs : Attached(q) => semadj'[q][MADE] = 0 /\ pc'[q] # "read"
    BY <1>10 DEF Exit, First, TypeOK, Goto
  <2> QED BY <2>2, <2>3
<1> QED
  BY <1>1, <1>2, <1>3, <1>4, <1>5, <1>6, <1>7, <1>8, <1>9, <1>10
  DEF Next, Step, SemgetFails, SemopFails, FopenFails, Kill

-----------------------------------------------------------------------------
(***************************************************************************)
(* The turns of a session in which nobody has died.                        *)
(***************************************************************************)

\* At first there is no producer.
LEMMA TurnsInit == Init => Turns
BY DEF Init, Turns, InOrder, Producing

\* A number more in the list.
LEMMA AppendFacts ==
    ASSUME NEW S, NEW s \in Seq(S), NEW e \in S
    PROVE  /\ Len(Append(s, e)) = Len(s) + 1
           /\ \A n \in 1 .. Len(s) : Append(s, e)[n] = s[n]
           /\ Append(s, e)[Len(s) + 1] = e
OBVIOUS

\* The producer of a session is the only one of all runs: a run that produces has the set
\* of the key.
LEMMA Alone ==
    ASSUME Sessions
    PROVE  \A p, q \in Runs : pc[p] \in Producing /\ pc[q] \in Producing => p = q
BY DEF Sessions, AttachedOK, AttachedAt, OneProducer

\* Every step keeps Turns.
LEMMA TurnsStep == Sessions /\ Sessions' /\ Turns /\ [Next]_vars => Turns'
<1> SUFFICES ASSUME Sessions, Sessions', Turns, [Next]_vars PROVE Turns'
  OBVIOUS
<1>a. TypeOK /\ AttachedOK /\ obtained \in Seq(Numbers) /\ Len(obtained) \in Nat
  BY DEF Sessions
<1>b. READ \in Sems /\ MADE \in Sems /\ READ # MADE
  BY DEF Sems, READ, MADE
<1>c. \A p, q \in Runs : pc[p] \in Producing /\ pc[q] \in Producing => p = q
  BY Alone
<1> USE <1>a, <1>b, <1>c
<1>1. CASE UNCHANGED vars
  BY <1>1 DEF vars, Turns, Turn, InOrder, Quiet, Lone, Attached
<1>2. ASSUME NEW p \in Runs, SemgetExcl(p) PROVE Turns'
  <2>1. \A q \in Runs : pc[q] \notin Producing
    BY <1>2 DEF SemgetExcl, AttachedOK, AttachedAt
  <2>2. \A q \in Runs : pc'[q] \in Producing => q = p
    BY <1>2, <2>1 DEF SemgetExcl, Goto, TypeOK
  <2>3. semval'[READ] = 0 /\ semval'[MADE] = 0 /\ obtained' = << >> /\ pc'[p] = "setall"
    BY <1>2 DEF SemgetExcl, Goto, TypeOK
  <2>4. Quiet'
    <3> SUFFICES ASSUME NEW q \in Runs, semid'[q] = key' PROVE pc'[q] \notin {"read", "got"}
      BY DEF Quiet, Attached
    <3>1. CASE q = p
      BY <2>3, <3>1
    <3>2. CASE q # p
      BY <1>2, <3>2 DEF SemgetExcl, AttachedOK, AttachedAt, TypeOK
    <3> QED BY <3>1, <3>2
  <2>5. ASSUME NEW q \in Runs, pc'[q] \in Producing PROVE Turn(q)'
    BY <2>2, <2>3, <2>4, <2>5 DEF Turn
  <2>6. InOrder'
    BY <2>3 DEF InOrder
  <2> QED BY <2>3, <2>5, <2>6 DEF Turns, Producing
\* From here on nobody has died, and nobody dies in this step.
<1> DEFINE Alive == ~dead /\ ~dead' /\ second # "release" /\ second' = second
           Kept == /\ InOrder'
                   /\ key' # 0 => \E q \in Runs : pc'[q] \in Producing
                   /\ \A q \in Runs : pc'[q] \in Producing => Turn(q)'
<1>d. Alive => /\ InOrder
               /\ key # 0 => \E q \in Runs : pc[q] \in Producing
               /\ \A q \in Runs : pc[q] \in Producing => Turn(q)
  BY DEF Turns
\* A step of a run that is not the producer and leaves the buffer alone.
<1>3. ASSUME NEW p \in Runs, Alive,
             pc[p] \notin Producing,
             UNCHANGED <<key, made, semval, i, file, obtained>>,
             pc' = [pc EXCEPT ![p] = pc'[p]], pc'[p] \in {"exists", "wait", "exit"},
             \A q \in Runs : q # p => semid'[q] = semid[q],
             Attached(p) => pc[p] \notin {"read", "got"}
      PROVE  Kept
  <2>1. \A q \in Runs : pc'[q] \in Producing <=> pc[q] \in Producing
    BY <1>3 DEF TypeOK, Producing
  <2>2. \A q \in Runs : q # p => pc'[q] = pc[q]
    BY <1>3 DEF TypeOK
  <2>3. Quiet => Quiet'
    BY <1>3, <2>2 DEF Quiet, Attached
  <2>4. ASSUME NEW label \in {"read", "got"}, Lone(label) PROVE Lone(label)'
    <3>1. PICK q \in Runs : /\ Attached(q) /\ pc[q] = label
                           /\ \A r \in Runs : Attached(r) /\ pc[r] \in {"read", "got"} => r = q
      BY <2>4 DEF Lone
    <3>2. q # p
      BY <1>3, <3>1
    <3> QED BY <1>3, <2>2, <3>1, <3>2 DEF Lone, Attached
  <2>5. ASSUME NEW q \in Runs, pc'[q] \in Producing PROVE Turn(q)'
    <3>1. Turn(q) /\ pc'[q] = pc[q]
      BY <1>3, <1>d, <2>1, <2>2, <2>5
    <3> QED BY <1>3, <2>3, <2>4, <3>1 DEF Turn
  <2>6. InOrder'
    BY <1>3, <1>d DEF InOrder
  <2> QED BY <1>3, <1>d, <2>1, <2>5, <2>6
\* A step of the producer.
<1>4. ASSUME NEW p \in Runs, Alive, pc[p] \in Producing,
             pc' = [pc EXCEPT ![p] = pc'[p]], pc'[p] \in Producing,
             UNCHANGED <<key, made, semid, obtained>>,
             Turn(p)'
      PROVE  Kept
  <2>1. \A q \in Runs : q # p => pc'[q] \notin Producing
    BY <1>4 DEF TypeOK
  <2>2. ASSUME NEW q \in Runs, pc'[q] \in Producing PROVE Turn(q)'
    BY <1>4, <1>d, <2>1, <2>2
  <2>3. InOrder'
    BY <1>4, <1>d DEF InOrder
  <2> QED BY <1>4, <2>2, <2>3
<1>5. ASSUME NEW p \in Runs, Alive, SemgetExclFails(p) \/ Semget(p) \/ Exit(p, "exit") PROVE Kept
  <2>1. CASE SemgetExclFails(p) \/ Semget(p)
    BY <1>3, <1>5, <2>1 DEF SemgetExclFails, Semget, Goto, TypeOK, Producing
  <2>2. CASE Exit(p, "exit")
    <3>1. ~Attached(p)
      BY <1>5, <2>2 DEF Exit
    <3>2. pc[p] \notin Producing
      BY <3>1 DEF AttachedOK, AttachedAt, Attached
    <3> QED BY <1>3, <1>5, <2>2, <3>1, <3>2 DEF Exit, Goto, TypeOK
  <2> QED BY <1>5, <2>1, <2>2
<1>6. ASSUME NEW p \in Runs, Alive,
             SetAll(p) \/ ProducerAcquire(p) \/ OpenToWrite(p) \/ CloseWritten(p)
      PROVE  Kept
  <2>1. pc[p] \in Producing /\ semid[p] = key /\ Turn(p)
    BY <1>6, <1>d
    DEF SetAll, ProducerAcquire, OpenToWrite, CloseWritten, Producing, AttachedOK, AttachedAt
  <2>2. /\ pc' = [pc EXCEPT ![p] = pc'[p]] /\ UNCHANGED <<key, made, semid, i, obtained>>
        /\ pc'[p] \in {"loop", "write", "close", "made"}
    BY <1>6 DEF SetAll, ProducerAcquire, OpenToWrite, CloseWritten, Goto, TypeOK
  <2>3. Quiet
    BY <1>6, <2>1
    DEF SetAll, ProducerAcquire, OpenToWrite, CloseWritten, Turn, Add, TypeOK
  <2>4. Quiet'
    BY <2>2, <2>3 DEF Quiet, Attached, TypeOK
  <2>5. Turn(p)'
    <3>1. CASE SetAll(p)
      BY <2>1, <2>2, <2>4, <3>1, i[p] = 0 DEF SetAll, Turn, Goto, TypeOK, AttachedOK, AttachedAt
    <3>2. CASE ProducerAcquire(p)
      BY <2>1, <2>2, <2>4, <3>2 DEF ProducerAcquire, Add, Turn, Goto, TypeOK
    <3>3. CASE OpenToWrite(p)
      BY <2>1, <2>2, <2>4, <3>3 DEF OpenToWrite, Turn, Goto, TypeOK
    <3>4. CASE CloseWritten(p)
      BY <2>1, <2>2, <2>4, <3>4 DEF CloseWritten, Turn, Goto, TypeOK
    <3> QED BY <1>6, <3>1, <3>2, <3>3, <3>4
  <2> QED BY <1>4, <1>6, <2>1, <2>2, <2>5 DEF Producing
<1>7. ASSUME NEW p \in Runs, Alive, ProducerRelease(p) PROVE Kept
  <2>1. /\ pc[p] \in Producing /\ semid[p] = key /\ Turn(p)
        /\ i[p] \in Nat /\ semval[READ] = 0 /\ semval[MADE] = 0 /\ Quiet
        /\ Len(obtained) = i[p] /\ file = <<key, i[p] + 1>>
    BY <1>7, <1>d DEF ProducerRelease, Turn, Producing, AttachedOK, AttachedAt, TypeOK
  <2>2. /\ pc' = [pc EXCEPT ![p] = "loop"] /\ UNCHANGED <<key, made, semid, obtained, file>>
        /\ pc'[p] = "loop" /\ i'[p] = i[p] + 1
        /\ semval'[READ] = 0 /\ semval'[MADE] = 1
    BY <1>7, <2>1 DEF ProducerRelease, Add, Goto, TypeOK
  <2>3. Quiet'
    BY <2>1, <2>2 DEF Quiet, Attached, TypeOK
  <2>4. Turn(p)'
    BY <2>1, <2>2, <2>3 DEF Turn
  <2> QED BY <1>4, <1>7, <2>1, <2>2, <2>4 DEF Producing
<1>8. ASSUME NEW p \in Runs, Alive, Rmid(p) PROVE Kept
  <2>1. \A q \in Runs : pc'[q] \notin Producing
    BY <1>8 DEF Rmid, Goto, TypeOK, Producing
  <2>2. InOrder' /\ key' = 0
    BY <1>8, <1>d DEF Rmid, InOrder
  <2> QED BY <2>1, <2>2
\* A consumer of the session finds a producer between two numbers.
<1>9. ASSUME NEW p \in Runs, Alive, pc[p] \in Consuming, Attached(p),
             pc[p] = "wait" => semval[MADE] > 0
      PROVE  \E q \in Runs :
               /\ q # p /\ pc[q] \in Producing /\ Turn(q)
               /\ pc[p] = "wait" =>
                    /\ pc[q] = "loop" /\ semval[READ] = 0 /\ semval[MADE] = 1 /\ Quiet
                    /\ Len(obtained) = i[q] - 1 /\ file = <<key, i[q]>>
               /\ pc[p] = "read" =>
                    /\ pc[q] = "loop" /\ semval[READ] = 0 /\ semval[MADE] = 0 /\ Lone("read")
                    /\ Len(obtained) = i[q] - 1 /\ file = <<key, i[q]>>
               /\ pc[p] = "got" =>
                    /\ pc[q] = "loop" /\ semval[READ] = 0 /\ semval[MADE] = 0 /\ Lone("got")
                    /\ Len(obtained) = i[q]
  <2>1. key # 0
    BY <1>9 DEF AttachedOK, AttachedAt, Attached
  <2>2. PICK q \in Runs : pc[q] \in Producing
    BY <1>9, <1>d, <2>1
  <2>3. Turn(q) /\ q # p
    BY <1>9, <1>d, <2>2 DEF Producing, Consuming
  <2>4. pc[p] \in {"read", "got"} => ~Quiet
    BY <1>9 DEF Quiet
  <2>5. \A label : pc[p] \in {"read", "got"} /\ Lone(label) => label = pc[p]
    BY <1>9 DEF Lone
  <2> QED BY <1>9, <2>2, <2>3, <2>4, <2>5 DEF Turn, Producing
<1>10. ASSUME NEW p \in Runs, Alive, ConsumerAcquire(p) PROVE Kept
  <2>1. semval[MADE] > 0 /\ pc[p] = "wait" /\ Attached(p) /\ pc[p] \in Consuming
    BY <1>10 DEF ConsumerAcquire, Add, TypeOK, Consuming
  <2>2. PICK q \in Runs :
          /\ q # p /\ pc[q] = "loop" /\ semval[READ] = 0 /\ semval[MADE] = 1 /\ Quiet
          /\ Len(obtained) = i[q] - 1 /\ file = <<key, i[q]>>
    BY <1>9, <1>10, <2>1
  <2>3. /\ pc' = [pc EXCEPT ![p] = "read"] /\ UNCHANGED <<key, made, semid, i, obtained, file>>
        /\ semval'[READ] = 0 /\ semval'[MADE] = 0
    BY <1>10, <2>2 DEF ConsumerAcquire, Add, Goto, TypeOK
  <2>4. Lone("read")'
    BY <2>1, <2>2, <2>3 DEF Lone, Quiet, Attached, TypeOK
  <2>5. ASSUME NEW r \in Runs, pc'[r] \in Producing PROVE Turn(r)'
    <3>1. r = q /\ pc'[r] = "loop"
      BY <2>2, <2>3, <2>5 DEF Producing, TypeOK
    <3> QED BY <2>2, <2>3, <2>4, <3>1 DEF Turn
  <2>6. pc'[q] \in Producing
    BY <2>2, <2>3 DEF Producing, TypeOK
  <2>7. InOrder'
    BY <1>10, <1>d, <2>3 DEF InOrder
  <2> QED BY <2>5, <2>6, <2>7
<1>11. ASSUME NEW p \in Runs, Alive, ReadFile(p), ~Attached(p) PROVE Kept
  <2>1. /\ pc[p] = "read" /\ pc' = [pc EXCEPT ![p] = "got"]
        /\ UNCHANGED <<key, made, semval, semid, i, obtained, file>>
    BY <1>11 DEF ReadFile, Goto
  <2>2. Quiet => Quiet'
    BY <1>11, <2>1 DEF Quiet, Attached, TypeOK
  <2>3. ASSUME NEW label \in {"read", "got"}, Lone(label) PROVE Lone(label)'
    <3>1. PICK q \in Runs : /\ Attached(q) /\ pc[q] = label
                           /\ \A r \in Runs : Attached(r) /\ pc[r] \in {"read", "got"} => r = q
      BY <2>3 DEF Lone
    <3>2. q # p
      BY <1>11, <3>1
    <3> QED BY <1>11, <2>1, <3>1, <3>2 DEF Lone, Attached, TypeOK
  <2>4. ASSUME NEW r \in Runs, pc'[r] \in Producing PROVE Turn(r)'
    <3>1. pc[r] = pc'[r] /\ Turn(r)
      BY <1>11, <1>d, <2>1, <2>4 DEF Producing, TypeOK
    <3> QED BY <2>1, <2>2, <2>3, <3>1 DEF Turn
  <2>5. InOrder'
    BY <1>11, <1>d, <2>1 DEF InOrder
  <2>6. \A q \in Runs : pc[q] \in Producing => pc'[q] \in Producing
    BY <2>1 DEF Producing, TypeOK
  <2> QED BY <1>11, <1>d, <2>1, <2>4, <2>5, <2>6
<1>12. ASSUME NEW p \in Runs, Alive, ReadFile(p), Attached(p) PROVE Kept
  <2>1. /\ pc[p] = "read" /\ pc' = [pc EXCEPT ![p] = "got"]
        /\ UNCHANGED <<key, made, semval, semid, i, file>>
        /\ obtained' = Append(obtained, file)
    BY <1>12 DEF ReadFile, Goto
  <2>2. PICK q \in Runs :
          /\ q # p /\ pc[q] = "loop" /\ semval[READ] = 0 /\ semval[MADE] = 0 /\ Lone("read")
          /\ Len(obtained) = i[q] - 1 /\ file = <<key, i[q]>>
    BY <1>9, <1>12, <2>1 DEF Consuming
  <2>3. file \in Numbers /\ i[q] \in Nat
    BY DEF TypeOK, Numbers
  <2>4. /\ Len(obtained') = i[q] /\ obtained'[i[q]] = <<key, i[q]>>
        /\ \A n \in 1 .. i[q] - 1 : obtained'[n] = obtained[n]
    BY <2>1, <2>2, <2>3, AppendFacts
  <2>5. key = made
    BY <1>12, <2>1 DEF TypeOK, AttachedOK, AttachedAt, Attached, Consuming
  <2>6. InOrder'
    BY <1>12, <1>d, <2>1, <2>2, <2>3, <2>4, <2>5 DEF InOrder
  <2>7. Lone("got")'
    <3>1. \A r \in Runs : Attached(r) /\ pc[r] \in {"read", "got"} => r = p
      BY <1>12, <2>1, <2>2 DEF Lone
    <3> QED BY <1>12, <2>1, <3>1 DEF Lone, Attached, TypeOK
  <2>8. ASSUME NEW r \in Runs, pc'[r] \in Producing PROVE Turn(r)'
    <3>1. r = q /\ pc'[r] = "loop"
      BY <2>1, <2>2, <2>8 DEF Producing, TypeOK
    <3> QED BY <2>1, <2>2, <2>4, <2>7, <3>1 DEF Turn
  <2>9. pc'[q] \in Producing
    BY <2>1, <2>2 DEF Producing, TypeOK
  <2> QED BY <2>6, <2>8, <2>9
<1>13. ASSUME NEW p \in Runs, Alive, ConsumerRelease(p) PROVE Kept
  <2>1. /\ pc[p] = "got" /\ Attached(p) /\ pc' = [pc EXCEPT ![p] = "wait"]
        /\ UNCHANGED <<key, made, semid, i, file, obtained>>
    BY <1>13 DEF ConsumerRelease, Goto
  <2>2. PICK q \in Runs :
          /\ q # p /\ pc[q] = "loop" /\ semval[READ] = 0 /\ semval[MADE] = 0 /\ Lone("got")
          /\ Len(obtained) = i[q]
    BY <1>9, <1>13, <2>1 DEF Consuming
  <2>3. semval'[READ] = 1 /\ semval'[MADE] = 0
    BY <1>13, <2>2 DEF ConsumerRelease, Add, TypeOK
  <2>4. Quiet'
    <3>1. \A r \in Runs : Attached(r) /\ pc[r] \in {"read", "got"} => r = p
      BY <2>1, <2>2 DEF Lone
    <3> QED BY <2>1, <3>1 DEF Quiet, Attached, TypeOK
  <2>5. ASSUME NEW r \in Runs, pc'[r] \in Producing PROVE Turn(r)'
    <3>1. r = q /\ pc'[r] = "loop"
      BY <2>1, <2>2, <2>5 DEF Producing, TypeOK
    <3> QED BY <2>1, <2>2, <2>3, <2>4, <3>1 DEF Turn
  <2>6. pc'[q] \in Producing
    BY <2>1, <2>2 DEF Producing, TypeOK
  <2>7. InOrder'
    BY <1>13, <1>d, <2>1 DEF InOrder
  <2> QED BY <2>5, <2>6, <2>7
<1>14. ASSUME NEW p \in Runs, (Step(p) \/ FopenFails(p) \/ Kill(p) \/ SemgetExclFails(p))
       PROVE  Turns'
  <2>1. second' = second /\ (~dead' => ~dead)
    BY <1>14
    DEF Step, FopenFails, Kill, SemgetExclFails, Semget, SemgetFails, SetAll, ProducerAcquire,
        OpenToWrite, CloseWritten, ProducerRelease, Rmid, ConsumerAcquire, ReadFile,
        ConsumerRelease, SemopFails, Exit
  <2>2. Alive => Kept
    BY <1>5, <1>6, <1>7, <1>8, <1>10, <1>11, <1>12, <1>13, <1>14
    DEF Step, FopenFails, Kill, SemgetFails, SemopFails
  <2> QED BY <2>1, <2>2 DEF Turns
<1> QED
  BY <1>1, <1>2, <1>14 DEF Next

\* The whole invariant.
LEMMA InvHolds == Spec => []Inv
<1>1. Init => Inv
  BY ConstantsAssumption, SessionsInit, FirstInit, TurnsInit DEF Inv
<1>2. Inv /\ [Next]_vars => Inv'
  BY ConstantsAssumption, SessionsStep, FirstStep, TurnsStep DEF Inv
<1> QED BY <1>1, <1>2, PTL DEF Spec

\* For any number of runs, sessions and deaths, in every build: nothing is read before
\* the first number is in the file, and while nobody dies every number is read once, whole
\* and in order, unless the build lets the producer on (sem_prod_con.cpp:90).
THEOREM TurnsAlternate == Spec => []Alternates
<1>1. ASSUME Inv PROVE Alternates
  <2>1. TypeOK /\ AttachedOK /\ First /\ Turns
    BY <1>1 DEF Inv, Sessions
  <2>2. ASSUME NEW q \in Runs, pc[q] = "read", Attached(q)
        PROVE  \E p \in Runs : semid[p] = key /\ i[p] > 0
    BY <2>1, <2>2 DEF First, Started, Attached, AttachedOK, AttachedAt, Consuming
  <2>3. ASSUME ~dead, second # "release"
        PROVE  /\ InOrder
               /\ \A p, q \in Runs :
                    Attached(p) /\ Attached(q) /\ pc[p] \in {"write", "close", "made"} =>
                        Len(obtained) = i[p] /\ pc[q] # "read"
    BY <2>1, <2>3 DEF Turns, Turn, Quiet, Producing
  <2> QED BY <2>2, <2>3 DEF Alternates, InOrder
<1> QED BY <1>1, InvHolds, PTL
=============================================================================
