--------------------------- MODULE SemLockProofs ---------------------------
(***************************************************************************)
(* Proofs about SemLock, for any number of terminals, sets and retries.    *)
(* KernelInv holds whatever programs run; LockInv adds what holds as long  *)
(* as nobody runs semdemo_mod.                                             *)
(*                                                                         *)
(* The second half, from the instance C on, is about Conversations.        *)
(***************************************************************************)
EXTENDS SemLock, SequenceTheorems, TLAPS

Initialising == {"init", "setval"}
Using        == {"ready", "trying", "locked", "done"}

\* Where a run is fits its program and its semid.
RunsOK ==
    \A p \in Procs :
        /\ semid[p] < nextId
        /\ pc[p] \in {"idle", "open"} <=> semid[p] = NoSet
        /\ pc[p] \notin {"idle", "setval", "rmid"} => p \in Lockers

\* Sets are numbered in the order of their creation, and one that no semop has
\* reached (or that is gone) has nothing to undo.
SetsOK ==
    /\ key < nextId
    /\ \A id \in Ids : ~otime[id] => \A p \in Procs : semadj[id][p] = 0
    /\ \A id \in Ids : id >= nextId => ~otime[id] /\ semval[id] = 0

\* One process initialises a set, and until it has done so the set is as new.
InitialisingOK ==
    \A p \in Procs : pc[p] \in Initialising =>
        /\ \A q \in Procs :
              pc[q] \in Initialising /\ semid[q] = semid[p] => q = p
        /\ Live(semid[p]) => ~otime[semid[p]] /\ semval[semid[p]] = 0

UsingOK ==
    \A p \in Procs : pc[p] \in Using /\ Live(semid[p]) => otime[semid[p]]

KernelInv == TypeOK /\ RunsOK /\ SetsOK /\ InitialisingOK /\ UsingOK

\* Without semdemo_mod, a run that has not unlocked yet has sem_op = -1.
OpsOK == \A p \in Procs : pc[p] # "done" => sem_op[p] = -1

\* The undo record of a process is the lock it holds on a set that still exists.
UndoOK ==
    \A id \in Ids, p \in Procs :
        semadj[id][p] =
            IF id = key /\ pc[p] = "locked" /\ semid[p] = id THEN 1 ELSE 0

\* The value of an initialised set counts the free lock.
ValueOK ==
    key # NoSet /\ otime[key] =>
        semval[key] = IF \E p \in Procs : pc[p] = "locked" /\ semid[p] = key
                      THEN 0 ELSE 1

LockInv == KernelInv /\ OpsOK /\ UndoOK /\ ValueOK /\ MutualExclusion

-----------------------------------------------------------------------------
(***************************************************************************)
(* KernelInv is inductive.                                                 *)
(***************************************************************************)

LEMMA ConstantFacts ==
    /\ MAX_RETRIES \in Nat \ {0} /\ SEMVMX \in Nat \ {0} /\ MaxSets \in Nat \ {0}
    /\ Lockers \subseteq Procs
    /\ \A p \in Procs : p \in Lockers => p \notin Creator /\ p \notin Remover
    /\ \A p \in Procs : p \in Creator => p \notin Remover
    /\ \A p \in Procs : p \in Lockers \/ p \in Creator \/ p \in Remover
BY ConstantsAssumption DEF ConstantsAssumption, Procs, Lockers

\* The end of a run, however it comes about, disturbs nothing.
LEMMA TerminateKernel ==
    ASSUME KernelInv, NEW p \in Procs, Terminate(p)
    PROVE  KernelInv'
<1> USE ConstantFacts DEF Terminate, Goto
<1>1. TypeOK'
  <2>1. semval' \in [Ids -> 0 .. SEMVMX]
    BY DEF KernelInv, TypeOK, Clip, Ids
  <2>2. semadj' \in [Ids -> [Procs -> Int]]
    BY DEF KernelInv, TypeOK
  <2>3. QED
    BY <2>1, <2>2 DEF KernelInv, TypeOK, Labels, NoSet
<1>2. RunsOK'
  BY DEF KernelInv, TypeOK, RunsOK, NoSet, Ids
<1>3. \A id \in Ids : ~otime[id] => semval'[id] = semval[id]
  BY DEF KernelInv, TypeOK, SetsOK, Clip
<1>4. SetsOK'
  BY <1>3 DEF KernelInv, TypeOK, SetsOK
<1>5. InitialisingOK'
  BY <1>3 DEF KernelInv, TypeOK, RunsOK, InitialisingOK, Initialising, Live, NoSet
<1>6. UsingOK'
  BY DEF KernelInv, TypeOK, UsingOK, Using, Live, NoSet
<1>7. QED
  BY <1>1, <1>2, <1>4, <1>5, <1>6 DEF KernelInv

\* Every step that a program takes preserves the invariant.
LEMMA KernelStep ==
    ASSUME KernelInv, NEW p \in Procs, Step(p)
    PROVE  KernelInv'
<1> USE ConstantFacts DEF Goto, Live, NoSet, Ids, kernel
<1>0. TypeOK /\ RunsOK /\ SetsOK /\ InitialisingOK /\ UsingOK
  BY DEF KernelInv
<1>1. CASE CreateSet(p)
  <2> USE <1>0, <1>1 DEF CreateSet
  <2>1. TypeOK'
    BY SMTT(30) DEF TypeOK, Labels
  <2>2. RunsOK'
    BY SMTT(30) DEF TypeOK, RunsOK
  <2>3. SetsOK'
    BY DEF TypeOK, SetsOK
  <2>4. InitialisingOK'
    BY DEF TypeOK, RunsOK, SetsOK, InitialisingOK, Initialising
  <2>5. UsingOK'
    BY DEF TypeOK, RunsOK, UsingOK, Using
  <2> QED
    BY <2>1, <2>2, <2>3, <2>4, <2>5 DEF KernelInv
<1>2. CASE CreateExists(p)
  <2> USE <1>0, <1>2 DEF CreateExists
  <2>1. TypeOK'
    BY DEF TypeOK, Labels
  <2>2. RunsOK' /\ SetsOK'
    BY DEF TypeOK, RunsOK, SetsOK
  <2>3. InitialisingOK' /\ UsingOK'
    BY DEF TypeOK, InitialisingOK, Initialising, UsingOK, Using
  <2> QED
    BY <2>1, <2>2, <2>3 DEF KernelInv
<1>3. CASE Open(p)
  <2> USE <1>0, <1>3 DEF Open
  <2>1. TypeOK'
    BY DEF TypeOK, Labels
  <2>2. RunsOK' /\ SetsOK'
    BY DEF TypeOK, RunsOK, SetsOK
  <2>3. InitialisingOK' /\ UsingOK'
    BY DEF TypeOK, InitialisingOK, Initialising, UsingOK, Using
  <2> QED
    BY <2>1, <2>2, <2>3 DEF KernelInv
<1>4. CASE InitSemop(p)
  <2> USE <1>0, <1>4 DEF InitSemop, Semop
  <2>1. semval[semid[p]] = 0
    BY DEF InitialisingOK, Initialising
  <2>2. TypeOK'
    BY <2>1 DEF TypeOK, Labels
  <2>3. RunsOK' /\ SetsOK'
    <3>1. semid[p] \in Ids /\ semid[p] < nextId
      BY DEF TypeOK, RunsOK
    <3>2. RunsOK'
      BY DEF TypeOK, RunsOK
    <3>3. \A id \in Ids : id # semid[p] =>
              otime'[id] = otime[id] /\ semval'[id] = semval[id]
      BY <3>1 DEF TypeOK
    <3>4. otime'[semid[p]] /\ semadj' = semadj
      BY <3>1 DEF TypeOK
    <3>5. SetsOK'
      BY <3>1, <3>3, <3>4 DEF TypeOK, SetsOK
    <3> QED
      BY <3>2, <3>5
  <2>4. InitialisingOK'
    BY DEF TypeOK, InitialisingOK, Initialising
  <2>5. UsingOK'
    BY DEF TypeOK, UsingOK, Using
  <2> QED
    BY <2>2, <2>3, <2>4, <2>5 DEF KernelInv
<1>5. CASE PollReady(p)
  <2> USE <1>0, <1>5 DEF PollReady, SeesOtime
  <2>1. TypeOK'
    BY DEF TypeOK, Labels
  <2>2. RunsOK' /\ SetsOK'
    BY DEF TypeOK, RunsOK, SetsOK
  <2>3. InitialisingOK' /\ UsingOK'
    BY DEF TypeOK, InitialisingOK, Initialising, UsingOK, Using
  <2> QED
    BY <2>1, <2>2, <2>3 DEF KernelInv
<1>6. CASE PollAgain(p)
  <2> USE <1>0, <1>6 DEF PollAgain
  <2>1. TypeOK'
    BY SMTT(30) DEF TypeOK, Labels
  <2>2. RunsOK' /\ SetsOK'
    BY DEF TypeOK, RunsOK, SetsOK
  <2>3. InitialisingOK' /\ UsingOK'
    BY DEF TypeOK, InitialisingOK, Initialising, UsingOK, Using
  <2> QED
    BY <2>1, <2>2, <2>3 DEF KernelInv
<1>7. CASE SetVal(p)
  <2> USE <1>0, <1>7 DEF SetVal
  <2>1. TypeOK'
    <3>1. semval' \in [Ids -> 0 .. SEMVMX]
      BY DEF TypeOK
    <3>2. semadj' \in [Ids -> [Procs -> Int]]
      <4>1. [q \in Procs |-> 0] \in [Procs -> Int]
        OBVIOUS
      <4>2. QED
        BY <4>1 DEF TypeOK
    <3>3. QED
      BY <3>1, <3>2 DEF TypeOK, Labels
  <2>2. RunsOK' /\ SetsOK'
    <3>1. RunsOK'
      BY DEF TypeOK, RunsOK
    <3>2. \A id \in Ids : semadj'[id] = semadj[id]
                          \/ semadj'[id] = [q \in Procs |-> 0]
      BY DEF TypeOK
    <3>3. \A id \in Ids : id >= nextId =>
              semval'[id] = semval[id] /\ otime'[id] = otime[id]
      BY DEF TypeOK, RunsOK
    <3>4. \A id \in Ids : ~otime'[id] =>
              ~otime[id] \/ semadj'[id] = [q \in Procs |-> 0]
      BY DEF TypeOK
    <3>5. SetsOK'
      BY <3>2, <3>3, <3>4 DEF TypeOK, SetsOK
    <3> QED
      BY <3>1, <3>5
  <2>3. InitialisingOK'
    BY DEF TypeOK, RunsOK, InitialisingOK, Initialising
  <2>4. UsingOK'
    BY DEF TypeOK, UsingOK, Using
  <2> QED
    BY <2>1, <2>2, <2>3, <2>4 DEF KernelInv
<1>8. CASE Rmid(p)
  <2> USE <1>0, <1>8 DEF Rmid
  <2>1. TypeOK'
    <3>1. semval' \in [Ids -> 0 .. SEMVMX]
      BY DEF TypeOK
    <3>2. semadj' \in [Ids -> [Procs -> Int]]
      <4>1. [q \in Procs |-> 0] \in [Procs -> Int]
        OBVIOUS
      <4>2. QED
        BY <4>1 DEF TypeOK
    <3>3. QED
      BY <3>1, <3>2 DEF TypeOK, Labels
  <2>2. RunsOK' /\ SetsOK'
    <3>1. RunsOK'
      BY DEF TypeOK, RunsOK
    <3>2. \A id \in Ids : semadj'[id] = semadj[id]
                          \/ semadj'[id] = [q \in Procs |-> 0]
      BY DEF TypeOK
    <3>3. \A id \in Ids : id >= nextId =>
              semval'[id] = semval[id] /\ otime'[id] = otime[id]
      <4>1. semid[p] < nextId /\ semid[p] \in Nat /\ nextId \in Nat
        BY DEF TypeOK, RunsOK
      <4>2. \A id \in Ids : id >= nextId => id # semid[p]
        BY <4>1
      <4>3. QED
        BY <4>2 DEF TypeOK
    <3>4. \A id \in Ids : ~otime'[id] =>
              ~otime[id] \/ semadj'[id] = [q \in Procs |-> 0]
      BY DEF TypeOK
    <3>5. key' < nextId'
      BY DEF TypeOK, SetsOK
    <3>6. \A id \in Ids : ~otime'[id] => \A q \in Procs : semadj'[id][q] = 0
      BY <3>2, <3>4 DEF SetsOK
    <3>7. \A id \in Ids : id >= nextId' => ~otime'[id] /\ semval'[id] = 0
      BY <3>3 DEF SetsOK
    <3>8. SetsOK'
      BY <3>5, <3>6, <3>7 DEF SetsOK
    <3> QED
      BY <3>1, <3>8
  <2>3. InitialisingOK'
    BY DEF TypeOK, RunsOK, InitialisingOK, Initialising
  <2>4. UsingOK'
    BY DEF TypeOK, UsingOK, Using
  <2> QED
    BY <2>1, <2>2, <2>3, <2>4 DEF KernelInv
<1>9. CASE PressEnter(p)
  <2> USE <1>0, <1>9 DEF PressEnter
  <2>1. TypeOK'
    BY DEF TypeOK, Labels
  <2>2. RunsOK' /\ SetsOK'
    BY DEF TypeOK, RunsOK, SetsOK
  <2>3. InitialisingOK' /\ UsingOK'
    BY DEF TypeOK, InitialisingOK, Initialising, UsingOK, Using
  <2> QED
    BY <2>1, <2>2, <2>3 DEF KernelInv
<1>10. CASE Lock(p)
  <2> USE <1>0, <1>10 DEF Lock, Semop
  <2>1. otime[semid[p]]
    BY DEF UsingOK, Using
  <2>2. TypeOK'
    <3>1. semid[p] \in Ids /\ sem_op[p] \in Int
      BY DEF TypeOK
    <3>2. semval' \in [Ids -> 0 .. SEMVMX]
      BY <3>1 DEF TypeOK
    <3>3. semadj' \in [Ids -> [Procs -> Int]]
      <4>1. [semadj[semid[p]] EXCEPT ![p] = @ - sem_op[p]] \in [Procs -> Int]
        BY <3>1 DEF TypeOK
      <4>2. QED
        BY <3>1, <4>1 DEF TypeOK
    <3>4. QED
      BY <3>2, <3>3 DEF TypeOK, Labels
  <2>3. RunsOK' /\ SetsOK'
    BY <2>1 DEF TypeOK, RunsOK, SetsOK
  <2>4. InitialisingOK' /\ UsingOK'
    BY <2>1 DEF TypeOK, InitialisingOK, Initialising, UsingOK, Using
  <2> QED
    BY <2>2, <2>3, <2>4 DEF KernelInv
<1>11. CASE Unlock(p)
  <2> USE <1>0, <1>11 DEF Unlock, Semop
  <2>1. otime[semid[p]]
    BY DEF UsingOK, Using
  <2>2. TypeOK'
    <3>1. semid[p] \in Ids /\ sem_op[p] \in Int
      BY DEF TypeOK
    <3>2. semval' \in [Ids -> 0 .. SEMVMX]
      BY <3>1 DEF TypeOK
    <3>3. semadj' \in [Ids -> [Procs -> Int]]
      <4>1. [semadj[semid[p]] EXCEPT ![p] = @ - 1] \in [Procs -> Int]
        BY <3>1 DEF TypeOK
      <4>2. QED
        BY <3>1, <4>1 DEF TypeOK
    <3>4. QED
      BY <3>2, <3>3 DEF TypeOK, Labels
  <2>3. RunsOK' /\ SetsOK'
    BY <2>1 DEF TypeOK, RunsOK, SetsOK
  <2>4. InitialisingOK' /\ UsingOK'
    BY <2>1 DEF TypeOK, InitialisingOK, Initialising, UsingOK, Using
  <2> QED
    BY <2>2, <2>3, <2>4 DEF KernelInv
<1>12. CASE \/ OpenFails(p) \/ InitSemopFails(p) \/ PollTimeout(p)
            \/ LockFails(p) \/ UnlockFails(p) \/ Finish(p)
  BY <1>12, TerminateKernel DEF OpenFails, InitSemopFails, PollTimeout,
     LockFails, UnlockFails, Finish
<1>13. QED
  BY <1>1, <1>2, <1>3, <1>4, <1>5, <1>6, <1>7, <1>8, <1>9, <1>10, <1>11, <1>12
     DEF Step

LEMMA KernelInvInvariant == Spec => []KernelInv
<1>1. Init => KernelInv
  BY ConstantFacts DEF Init, KernelInv, TypeOK, RunsOK, SetsOK, InitialisingOK,
     Initialising, UsingOK, Using, Labels, NoSet, Ids, Live
<1>2. KernelInv /\ [Next]_vars => KernelInv'
  <2> SUFFICES ASSUME KernelInv, [Next]_vars
               PROVE  KernelInv'
    OBVIOUS
  <2>1. CASE UNCHANGED vars
    BY <2>1 DEF vars, KernelInv, TypeOK, RunsOK, SetsOK, InitialisingOK,
       UsingOK, Live
  <2>2. ASSUME NEW p \in Procs, Step(p)
        PROVE  KernelInv'
    BY <2>2, KernelStep
  <2>3. ASSUME NEW p \in Procs, Kill(p)
        PROVE  KernelInv'
    BY <2>3, TerminateKernel DEF Kill
  <2>4. QED
    BY <2>1, <2>2, <2>3 DEF Next
<1>3. QED
  BY <1>1, <1>2, PTL DEF Spec

\* The state keeps its types, and a semaphore its range, whatever runs.
THEOREM TypeCorrect == Spec => []TypeOK
BY KernelInvInvariant, PTL DEF KernelInv

\* Nobody gets past initsem on a set that exists and was not initialised, with
\* any mix of the programs, any number of them and any number of retries.
THEOREM InitialisedBeforeUse == Spec => []ReadyMeansInitialised
<1>1. KernelInv => ReadyMeansInitialised
  BY DEF KernelInv, UsingOK, Using, ReadyMeansInitialised
<1>2. QED
  BY <1>1, KernelInvInvariant, PTL

-----------------------------------------------------------------------------
(***************************************************************************)
(* LockInv is inductive when nobody runs semdemo_mod.                      *)
(***************************************************************************)

LEMMA Exclusion ==
    MutualExclusion <=>
        \A p, q \in Procs :
            pc[p] = "locked" /\ pc[q] = "locked" /\ semid[p] = semid[q]
                /\ semid[p] \in Ids => p = q
BY DEF MutualExclusion, Holders

\* The same after a step.
LEMMA ExclusionNext ==
    MutualExclusion' <=>
        \A p, q \in Procs :
            pc'[p] = "locked" /\ pc'[q] = "locked" /\ semid'[p] = semid'[q]
                /\ semid'[p] \in Ids => p = q
BY DEF MutualExclusion, Holders

\* The end of a run gives back the lock it holds, and nothing else.
LEMMA TerminateLock ==
    ASSUME LockInv, KernelInv', NEW p \in Procs, Terminate(p)
    PROVE  LockInv'
<1> USE ConstantFacts DEF Terminate, Goto, NoSet, Ids
<1>0. TypeOK /\ UndoOK /\ ValueOK /\ UsingOK /\ RunsOK
  BY DEF LockInv, KernelInv
<1>1. OpsOK' /\ MutualExclusion'
  BY Exclusion, ExclusionNext DEF LockInv, KernelInv, TypeOK, OpsOK
<1>2. UndoOK'
  BY <1>0 DEF TypeOK, UndoOK
<1>3. ValueOK'
  <2> SUFFICES ASSUME key # 0, otime[key]
               PROVE  semval'[key] =
                        IF \E q \in Procs : pc'[q] = "locked" /\ semid'[q] = key
                        THEN 0 ELSE 1
    BY DEF ValueOK
  <2>1. key \in Ids /\ semval[key] \in Int
    BY <1>0 DEF TypeOK
  <2>2. CASE pc[p] = "locked" /\ semid[p] = key
    <3>1. semadj[key][p] = 1 /\ semval[key] = 0
      BY <1>0, <2>1, <2>2 DEF UndoOK, ValueOK
    <3>2. semval'[key] = 1
      BY <2>1, <3>1 DEF Clip
    <3>3. \A q \in Procs : ~(pc'[q] = "locked" /\ semid'[q] = key)
      BY <1>0, <2>1, <2>2, Exclusion DEF LockInv, TypeOK
    <3> QED
      BY <3>2, <3>3
  <2>3. CASE ~(pc[p] = "locked" /\ semid[p] = key)
    <3>1. semadj[key][p] = 0
      BY <1>0, <2>1, <2>3 DEF UndoOK
    <3>2. semval'[key] = semval[key]
      BY <1>0, <2>1, <3>1 DEF Clip, TypeOK
    <3>3. \A q \in Procs : (pc'[q] = "locked" /\ semid'[q] = key)
                            <=> (pc[q] = "locked" /\ semid[q] = key)
      BY <1>0, <2>1, <2>3 DEF TypeOK
    <3> QED
      BY <1>0, <3>2, <3>3 DEF ValueOK
  <2> QED
    BY <2>2, <2>3
<1>4. QED
  BY <1>1, <1>2, <1>3 DEF LockInv

\* So does a step by a run that has not got the lock and does not get it, and
\* that leaves the sets alone.
LEMMA BystanderLock ==
    ASSUME LockInv, KernelInv', NEW p \in Procs, NEW l \in Labels,
           pc[p] \notin {"locked", "done"}, l # "locked", Goto(p, l),
           \A q \in Procs : q # p => semid'[q] = semid[q],
           UNCHANGED <<kernel, sem_op>>
    PROVE  LockInv'
<1> USE DEF Goto, kernel, NoSet
<1>1. \A q \in Procs : pc'[q] = "locked" <=> pc[q] = "locked" /\ q # p
  BY DEF LockInv, KernelInv, TypeOK
<1>2. \A q \in Procs : pc[q] = "locked" => semid'[q] = semid[q] /\ q # p
  OBVIOUS
<1>3. OpsOK'
  BY DEF LockInv, KernelInv, TypeOK, OpsOK
<1>4. UndoOK' /\ ValueOK'
  BY <1>1, <1>2 DEF LockInv, UndoOK, ValueOK
<1>5. MutualExclusion'
  BY <1>1, <1>2, Exclusion, ExclusionNext DEF LockInv
<1>6. QED
  BY <1>3, <1>4, <1>5 DEF LockInv

\* Every step of semdemo, create and semrm preserves the invariant.
LEMMA LockStep ==
    ASSUME DemoMod = {}, LockInv, KernelInv', NEW p \in Procs, Step(p)
    PROVE  LockInv'
<1> USE ConstantFacts DEF Goto, Live, NoSet, Ids
<1>0. /\ KernelInv /\ TypeOK /\ RunsOK /\ SetsOK /\ InitialisingOK /\ UsingOK
      /\ OpsOK /\ UndoOK /\ ValueOK /\ MutualExclusion
  BY DEF LockInv, KernelInv
<1>1. CASE CreateSet(p)
  <2> USE <1>0, <1>1 DEF CreateSet
  <2>1. nextId \in Ids /\ ~otime[nextId] /\ semadj' = semadj
    BY DEF TypeOK, SetsOK
  <2>2. \A q \in Procs : pc'[q] = "locked" => /\ pc[q] = "locked"
                                              /\ semid'[q] = semid[q]
                                              /\ semid'[q] # nextId
    BY DEF TypeOK, RunsOK
  <2>3. OpsOK' /\ ValueOK'
    BY <2>1 DEF TypeOK, OpsOK, ValueOK
  <2>4. UndoOK'
    BY <2>1, <2>2 DEF UndoOK
  <2>5. MutualExclusion'
    BY <2>2, Exclusion, ExclusionNext
  <2> QED
    BY <2>3, <2>4, <2>5 DEF LockInv
<1>2. CASE \/ CreateExists(p) \/ Open(p) \/ PollReady(p) \/ PollAgain(p)
           \/ PressEnter(p)
  <2>1. PICK l \in Labels : l # "locked" /\ Goto(p, l)
    BY <1>2 DEF CreateExists, Open, PollReady, PollAgain, PressEnter, Labels
  <2>2. /\ pc[p] \notin {"locked", "done"}
        /\ \A q \in Procs : q # p => semid'[q] = semid[q]
        /\ UNCHANGED <<kernel, sem_op>>
    BY <1>0, <1>2 DEF CreateExists, Open, PollReady, PollAgain, PressEnter,
       kernel, TypeOK
  <2> QED
    BY <2>1, <2>2, BystanderLock
<1>3. CASE InitSemop(p)
  <2> USE <1>0, <1>3 DEF InitSemop, Semop
  <2>1. semid[p] = key /\ key \in Ids /\ semval[key] = 0 /\ ~otime[key]
    BY DEF TypeOK, InitialisingOK, Initialising
  <2>2. \A q \in Procs : ~(pc[q] = "locked" /\ semid[q] = key)
    BY <2>1 DEF UsingOK, Using
  <2>3. semval'[key] = 1 /\ semadj' = semadj /\ key' = key
    BY <2>1 DEF TypeOK
  <2>4. \A q \in Procs : pc'[q] = "locked" <=> pc[q] = "locked"
    BY DEF TypeOK
  <2>5. OpsOK' /\ MutualExclusion'
    BY <2>4, Exclusion, ExclusionNext DEF TypeOK, OpsOK
  <2>6. UndoOK' /\ ValueOK'
    BY <2>1, <2>2, <2>3, <2>4 DEF UndoOK, ValueOK
  <2> QED
    BY <2>5, <2>6 DEF LockInv
<1>4. CASE SetVal(p)
  <2> USE <1>0, <1>4 DEF SetVal
  <2>1. semid[p] = key /\ key # 0 => ~otime[key]
    BY DEF InitialisingOK, Initialising
  <2>2. semadj' = semadj
    BY <2>1 DEF TypeOK, SetsOK
  <2>3. \A q \in Procs : pc'[q] = "locked" <=> pc[q] = "locked" /\ q # p
    BY DEF TypeOK
  <2>4. \A q \in Procs : q # p => semid'[q] = semid[q]
    BY DEF TypeOK
  <2>5. OpsOK' /\ MutualExclusion'
    BY <2>3, <2>4, Exclusion, ExclusionNext DEF TypeOK, OpsOK
  <2>6. UndoOK'
    BY <2>2, <2>3, <2>4 DEF UndoOK
  <2>7. ValueOK'
    BY <2>1, <2>3, <2>4 DEF ValueOK
  <2> QED
    BY <2>5, <2>6, <2>7 DEF LockInv
<1>5. CASE Rmid(p)
  <2> USE <1>0, <1>5 DEF Rmid
  <2>1. \A q \in Procs : pc'[q] = "locked" <=> pc[q] = "locked" /\ q # p
    BY DEF TypeOK
  <2>2. \A q \in Procs : q # p => semid'[q] = semid[q]
    BY DEF TypeOK
  <2>3. OpsOK' /\ MutualExclusion'
    BY <2>1, <2>2, Exclusion, ExclusionNext DEF TypeOK, OpsOK
  <2>4. CASE semid[p] = key /\ key # 0
    <3>1. \A id \in Ids, q \in Procs : semadj'[id][q] = 0
      BY <2>4 DEF TypeOK, UndoOK
    <3>2. UndoOK' /\ ValueOK'
      BY <2>4, <3>1 DEF UndoOK, ValueOK
    <3> QED
      BY <2>3, <3>2 DEF LockInv
  <2>5. CASE ~(semid[p] = key /\ key # 0)
    <3>1. UNCHANGED <<key, semval, otime, semadj>>
      BY <2>5
    <3>2. UndoOK' /\ ValueOK'
      BY <2>1, <2>2, <2>5, <3>1 DEF UndoOK, ValueOK
    <3> QED
      BY <2>3, <3>2 DEF LockInv
  <2> QED
    BY <2>4, <2>5
<1>6. CASE Lock(p)
  <2> USE <1>0, <1>6 DEF Lock, Semop
  <2>1. semid[p] = key /\ key \in Ids /\ otime[key] /\ sem_op[p] = -1
    BY DEF TypeOK, UsingOK, Using, OpsOK
  <2>2. semval[key] = 1
    BY <2>1 DEF TypeOK, ValueOK
  <2>3. \A q \in Procs : ~(pc[q] = "locked" /\ semid[q] = key)
    BY <2>1, <2>2 DEF ValueOK
  <2>4. \A q \in Procs : pc'[q] = "locked" <=> pc[q] = "locked" \/ q = p
    BY DEF TypeOK
  <2>5. semval'[key] = 0 /\ key' = key /\ semid' = semid
    BY <2>1, <2>2 DEF TypeOK
  <2>6. \A id \in Ids, q \in Procs :
          semadj'[id][q] = IF id = key /\ q = p THEN semadj[id][q] + 1
                                               ELSE semadj[id][q]
    <3>1. semadj \in [Ids -> [Procs -> Int]]
      BY DEF TypeOK
    <3>2. semadj' = [semadj EXCEPT ![key][p] = @ - (-1)]
      BY <2>1
    <3> HIDE <1>0, <1>6, ConstantFacts DEF Lock, Semop, Ids, NoSet
    <3> QED
      BY <2>1, <3>1, <3>2
  <2>7. OpsOK' /\ MutualExclusion'
    <3>1. OpsOK'
      BY <2>5 DEF TypeOK, OpsOK
    <3>2. MutualExclusion'
      <4> HIDE <1>6 DEF Lock, Semop
      <4> QED
        BY <2>1, <2>3, <2>4, <2>5, Exclusion, ExclusionNext
    <3> QED
      BY <3>1, <3>2
  <2>8. UndoOK'
    BY <2>1, <2>3, <2>4, <2>5, <2>6 DEF UndoOK
  <2>9. ValueOK'
    BY <2>1, <2>4, <2>5 DEF ValueOK
  <2> QED
    BY <2>7, <2>8, <2>9 DEF LockInv
<1>7. CASE Unlock(p)
  <2> USE <1>0, <1>7 DEF Unlock, Semop
  <2>1. semid[p] = key /\ key \in Ids /\ otime[key] /\ p \in Demo
    BY DEF TypeOK, UsingOK, Using, RunsOK, Lockers
  <2>2. semval[key] = 0 /\ semadj[key][p] = 1
    BY <2>1 DEF ValueOK, UndoOK
  <2>3. \A q \in Procs : pc'[q] = "locked" <=> pc[q] = "locked" /\ q # p
    BY <2>1 DEF TypeOK
  <2>4. \A q \in Procs : ~(pc'[q] = "locked" /\ semid[q] = key)
    BY <2>1, <2>3, Exclusion
  <2>5. semval'[key] = 1 /\ key' = key /\ semid' = semid
    BY <2>1, <2>2 DEF TypeOK
  <2>6. \A id \in Ids, q \in Procs :
          semadj'[id][q] = IF id = key /\ q = p THEN semadj[id][q] - 1
                                               ELSE semadj[id][q]
    BY <2>1 DEF TypeOK
  <2>7. OpsOK' /\ MutualExclusion'
    BY SMTT(30), <2>1, <2>3, <2>5, Exclusion, ExclusionNext DEF TypeOK, OpsOK
  <2>8. UndoOK'
    BY <2>1, <2>2, <2>3, <2>5, <2>6 DEF UndoOK
  <2>9. ValueOK'
    BY <2>4, <2>5 DEF ValueOK
  <2> QED
    BY <2>7, <2>8, <2>9 DEF LockInv
<1>8. CASE \/ OpenFails(p) \/ InitSemopFails(p) \/ PollTimeout(p)
           \/ LockFails(p) \/ UnlockFails(p) \/ Finish(p)
  BY <1>8, TerminateLock DEF OpenFails, InitSemopFails, PollTimeout,
     LockFails, UnlockFails, Finish
<1>9. QED
  BY <1>1, <1>2, <1>3, <1>4, <1>5, <1>6, <1>7, <1>8 DEF Step

LEMMA LockInvInvariant ==
    ASSUME DemoMod = {}
    PROVE  Spec => []LockInv
<1>1. Init /\ KernelInv => LockInv
  BY DEF Init, LockInv, OpsOK, UndoOK, ValueOK, MutualExclusion, Holders, NoSet,
     Ids
<1>2. LockInv /\ KernelInv' /\ [Next]_vars => LockInv'
  <2> SUFFICES ASSUME LockInv, KernelInv', [Next]_vars
               PROVE  LockInv'
    OBVIOUS
  <2>1. CASE UNCHANGED vars
    BY <2>1 DEF vars, LockInv, OpsOK, UndoOK, ValueOK, MutualExclusion, Holders
  <2>2. ASSUME NEW p \in Procs, Step(p)
        PROVE  LockInv'
    BY <2>2, LockStep
  <2>3. ASSUME NEW p \in Procs, Kill(p)
        PROVE  LockInv'
    BY <2>3, TerminateLock DEF Kill
  <2>4. QED
    BY <2>1, <2>2, <2>3 DEF Next
<1>3. QED
  BY <1>1, <1>2, KernelInvInvariant, PTL DEF Spec

\* semdemo's lock excludes, for any number of terminals, whatever is killed,
\* removed and created again: two runs on the same set never hold it together.
THEOREM LockExcludes ==
    ASSUME DemoMod = {}
    PROVE  Spec => []MutualExclusion
BY LockInvInvariant, PTL DEF LockInv

\* No unlock, kill or SEM_UNDO loses the lock or doubles it.
THEOREM LockIsConserved ==
    ASSUME DemoMod = {}
    PROVE  Spec => []LockConserved
<1>1. LockInv => LockConserved
  <2> SUFFICES ASSUME LockInv, key # NoSet
               PROVE  /\ Waiting(key) # {} => Holders(key) # {}
                      /\ otime[key] => (semval[key] = 1 <=> Holders(key) = {})
    BY DEF LockConserved
  <2>1. otime[key] => (semval[key] = 1 <=> Holders(key) = {})
    BY DEF LockInv, ValueOK, Holders
  <2>2. ASSUME NEW p \in Waiting(key)
        PROVE  Holders(key) # {}
    <3>1. p \in Procs /\ pc[p] = "trying" /\ semid[p] = key
          /\ semval[key] + sem_op[p] < 0
      BY <2>2 DEF Waiting
    <3>2. sem_op[p] = -1 /\ semval[key] # 1
      BY <3>1 DEF LockInv, OpsOK
    <3>3. otime[key]
      BY <3>1 DEF LockInv, KernelInv, UsingOK, Using, Live
    <3>4. QED
      BY <2>1, <3>2, <3>3
  <2>3. QED
    BY <2>1, <2>2
<1>2. QED
  BY <1>1, LockInvInvariant, PTL

\* The semaphore programs implement LockService, one lock per set: each step
\* acquires a free lock, releases an owned one, or does not touch any.
THEOREM LockRefines ==
    ASSUME DemoMod = {}
    PROVE  Spec => ImplementsLockService
<1> DEFINE owners == [id \in Ids |-> Holders(id)]
<1>1. Init => Abstract!Init
  BY DEF Init, Abstract!Init, Holders
<1>2. LockInv /\ [Next]_vars => [Abstract!Next]_owners
  <2> SUFFICES ASSUME LockInv, [Next]_vars
               PROVE  [Abstract!Next]_owners
    OBVIOUS
  <2> DEFINE Others(p) == \A q \in Procs : q # p => /\ pc'[q] = pc[q]
                                                   /\ semid'[q] = semid[q]
  <2>0. TypeOK /\ RunsOK /\ UsingOK /\ OpsOK /\ ValueOK
    BY DEF LockInv, KernelInv
  <2>1. CASE UNCHANGED vars
    <3>1. \A id \in Ids : Holders(id)' = Holders(id)
      BY <2>1 DEF vars, Holders
    <3>2. QED
      BY <3>1
  <2>2. ASSUME NEW p \in Procs, Lock(p)
        PROVE  Abstract!Next
    <3>1. semid[p] = key /\ key \in Ids /\ otime[key] /\ sem_op[p] = -1
      BY <2>0, <2>2 DEF TypeOK, UsingOK, Using, OpsOK, Lock, Live, NoSet
    <3>2. Holders(key) = {}
      <4>1. semval[key] # 0 /\ key # NoSet
        BY <2>2, <3>1 DEF Lock, Live
      <4>2. ~ \E q \in Procs : pc[q] = "locked" /\ semid[q] = key
        BY <2>0, <3>1, <4>1 DEF ValueOK
      <4>3. QED
        BY <4>2 DEF Holders
    <3>3. Others(p) /\ pc'[p] = "locked" /\ semid'[p] = key
      BY <2>0, <2>2, <3>1 DEF Lock, Goto, TypeOK
    <3>4. \A id \in Ids : id = key => Holders(id)' = {p}
      BY <3>2, <3>3 DEF Holders
    <3>5. \A id \in Ids : id # key => Holders(id)' = Holders(id)
      BY <3>1, <3>3 DEF Holders
    <3>6. Abstract!Acquire(p, key)
      BY <3>1, <3>2, <3>4, <3>5 DEF Abstract!Acquire
    <3>7. QED
      BY <3>1, <3>6 DEF Abstract!Next
  <2>3. ASSUME NEW p \in Procs, Others(p), pc'[p] # "locked"
        PROVE  [Abstract!Next]_owners
    <3>1. CASE pc[p] = "locked"
      <4>1. semid[p] \in Ids /\ p \in Holders(semid[p])
        BY <2>0, <3>1 DEF TypeOK, RunsOK, Holders
      <4>2. \A id \in Ids : Holders(id)' =
                IF id = semid[p] THEN Holders(id) \ {p} ELSE Holders(id)
        BY <2>3, <3>1 DEF Holders
      <4>3. Abstract!Release(p, semid[p])
        BY <4>1, <4>2 DEF Abstract!Release
      <4>4. QED
        BY <4>1, <4>3 DEF Abstract!Next
    <3>2. CASE pc[p] # "locked"
      <4>1. \A id \in Ids : Holders(id)' = Holders(id)
        BY <2>3, <3>2 DEF Holders
      <4>2. QED
        BY <4>1
    <3>3. QED
      BY <3>1, <3>2
  <2>4. ASSUME NEW p \in Procs, Step(p) \/ Kill(p), ~Lock(p)
        PROVE  Others(p) /\ pc'[p] # "locked"
    BY <2>0, <2>4 DEF Step, Kill, TypeOK, Goto, Terminate, CreateSet,
       CreateExists, Open, OpenFails, InitSemop, InitSemopFails, PollReady,
       PollAgain, PollTimeout, SetVal, Rmid, PressEnter, LockFails, Unlock,
       UnlockFails, Finish
  <2>5. QED
    BY <2>1, <2>2, <2>3, <2>4 DEF Next
<1>3. QED
  BY <1>1, <1>2, LockInvInvariant, PTL
     DEF Spec, ImplementsLockService, Abstract!Spec

-----------------------------------------------------------------------------
(***************************************************************************)
(* The conversations of two processes, for any number of servers, clients  *)
(* and rounds.  What follows is about Conversations alone: its definitions *)
(* are those of the instance C, its specification is C!Spec, and it holds  *)
(* under the assumption of that module, C!ConstantsOK.                     *)
(*                                                                         *)
(* A process is a list of calls, so the invariant Inv says for each place  *)
(* of a list what the process has sent and printed when it is there        *)
(* (Placed), and for each connection that what was printed at one end and  *)
(* what waits there are what was sent at the other (Streams).              *)
(***************************************************************************)
CONSTANTS Servers, Clients, Parent, Child, NoOne, Programs, Rounds
VARIABLES program, who, box, open, name, backlog

C == INSTANCE Conversations

\* A function on 1 .. n is a sequence.
LEMMA FunctionIsSeq ==
    ASSUME NEW S, NEW n \in Nat, NEW f \in [1 .. n -> S]
    PROVE  f \in Seq(S) /\ Len(f) = n
<1>1. f \in Seq(S)
  BY SeqDef
<1>2. DOMAIN f = 1 .. Len(f) /\ DOMAIN f = 1 .. n /\ Len(f) \in Nat
  BY <1>1, LenProperties
<1> QED BY <1>1, <1>2

Calls ==
    {"fork", "drop", "hear", "say", "close", "wait", "print", "pause", "signal",
     "unlink", "bind", "accept", "clean_up", "connect"}

\* Times of one call, and of two.
LEMMA TimesOne ==
    ASSUME NEW n \in Nat, NEW a \in Calls
    PROVE  /\ C!Times(n, <<a>>) \in Seq(Calls) /\ Len(C!Times(n, <<a>>)) = n
           /\ \A k \in 1 .. n : C!Times(n, <<a>>)[k] = a
<1>1. Len(<<a>>) = 1 /\ n * 1 = n
  OBVIOUS
<1>2. \A k \in 1 .. n : 1 + ((k - 1) % 1) = 1
  OBVIOUS
<1>3. C!Times(n, <<a>>) = [k \in 1 .. n |-> a]
  BY <1>1, <1>2 DEF C!Times
<1> DEFINE t == [k \in 1 .. n |-> a]
<1>4. t \in [1 .. n -> Calls]
  OBVIOUS
<1>5. t \in Seq(Calls) /\ Len(t) = n
  BY <1>4, FunctionIsSeq
<1> QED BY <1>3, <1>5

LEMMA TimesTwo ==
    ASSUME NEW n \in Nat, NEW a \in Calls, NEW b \in Calls
    PROVE  /\ C!Times(n, <<a, b>>) \in Seq(Calls) /\ Len(C!Times(n, <<a, b>>)) = 2 * n
           /\ \A k \in 1 .. 2 * n : C!Times(n, <<a, b>>)[k] = IF k % 2 = 1 THEN a ELSE b
<1>1. Len(<<a, b>>) = 2 /\ n * 2 = 2 * n /\ <<a, b>>[1] = a /\ <<a, b>>[2] = b
  OBVIOUS
<1>2. \A k \in Nat : k >= 1 => 1 + ((k - 1) % 2) = IF k % 2 = 1 THEN 1 ELSE 2
  OBVIOUS
<1>3. ASSUME NEW k \in 1 .. 2 * n
      PROVE  <<a, b>>[1 + ((k - 1) % 2)] = IF k % 2 = 1 THEN a ELSE b
  <2>1. 1 + ((k - 1) % 2) = IF k % 2 = 1 THEN 1 ELSE 2
    BY <1>2
  <2> QED BY <1>1, <2>1
<1> DEFINE t == [k \in 1 .. 2 * n |-> IF k % 2 = 1 THEN a ELSE b]
<1>4. C!Times(n, <<a, b>>) = t
  BY <1>1, <1>3 DEF C!Times
<1>5. t \in [1 .. 2 * n -> Calls]
  OBVIOUS
<1>6. \A k \in 1 .. 2 * n : t[k] = IF k % 2 = 1 THEN a ELSE b
  OBVIOUS
<1> HIDE DEF t
<1>7. 2 * n \in Nat
  OBVIOUS
<1>8. t \in Seq(Calls) /\ Len(t) = 2 * n
  BY <1>5, <1>7, FunctionIsSeq
<1> QED BY <1>4, <1>6, <1>8

-----------------------------------------------------------------------------
\* The list of each program, place by place; "exit" is what comes after it.
SrvCall(k) ==
    IF k = 1 THEN "unlink" ELSE IF k = 2 THEN "bind" ELSE IF k = 3 THEN "accept"
    ELSE IF k <= Rounds + 3 THEN "hear" ELSE IF k = Rounds + 4 THEN "close"
    ELSE IF k = Rounds + 5 THEN "clean_up" ELSE "exit"

CltCall(k) ==
    IF k = 1 THEN "connect" ELSE IF k <= Rounds + 1 THEN "say"
    ELSE IF k = Rounds + 2 THEN "close" ELSE "exit"

PairParentCall(k) ==
    IF k = 1 THEN "fork" ELSE IF k = 2 THEN "drop"
    ELSE IF k <= 2 * Rounds + 2 THEN (IF k % 2 = 1 THEN "hear" ELSE "say")
    ELSE IF k = 2 * Rounds + 3 THEN "close" ELSE "exit"

PairChildCall(k) ==
    IF k = 1 THEN "drop"
    ELSE IF k <= 2 * Rounds + 1 THEN (IF k % 2 = 0 THEN "say" ELSE "hear")
    ELSE IF k = 2 * Rounds + 2 THEN "close" ELSE "exit"

SpairParentCall(k) ==
    IF k = 1 THEN "fork" ELSE IF k = 2 THEN "say" ELSE IF k = 3 THEN "hear"
    ELSE IF k = 4 THEN "wait" ELSE "exit"

SpairChildCall(k) == IF k = 1 THEN "hear" ELSE IF k = 2 THEN "say" ELSE "exit"

ExchangeParentCall(k) ==
    IF k = 1 THEN "fork" ELSE IF k = 2 THEN "print" ELSE IF k = 3 THEN "pause"
    ELSE IF k = 4 THEN "signal" ELSE IF k = 5 THEN "wait" ELSE "exit"

ExchangeChildCall(k) == IF k = 1 THEN "signal" ELSE "exit"

\* A list with a middle part.
LEMMA ListWithMiddle ==
    ASSUME NEW a \in Seq(Calls), NEW f \in Seq(Calls), NEW z \in Seq(Calls)
    PROVE  /\ Len(a \o f \o z) = Len(a) + Len(f) + Len(z)
           /\ \A k \in 1 .. Len(a) : (a \o f \o z)[k] = a[k]
           /\ \A k \in Len(a) + 1 .. Len(a) + Len(f) : (a \o f \o z)[k] = f[k - Len(a)]
           /\ \A k \in Len(a) + Len(f) + 1 .. Len(a) + Len(f) + Len(z) :
                (a \o f \o z)[k] = z[k - (Len(a) + Len(f))]
<1> DEFINE b == a \o f
           c == b \o z
<1>1. b \in Seq(Calls)
  BY ConcatProperties
<1>2. Len(b) = Len(a) + Len(f)
  BY ConcatProperties
<1>3. \A k \in 1 .. Len(a) + Len(f) : b[k] = IF k <= Len(a) THEN a[k] ELSE f[k - Len(a)]
  BY ConcatProperties
<1> HIDE DEF b
<1>4. Len(c) = Len(b) + Len(z)
  BY <1>1, ConcatProperties
<1>5. \A k \in 1 .. Len(b) + Len(z) : c[k] = IF k <= Len(b) THEN b[k] ELSE z[k - Len(b)]
  BY <1>1, ConcatProperties
<1> HIDE DEF c
<1>6. PICK x \in Nat, n \in Nat, w \in Nat : Len(a) = x /\ Len(f) = n /\ Len(z) = w
  BY LenProperties
<1>7. Len(c) = x + n + w
  BY <1>2, <1>4, <1>6
<1>8. \A k \in 1 .. x + n : b[k] = IF k <= x THEN a[k] ELSE f[k - x]
  BY <1>3, <1>6
<1>9. \A k \in 1 .. (x + n) + w : c[k] = IF k <= x + n THEN b[k] ELSE z[k - (x + n)]
  BY <1>2, <1>5, <1>6
<1>10. ASSUME NEW k \in 1 .. x PROVE c[k] = a[k]
  <2>1. k \in 1 .. (x + n) + w /\ k \in 1 .. x + n /\ k <= x + n /\ k <= x
    OBVIOUS
  <2> QED BY <1>8, <1>9, <2>1
<1>11. ASSUME NEW k \in x + 1 .. x + n PROVE c[k] = f[k - x]
  <2>1. k \in 1 .. (x + n) + w /\ k \in 1 .. x + n /\ k <= x + n /\ ~(k <= x)
    OBVIOUS
  <2> QED BY <1>8, <1>9, <2>1
<1>12. ASSUME NEW k \in x + n + 1 .. x + n + w PROVE c[k] = z[k - (x + n)]
  <2>1. k \in 1 .. (x + n) + w /\ ~(k <= x + n)
    OBVIOUS
  <2> QED BY <1>9, <2>1
<1> QED BY <1>6, <1>7, <1>10, <1>11, <1>12 DEF b, c

LEMMA SrvList ==
    ASSUME C!ConstantsOK
    PROVE  /\ Len(C!SrvCode) = Rounds + 5
           /\ \A k \in 1 .. Rounds + 5 : C!SrvCode[k] = SrvCall(k)
<1> DEFINE a == <<"unlink", "bind", "accept">>
           t == C!Times(Rounds, <<"hear">>)
           z == <<"close", "clean_up">>
           c == a \o t \o z
<1>1. Rounds \in Nat \ {0} /\ Rounds \in Nat
  BY DEF C!ConstantsOK
<1>2. "hear" \in Calls
  BY DEF Calls
<1>3. t \in Seq(Calls) /\ Len(t) = Rounds /\ \A k \in 1 .. Rounds : t[k] = "hear"
  BY <1>1, <1>2, TimesOne
<1>4. a \in Seq(Calls) /\ Len(a) = 3 /\ z \in Seq(Calls) /\ Len(z) = 2
  BY DEF Calls
<1>5. a[1] = "unlink" /\ a[2] = "bind" /\ a[3] = "accept" /\ z[1] = "close" /\ z[2] = "clean_up"
  OBVIOUS
<1>6. C!SrvCode = c
  BY DEF C!SrvCode
<1> HIDE DEF a, t, z
<1>7. /\ Len(c) = 3 + Rounds + 2
      /\ \A k \in 1 .. 3 : c[k] = a[k]
      /\ \A k \in 3 + 1 .. 3 + Rounds : c[k] = t[k - 3]
      /\ \A k \in 3 + Rounds + 1 .. 3 + Rounds + 2 : c[k] = z[k - (3 + Rounds)]
  <2>1. t \in Seq(Calls) /\ a \in Seq(Calls) /\ z \in Seq(Calls)
    BY <1>3, <1>4
  <2>2. /\ Len(c) = Len(a) + Len(t) + Len(z)
        /\ \A k \in 1 .. Len(a) : c[k] = a[k]
        /\ \A k \in Len(a) + 1 .. Len(a) + Len(t) : c[k] = t[k - Len(a)]
        /\ \A k \in Len(a) + Len(t) + 1 .. Len(a) + Len(t) + Len(z) :
             c[k] = z[k - (Len(a) + Len(t))]
    BY <2>1, ListWithMiddle
  <2>3. Len(a) = 3 /\ Len(t) = Rounds /\ Len(z) = 2
    BY <1>3, <1>4
  <2> HIDE DEF c
  <2> QED BY <2>2, <2>3
<1> HIDE DEF c
<1>8. ASSUME NEW k \in 1 .. Rounds + 5 PROVE c[k] = SrvCall(k)
  <2>1. CASE k \in 1 .. 3
    BY <1>1, <1>5, <1>7, <2>1 DEF SrvCall
  <2>2. CASE k \in 3 + 1 .. 3 + Rounds
    <3>1. k - 3 \in 1 .. Rounds
      BY <1>1, <2>2
    <3>2. c[k] = "hear"
      BY <1>3, <1>7, <2>2, <3>1
    <3> QED BY <1>1, <2>2, <3>2 DEF SrvCall
  <2>3. CASE k = 3 + Rounds + 1
    <3>1. c[k] = "close"
      BY <1>1, <1>5, <1>7, <2>3
    <3> QED BY <1>1, <2>3, <3>1 DEF SrvCall
  <2>4. CASE k = 3 + Rounds + 2
    <3>1. c[k] = "clean_up"
      BY <1>1, <1>5, <1>7, <2>4
    <3> QED BY <1>1, <2>4, <3>1 DEF SrvCall
  <2> QED BY <1>1, <2>1, <2>2, <2>3, <2>4
<1>9. Len(c) = Rounds + 5
  BY <1>1, <1>7
<1> QED BY <1>6, <1>8, <1>9

LEMMA CltList ==
    ASSUME C!ConstantsOK
    PROVE  /\ Len(C!CltCode) = Rounds + 2
           /\ \A k \in 1 .. Rounds + 2 : C!CltCode[k] = CltCall(k)
<1> DEFINE a == <<"connect">>
           t == C!Times(Rounds, <<"say">>)
           z == <<"close">>
           c == a \o t \o z
<1>1. Rounds \in Nat \ {0} /\ Rounds \in Nat
  BY DEF C!ConstantsOK
<1>2. "say" \in Calls
  BY DEF Calls
<1>3. t \in Seq(Calls) /\ Len(t) = Rounds /\ \A k \in 1 .. Rounds : t[k] = "say"
  BY <1>1, <1>2, TimesOne
<1>4. a \in Seq(Calls) /\ Len(a) = 1 /\ z \in Seq(Calls) /\ Len(z) = 1
  BY DEF Calls
<1>5. a[1] = "connect" /\ z[1] = "close"
  OBVIOUS
<1>6. C!CltCode = c
  BY DEF C!CltCode
<1> HIDE DEF a, t, z
<1>7. /\ Len(c) = 1 + Rounds + 1
      /\ \A k \in 1 .. 1 : c[k] = a[k]
      /\ \A k \in 1 + 1 .. 1 + Rounds : c[k] = t[k - 1]
      /\ \A k \in 1 + Rounds + 1 .. 1 + Rounds + 1 : c[k] = z[k - (1 + Rounds)]
  <2>1. t \in Seq(Calls) /\ a \in Seq(Calls) /\ z \in Seq(Calls)
    BY <1>3, <1>4
  <2>2. /\ Len(c) = Len(a) + Len(t) + Len(z)
        /\ \A k \in 1 .. Len(a) : c[k] = a[k]
        /\ \A k \in Len(a) + 1 .. Len(a) + Len(t) : c[k] = t[k - Len(a)]
        /\ \A k \in Len(a) + Len(t) + 1 .. Len(a) + Len(t) + Len(z) :
             c[k] = z[k - (Len(a) + Len(t))]
    BY <2>1, ListWithMiddle
  <2>3. Len(a) = 1 /\ Len(t) = Rounds /\ Len(z) = 1
    BY <1>3, <1>4
  <2> HIDE DEF c
  <2> QED BY <2>2, <2>3
<1> HIDE DEF c
<1>8. ASSUME NEW k \in 1 .. Rounds + 2 PROVE c[k] = CltCall(k)
  <2>1. CASE k \in 1 .. 1
    BY <1>1, <1>5, <1>7, <2>1 DEF CltCall
  <2>2. CASE k \in 1 + 1 .. 1 + Rounds
    <3>1. k - 1 \in 1 .. Rounds
      BY <1>1, <2>2
    <3>2. c[k] = "say"
      BY <1>3, <1>7, <2>2, <3>1
    <3> QED BY <1>1, <2>2, <3>2 DEF CltCall
  <2>3. CASE k = 1 + Rounds + 1
    <3>1. c[k] = "close"
      BY <1>1, <1>5, <1>7, <2>3
    <3> QED BY <1>1, <2>3, <3>1 DEF CltCall
  <2> QED BY <1>1, <2>1, <2>2, <2>3
<1>9. Len(c) = Rounds + 2
  BY <1>1, <1>7
<1> QED BY <1>6, <1>8, <1>9

LEMMA PairParentList ==
    ASSUME C!ConstantsOK
    PROVE  /\ Len(C!PairParent) = 2 * Rounds + 3
           /\ \A k \in 1 .. 2 * Rounds + 3 : C!PairParent[k] = PairParentCall(k)
<1> DEFINE a == <<"fork", "drop">>
           t == C!Times(Rounds, <<"hear", "say">>)
           z == <<"close">>
           c == a \o t \o z
<1>1. Rounds \in Nat \ {0} /\ Rounds \in Nat
  BY DEF C!ConstantsOK
<1>2. "hear" \in Calls /\ "say" \in Calls
  BY DEF Calls
<1>3. t \in Seq(Calls) /\ Len(t) = 2 * Rounds /\ \A k \in 1 .. 2 * Rounds : t[k] = IF k % 2 = 1 THEN "hear" ELSE "say"
  BY <1>1, <1>2, TimesTwo
<1>4. a \in Seq(Calls) /\ Len(a) = 2 /\ z \in Seq(Calls) /\ Len(z) = 1
  BY DEF Calls
<1>5. a[1] = "fork" /\ a[2] = "drop" /\ z[1] = "close"
  OBVIOUS
<1>6. C!PairParent = c
  BY DEF C!PairParent
<1> HIDE DEF a, t, z
<1>7. /\ Len(c) = 2 + 2 * Rounds + 1
      /\ \A k \in 1 .. 2 : c[k] = a[k]
      /\ \A k \in 2 + 1 .. 2 + 2 * Rounds : c[k] = t[k - 2]
      /\ \A k \in 2 + 2 * Rounds + 1 .. 2 + 2 * Rounds + 1 : c[k] = z[k - (2 + 2 * Rounds)]
  <2>1. t \in Seq(Calls) /\ a \in Seq(Calls) /\ z \in Seq(Calls)
    BY <1>3, <1>4
  <2>2. /\ Len(c) = Len(a) + Len(t) + Len(z)
        /\ \A k \in 1 .. Len(a) : c[k] = a[k]
        /\ \A k \in Len(a) + 1 .. Len(a) + Len(t) : c[k] = t[k - Len(a)]
        /\ \A k \in Len(a) + Len(t) + 1 .. Len(a) + Len(t) + Len(z) :
             c[k] = z[k - (Len(a) + Len(t))]
    BY <2>1, ListWithMiddle
  <2>3. Len(a) = 2 /\ Len(t) = 2 * Rounds /\ Len(z) = 1
    BY <1>3, <1>4
  <2> HIDE DEF c
  <2> QED BY <2>2, <2>3
<1> HIDE DEF c
<1>8. ASSUME NEW k \in 1 .. 2 * Rounds + 3 PROVE c[k] = PairParentCall(k)
  <2>1. CASE k \in 1 .. 2
    BY <1>1, <1>5, <1>7, <2>1 DEF PairParentCall
  <2>2. CASE k \in 2 + 1 .. 2 + 2 * Rounds
    <3>1. k - 2 \in 1 .. 2 * Rounds
      BY <1>1, <2>2
    <3>2. c[k] = IF (k - 2) % 2 = 1 THEN "hear" ELSE "say"
      BY <1>3, <1>7, <2>2, <3>1
    <3> QED BY <1>1, <2>2, <3>2 DEF PairParentCall
  <2>3. CASE k = 2 + 2 * Rounds + 1
    <3>1. c[k] = "close"
      BY <1>1, <1>5, <1>7, <2>3
    <3> QED BY <1>1, <2>3, <3>1 DEF PairParentCall
  <2> QED BY <1>1, <2>1, <2>2, <2>3
<1>9. Len(c) = 2 * Rounds + 3
  BY <1>1, <1>7
<1> QED BY <1>6, <1>8, <1>9

LEMMA PairChildList ==
    ASSUME C!ConstantsOK
    PROVE  /\ Len(C!PairChild) = 2 * Rounds + 2
           /\ \A k \in 1 .. 2 * Rounds + 2 : C!PairChild[k] = PairChildCall(k)
<1> DEFINE a == <<"drop">>
           t == C!Times(Rounds, <<"say", "hear">>)
           z == <<"close">>
           c == a \o t \o z
<1>1. Rounds \in Nat \ {0} /\ Rounds \in Nat
  BY DEF C!ConstantsOK
<1>2. "say" \in Calls /\ "hear" \in Calls
  BY DEF Calls
<1>3. t \in Seq(Calls) /\ Len(t) = 2 * Rounds /\ \A k \in 1 .. 2 * Rounds : t[k] = IF k % 2 = 1 THEN "say" ELSE "hear"
  BY <1>1, <1>2, TimesTwo
<1>4. a \in Seq(Calls) /\ Len(a) = 1 /\ z \in Seq(Calls) /\ Len(z) = 1
  BY DEF Calls
<1>5. a[1] = "drop" /\ z[1] = "close"
  OBVIOUS
<1>6. C!PairChild = c
  BY DEF C!PairChild
<1> HIDE DEF a, t, z
<1>7. /\ Len(c) = 1 + 2 * Rounds + 1
      /\ \A k \in 1 .. 1 : c[k] = a[k]
      /\ \A k \in 1 + 1 .. 1 + 2 * Rounds : c[k] = t[k - 1]
      /\ \A k \in 1 + 2 * Rounds + 1 .. 1 + 2 * Rounds + 1 : c[k] = z[k - (1 + 2 * Rounds)]
  <2>1. t \in Seq(Calls) /\ a \in Seq(Calls) /\ z \in Seq(Calls)
    BY <1>3, <1>4
  <2>2. /\ Len(c) = Len(a) + Len(t) + Len(z)
        /\ \A k \in 1 .. Len(a) : c[k] = a[k]
        /\ \A k \in Len(a) + 1 .. Len(a) + Len(t) : c[k] = t[k - Len(a)]
        /\ \A k \in Len(a) + Len(t) + 1 .. Len(a) + Len(t) + Len(z) :
             c[k] = z[k - (Len(a) + Len(t))]
    BY <2>1, ListWithMiddle
  <2>3. Len(a) = 1 /\ Len(t) = 2 * Rounds /\ Len(z) = 1
    BY <1>3, <1>4
  <2> HIDE DEF c
  <2> QED BY <2>2, <2>3
<1> HIDE DEF c
<1>8. ASSUME NEW k \in 1 .. 2 * Rounds + 2 PROVE c[k] = PairChildCall(k)
  <2>1. CASE k \in 1 .. 1
    BY <1>1, <1>5, <1>7, <2>1 DEF PairChildCall
  <2>2. CASE k \in 1 + 1 .. 1 + 2 * Rounds
    <3>1. k - 1 \in 1 .. 2 * Rounds
      BY <1>1, <2>2
    <3>2. c[k] = IF (k - 1) % 2 = 1 THEN "say" ELSE "hear"
      BY <1>3, <1>7, <2>2, <3>1
    <3> QED BY <1>1, <2>2, <3>2 DEF PairChildCall
  <2>3. CASE k = 1 + 2 * Rounds + 1
    <3>1. c[k] = "close"
      BY <1>1, <1>5, <1>7, <2>3
    <3> QED BY <1>1, <2>3, <3>1 DEF PairChildCall
  <2> QED BY <1>1, <2>1, <2>2, <2>3
<1>9. Len(c) = 2 * Rounds + 2
  BY <1>1, <1>7
<1> QED BY <1>6, <1>8, <1>9

-----------------------------------------------------------------------------
\* The call at place k of p's list, and the last place.
CallAt(p, k) ==
    IF program = "sock_c_u" THEN (IF p \in Servers THEN SrvCall(k) ELSE CltCall(k))
    ELSE IF program = "socketpair" THEN (IF p \in Servers THEN PairParentCall(k) ELSE PairChildCall(k))
    ELSE IF program = "spair" THEN (IF p \in Servers THEN SpairParentCall(k) ELSE SpairChildCall(k))
    ELSE (IF p \in Servers THEN ExchangeParentCall(k) ELSE ExchangeChildCall(k))

Last(p) ==
    IF program = "sock_c_u" THEN (IF p \in Servers THEN Rounds + 5 ELSE Rounds + 2)
    ELSE IF program = "socketpair" THEN (IF p \in Servers THEN 2 * Rounds + 3 ELSE 2 * Rounds + 2)
    ELSE IF program = "spair" THEN (IF p \in Servers THEN 4 ELSE 2)
    ELSE (IF p \in Servers THEN 5 ELSE 1)

\* What p has printed and sent when it comes to place k.
Within(n) == IF n < 0 THEN 0 ELSE IF n > Rounds THEN Rounds ELSE n

HeardAt(p, k) ==
    IF program = "sock_c_u" THEN (IF p \in Servers THEN Within(k - 4) ELSE 0)
    ELSE IF program = "socketpair" THEN Within((k - 2) \div 2)
    ELSE IF program = "spair" THEN (IF k > (IF p \in Servers THEN 3 ELSE 1) THEN 1 ELSE 0)
    ELSE 0

SaidAt(p, k) ==
    IF program = "sock_c_u" THEN (IF p \in Servers THEN 0 ELSE Within(k - 2))
    ELSE IF program = "socketpair" THEN Within((k - (IF p \in Servers THEN 3 ELSE 1)) \div 2)
    ELSE IF program = "spair" THEN (IF k > 2 THEN 1 ELSE 0)
    ELSE 0

Message == (C!Proc \cup {NoOne}) \X Nat
Status == {"no", "runs", "done", "failed", "killed"}
Record == [st : Status, at : Nat, said : Nat, heard : Seq(Message), sock : C!End \cup {C!NoEnd}]

Typed ==
    /\ program \in Programs
    /\ who \in [C!Proc -> Record]
    /\ box \in [C!End -> Seq(Message)]
    /\ open \in [C!End -> SUBSET C!Proc]
    /\ name \in Servers \cup {NoOne}
    /\ backlog \in [Servers -> Seq(Clients)]

\* The place of a process says what it has sent and printed, and what its state can be.
Placed(p) ==
    /\ who[p].at \in 1 .. Last(p) + 1
    /\ who[p].said = SaidAt(p, who[p].at)
    /\ Len(who[p].heard) = HeardAt(p, who[p].at)
    /\ who[p].st = "no" => who[p].at = 1
    /\ who[p].st = "done" => who[p].at = Last(p) + 1
    /\ who[p].st = "failed" => who[p].at = 1 \/ (program = "sock_c_u" /\ p \in Servers)

\* Of a pair there are two, and the child runs from the fork on.
Paired ==
    program # "sock_c_u" =>
        /\ \A p \in C!Proc \ {Parent, Child} : who[p].st = "no"
        /\ who[Parent].st # "no" /\ who[Child].st # "failed"
        /\ who[Parent].at = 1 => who[Child].st = "no"
        /\ program # "spair" /\ who[Parent].at > 1 => who[Child].st # "no"
        /\ who[Parent].sock = <<Child, "server">> /\ who[Child].sock = <<Child, "client">>

\* A client of sock_c_u is nowhere before connect.  Afterwards it is in one backlog, once, or
\* with one server.
Nowhere(c) ==
    /\ who[c].sock = C!NoEnd /\ box[<<c, "server">>] = << >>
    /\ \A s \in Servers : /\ who[s].sock # <<c, "server">>
                          /\ \A k \in 1 .. Len(backlog[s]) : backlog[s][k] # c

Waits(s, k) ==
    LET c == backlog[s][k] IN
    /\ \A t \in Servers : /\ who[t].sock # <<c, "server">>
                          /\ \A j \in 1 .. Len(backlog[t]) : backlog[t][j] = c => t = s /\ j = k
    /\ who[c].sock = <<c, "client">>

Linked ==
    program = "sock_c_u" =>
        /\ \A c \in Clients : /\ who[c].at = 1 => Nowhere(c)
                              /\ who[c].at > 1 => who[c].sock = <<c, "client">>
        /\ \A s \in Servers : \A k \in 1 .. Len(backlog[s]) : Waits(s, k)
        /\ \A s \in Servers :
             /\ who[s].at <= 3 => who[s].sock = C!NoEnd
             /\ who[s].at > 3 => \E c \in Clients : who[s].sock = <<c, "server">>
             /\ who[s].sock # C!NoEnd => \A t \in Servers : who[t].sock = who[s].sock => t = s

\* Who is still to write holds an end; spair.c holds both.
Ends ==
    /\ program = "sock_c_u" =>
         \A c \in Clients : who[c].st = "runs" /\ who[c].at \in 2 .. Rounds + 2 =>
             c \in open[<<c, "client">>]
    /\ program = "socketpair" =>
         /\ who[Parent].st = "runs" /\ who[Parent].at <= 2 * Rounds + 3 =>
              Parent \in open[<<Child, "server">>]
         /\ who[Parent].st = "runs" /\ who[Parent].at = 1 => Parent \in open[<<Child, "client">>]
         /\ who[Child].st = "runs" /\ who[Child].at <= 2 * Rounds + 2 =>
              Child \in open[<<Child, "client">>]
    /\ program = "spair" =>
         \A p \in {Parent, Child} : who[p].st = "runs" =>
             p \in open[<<Child, "client">>] /\ p \in open[<<Child, "server">>]

\* l are messages of q, from the one after the k-th on.
Follows(q, l, k) == \A n \in 1 .. Len(l) : l[n] = <<q, k + n>>

\* Who prints what another process sends.
Listens(p) == IF program = "sock_c_u" THEN p \in Servers /\ who[p].sock # C!NoEnd
              ELSE program \in {"socketpair", "spair"} /\ p \in {Parent, Child}

\* What p has printed and what it can still read are what its partner has sent.
Stream(p) ==
    LET q == C!Partner(p)
        l == who[p].heard
        b == box[who[p].sock]
    IN who[q].st # "killed" =>
         Follows(q, l, 0) /\ Follows(q, b, Len(l)) /\ Len(l) + Len(b) = who[q].said

Streams ==
    /\ \A p \in C!Proc : Listens(p) => Stream(p)
    /\ program = "sock_c_u" =>
         \A s \in Servers : \A k \in 1 .. Len(backlog[s]) :
             LET c == backlog[s][k] IN
             Follows(c, box[<<c, "server">>], 0) /\ Len(box[<<c, "server">>]) = who[c].said

\* A server that is alone has kept the name.
Alone(s) == \A t \in Servers \ {s} : who[t].st = "no"
Named ==
    program = "sock_c_u" =>
        \A s \in Servers : who[s].st = "runs" /\ who[s].at \in 3 .. Rounds + 5 /\ Alone(s) => name = s

Inv ==
    /\ Typed /\ \A p \in C!Proc : Placed(p)
    /\ Paired /\ Linked /\ Ends /\ Streams /\ Named

-----------------------------------------------------------------------------
(***************************************************************************)
(* The lists, by their places.                                             *)
(***************************************************************************)

\* The list of a process, place by place.
LEMMA CodeFacts ==
    ASSUME C!ConstantsOK, program \in Programs, NEW p \in C!Proc
    PROVE  /\ Len(C!Code(p)) = Last(p) /\ Last(p) \in Nat
           /\ \A k \in 1 .. Last(p) : C!Code(p)[k] = CallAt(p, k)
<1>1. Rounds \in Nat \ {0} /\ program \in {"socketpair", "spair", "sock_c_u", "exchange"}
  BY DEF C!ConstantsOK
<1>2. CASE program = "sock_c_u"
  <2>1. C!Code(p) = IF p \in Servers THEN C!SrvCode ELSE C!CltCode
    BY <1>2 DEF C!Code, C!Codes
  <2> QED BY <1>1, <1>2, <2>1, SrvList, CltList DEF Last, CallAt
<1>3. CASE program = "socketpair"
  <2>1. C!Code(p) = IF p \in Servers THEN C!PairParent ELSE C!PairChild
    BY <1>3 DEF C!Code, C!Codes
  <2> QED BY <1>1, <1>3, <2>1, PairParentList, PairChildList DEF Last, CallAt
<1>4. CASE program = "spair"
  <2>1. C!Code(p) = IF p \in Servers THEN C!SpairParent ELSE C!SpairChild
    BY <1>4 DEF C!Code, C!Codes
  <2>2. /\ Len(C!SpairParent) = 4 /\ \A k \in 1 .. 4 : C!SpairParent[k] = SpairParentCall(k)
        /\ Len(C!SpairChild) = 2 /\ \A k \in 1 .. 2 : C!SpairChild[k] = SpairChildCall(k)
    BY DEF C!SpairParent, SpairParentCall, C!SpairChild, SpairChildCall
  <2> QED BY <1>4, <2>1, <2>2 DEF Last, CallAt
<1>5. CASE program = "exchange"
  <2>1. C!Code(p) = IF p \in Servers THEN C!ExchangeParent ELSE C!ExchangeChild
    BY <1>5 DEF C!Code, C!Codes
  <2>2. /\ Len(C!ExchangeParent) = 5 /\ \A k \in 1 .. 5 : C!ExchangeParent[k] = ExchangeParentCall(k)
        /\ Len(C!ExchangeChild) = 1 /\ \A k \in 1 .. 1 : C!ExchangeChild[k] = ExchangeChildCall(k)
    BY DEF C!ExchangeParent, ExchangeParentCall, C!ExchangeChild, ExchangeChildCall
  <2> QED BY <1>5, <2>1, <2>2 DEF Last, CallAt
<1> QED BY <1>1, <1>2, <1>3, <1>4, <1>5

\* Which programs have which calls, and where.
LEMMA WhereCalls ==
    ASSUME C!ConstantsOK, program \in Programs, NEW p \in C!Proc, NEW k \in 1 .. Last(p) + 1
    PROVE  /\ CallAt(p, k) = "exit" <=> k = Last(p) + 1
           /\ CallAt(p, k) = "fork" => program # "sock_c_u" /\ p \in Servers /\ k = 1
           /\ CallAt(p, k) = "drop" => program = "socketpair" /\ k = (IF p \in Servers THEN 2 ELSE 1)
           /\ CallAt(p, k) = "close" =>
                \/ program = "socketpair" /\ k = Last(p)
                \/ program = "sock_c_u" /\ p \in Servers /\ k = Rounds + 4
                \/ program = "sock_c_u" /\ p \notin Servers /\ k = Rounds + 2
           /\ CallAt(p, k) = "unlink" => program = "sock_c_u" /\ p \in Servers /\ k = 1
           /\ CallAt(p, k) = "bind" => program = "sock_c_u" /\ p \in Servers /\ k = 2
           /\ CallAt(p, k) = "accept" => program = "sock_c_u" /\ p \in Servers /\ k = 3
           /\ CallAt(p, k) = "clean_up" => program = "sock_c_u" /\ p \in Servers /\ k = Rounds + 5
           /\ CallAt(p, k) = "connect" => program = "sock_c_u" /\ p \notin Servers /\ k = 1
           /\ CallAt(p, k) = "wait" => program \in {"spair", "exchange"} /\ p \in Servers /\ k \in {4, 5}
           /\ CallAt(p, k) = "print" => program = "exchange" /\ p \in Servers /\ k = 2
           /\ CallAt(p, k) = "pause" => program = "exchange" /\ p \in Servers /\ k = 3
           /\ CallAt(p, k) = "signal" => program = "exchange" /\ k = (IF p \in Servers THEN 4 ELSE 1)
<1>1. Rounds \in Nat \ {0} /\ program \in {"socketpair", "spair", "sock_c_u", "exchange"}
  BY DEF C!ConstantsOK
<1>2. CASE program = "sock_c_u"
  BY <1>1, <1>2 DEF CallAt, Last, SrvCall, CltCall
<1>3. CASE program = "socketpair"
  BY <1>1, <1>3 DEF CallAt, Last, PairParentCall, PairChildCall
<1>4. CASE program = "spair"
  BY <1>4 DEF CallAt, Last, SpairParentCall, SpairChildCall
<1>5. CASE program = "exchange"
  BY <1>5 DEF CallAt, Last, ExchangeParentCall, ExchangeChildCall
<1> QED BY <1>1, <1>2, <1>3, <1>4, <1>5

LEMMA WhereTalk ==
    ASSUME C!ConstantsOK, program \in Programs, NEW p \in C!Proc, NEW k \in 1 .. Last(p) + 1
    PROVE  /\ CallAt(p, k) = "hear" =>
                \/ program = "sock_c_u" /\ p \in Servers /\ k \in 4 .. Rounds + 3
                \/ program = "socketpair" /\ p \in Servers /\ k \in 3 .. 2 * Rounds + 2
                \/ program = "socketpair" /\ p \notin Servers /\ k \in 2 .. 2 * Rounds + 1
                \/ program = "spair" /\ k = (IF p \in Servers THEN 3 ELSE 1)
           /\ CallAt(p, k) = "say" =>
                \/ program = "sock_c_u" /\ p \notin Servers /\ k \in 2 .. Rounds + 1
                \/ program = "socketpair" /\ p \in Servers /\ k \in 3 .. 2 * Rounds + 2
                \/ program = "socketpair" /\ p \notin Servers /\ k \in 2 .. 2 * Rounds + 1
                \/ program = "spair" /\ k = 2
<1>1. Rounds \in Nat \ {0} /\ program \in {"socketpair", "spair", "sock_c_u", "exchange"}
  BY DEF C!ConstantsOK
<1>2. CASE program = "sock_c_u"
  BY <1>1, <1>2 DEF CallAt, Last, SrvCall, CltCall
<1>3. CASE program = "socketpair"
  BY <1>1, <1>3 DEF CallAt, Last, PairParentCall, PairChildCall
<1>4. CASE program = "spair"
  BY <1>4 DEF CallAt, Last, SpairParentCall, SpairChildCall
<1>5. CASE program = "exchange"
  BY <1>5 DEF CallAt, Last, ExchangeParentCall, ExchangeChildCall
<1> QED BY <1>1, <1>2, <1>3, <1>4, <1>5

\* What a call adds to what has been printed and sent.
LEMMA CallCounts ==
    ASSUME C!ConstantsOK, program \in Programs, NEW p \in C!Proc, NEW k \in 1 .. Last(p)
    PROVE  /\ HeardAt(p, k + 1) = HeardAt(p, k) + (IF CallAt(p, k) = "hear" THEN 1 ELSE 0)
           /\ SaidAt(p, k + 1) = SaidAt(p, k) + (IF CallAt(p, k) = "say" THEN 1 ELSE 0)
<1>1. Rounds \in Nat \ {0} /\ program \in {"socketpair", "spair", "sock_c_u", "exchange"}
  BY DEF C!ConstantsOK
<1>2. CASE program = "sock_c_u"
  BY <1>1, <1>2 DEF CallAt, Last, SrvCall, CltCall, HeardAt, SaidAt, Within
<1>3. CASE program = "socketpair" /\ p \in Servers
  <2>1. k \in 1 .. 2 * Rounds + 3
    BY <1>3 DEF Last
  <2>2. Within(((k + 1) - 2) \div 2) =
          Within((k - 2) \div 2) + (IF PairParentCall(k) = "hear" THEN 1 ELSE 0)
    BY <1>1, <2>1 DEF Within, PairParentCall
  <2>3. Within(((k + 1) - 3) \div 2) =
          Within((k - 3) \div 2) + (IF PairParentCall(k) = "say" THEN 1 ELSE 0)
    BY <1>1, <2>1 DEF Within, PairParentCall
  <2> QED BY <1>3, <2>2, <2>3 DEF CallAt, HeardAt, SaidAt
<1>4. CASE program = "socketpair" /\ p \notin Servers
  <2>1. k \in 1 .. 2 * Rounds + 2
    BY <1>4 DEF Last
  <2>2. Within(((k + 1) - 2) \div 2) =
          Within((k - 2) \div 2) + (IF PairChildCall(k) = "hear" THEN 1 ELSE 0)
    BY <1>1, <2>1 DEF Within, PairChildCall
  <2>3. Within(((k + 1) - 1) \div 2) =
          Within((k - 1) \div 2) + (IF PairChildCall(k) = "say" THEN 1 ELSE 0)
    BY <1>1, <2>1 DEF Within, PairChildCall
  <2> QED BY <1>4, <2>2, <2>3 DEF CallAt, HeardAt, SaidAt
<1>5. CASE program = "spair"
  BY <1>5 DEF CallAt, Last, SpairParentCall, SpairChildCall, HeardAt, SaidAt
<1>6. CASE program = "exchange"
  BY <1>6 DEF CallAt, Last, ExchangeParentCall, ExchangeChildCall, HeardAt, SaidAt
<1> QED BY <1>1, <1>2, <1>3, <1>4, <1>5, <1>6

\* How much that is in all: a listener prints as much as its partner can send.
LEMMA CountBounds ==
    ASSUME C!ConstantsOK, program \in Programs, NEW p \in C!Proc, NEW k \in 1 .. Last(p) + 1
    PROVE  /\ HeardAt(p, k) \in 0 .. Rounds /\ SaidAt(p, k) \in 0 .. Rounds
           /\ HeardAt(p, 1) = 0 /\ SaidAt(p, 1) = 0
           /\ program = "sock_c_u" /\ p \in Servers /\ k >= Rounds + 4 => HeardAt(p, k) = Rounds
           /\ program = "sock_c_u" /\ p \notin Servers /\ k >= Rounds + 2 => SaidAt(p, k) = Rounds
           /\ program = "socketpair" /\ k >= 2 * Rounds + 2 => HeardAt(p, k) = Rounds
           /\ program = "socketpair" /\ k >= 2 * Rounds + 3 => SaidAt(p, k) = Rounds
           /\ program = "spair" => SaidAt(p, k) <= 1
           /\ program = "spair" /\ k = Last(p) + 1 => HeardAt(p, k) = 1
           /\ program = "exchange" => HeardAt(p, k) = 0 /\ SaidAt(p, k) = 0
<1>1. Rounds \in Nat \ {0} /\ program \in {"socketpair", "spair", "sock_c_u", "exchange"}
  BY DEF C!ConstantsOK
<1>2. CASE program = "sock_c_u"
  BY <1>1, <1>2 DEF Last, HeardAt, SaidAt, Within
<1>3. CASE program = "socketpair"
  BY <1>1, <1>3 DEF Last, HeardAt, SaidAt, Within
<1>4. CASE program = "spair"
  BY <1>1, <1>4 DEF Last, HeardAt, SaidAt
<1>5. CASE program = "exchange"
  BY <1>1, <1>5 DEF HeardAt, SaidAt
<1> QED BY <1>1, <1>2, <1>3, <1>4, <1>5

\* The call that a process is in.
LEMMA CallFacts ==
    ASSUME C!ConstantsOK, program \in Programs, NEW p \in C!Proc, who[p].at \in 1 .. Last(p) + 1
    PROVE  C!Call(p) = CallAt(p, who[p].at)
<1>1. /\ Len(C!Code(p)) = Last(p) /\ Last(p) \in Nat
      /\ \A k \in 1 .. Last(p) : C!Code(p)[k] = CallAt(p, k)
  BY CodeFacts
<1>2. CallAt(p, Last(p) + 1) = "exit"
  BY <1>1, WhereCalls
<1>3. CASE who[p].at <= Last(p)
  BY <1>1, <1>3 DEF C!Call
<1>4. CASE who[p].at = Last(p) + 1
  BY <1>1, <1>2, <1>4 DEF C!Call
<1> QED BY <1>1, <1>3, <1>4

-----------------------------------------------------------------------------
(***************************************************************************)
(* What a step does to the processes.                                      *)
(***************************************************************************)

\* A process goes on to its next place.
LEMMA StepFacts ==
    ASSUME Typed, NEW p \in C!Proc, C!Step(p)
    PROVE  /\ who' \in [C!Proc -> Record]
           /\ who'[p].at = who[p].at + 1 /\ who'[p].st = who[p].st
           /\ \A r \in C!Proc : /\ r # p => who'[r] = who[r]
                                /\ who'[r].said = who[r].said /\ who'[r].heard = who[r].heard
                                /\ who'[r].sock = who[r].sock /\ who'[r].st = who[r].st
<1>1. who \in [C!Proc -> Record]
  BY DEF Typed
<1>2. who' = [who EXCEPT ![p] = [who[p] EXCEPT !.at = who[p].at + 1]]
  BY <1>1 DEF C!Step, Record
<1>3. who[p] \in Record /\ [who[p] EXCEPT !.at = who[p].at + 1] \in Record
  <2>1. who[p] \in Record
    BY <1>1
  <2>2. who[p].at + 1 \in Nat
    BY <2>1 DEF Record
  <2> QED BY <2>1, <2>2 DEF Record
<1>4. who' \in [C!Proc -> Record]
  BY <1>1, <1>2, <1>3
<1>5. who'[p] = [who[p] EXCEPT !.at = who[p].at + 1] /\ \A r \in C!Proc : r # p => who'[r] = who[r]
  BY <1>1, <1>2
<1> QED BY <1>3, <1>4, <1>5 DEF Record

\* A process ends.
LEMMA StopFacts ==
    ASSUME Typed, NEW p \in C!Proc, NEW how \in Status, C!Stop(p, how)
    PROVE  /\ who' \in [C!Proc -> Record] /\ open' \in [C!End -> SUBSET C!Proc]
           /\ who'[p].st = how /\ who'[p].at = who[p].at
           /\ \A r \in C!Proc : /\ r # p => who'[r] = who[r]
                                /\ who'[r].said = who[r].said /\ who'[r].heard = who[r].heard
                                /\ who'[r].sock = who[r].sock /\ who'[r].at = who[r].at
           /\ \A e \in C!End : open'[e] = open[e] \ {p}
<1>1. who \in [C!Proc -> Record] /\ open \in [C!End -> SUBSET C!Proc]
  BY DEF Typed
<1>2. who' = [who EXCEPT ![p] = [who[p] EXCEPT !.st = how]]
  BY <1>1 DEF C!Stop, Record
<1>3. who[p] \in Record /\ [who[p] EXCEPT !.st = how] \in Record
  <2>1. who[p] \in Record
    BY <1>1
  <2> QED BY <2>1 DEF Record
<1>4. who' \in [C!Proc -> Record]
  BY <1>1, <1>2, <1>3
<1>5. who'[p] = [who[p] EXCEPT !.st = how] /\ \A r \in C!Proc : r # p => who'[r] = who[r]
  BY <1>1, <1>2
<1>6. open' = [e \in C!End |-> open[e] \ {p}]
  BY DEF C!Stop
<1> QED BY <1>1, <1>3, <1>4, <1>5, <1>6 DEF Record

LEMMA PlacedKept ==
    ASSUME program' = program, NEW p \in C!Proc, Placed(p), who'[p] = who[p]
    PROVE  Placed(p)'
BY DEF Placed, Last, HeardAt, SaidAt

\* One that goes on is where it should be.
LEMMA PlacedOn ==
    ASSUME C!ConstantsOK, Typed, program' = program, NEW p \in C!Proc, Placed(p),
           who[p].st = "runs", who'[p].st \in {"runs", "killed"},
           who[p].at <= Last(p), who'[p].at = who[p].at + 1,
           who'[p].said = who[p].said + (IF C!Call(p) = "say" THEN 1 ELSE 0),
           Len(who'[p].heard) = Len(who[p].heard) + (IF C!Call(p) = "hear" THEN 1 ELSE 0)
    PROVE  Placed(p)'
<1>1. program \in Programs /\ Last(p)' = Last(p) /\ Last(p) \in Nat
  BY CodeFacts DEF Typed, Last
<1>2. who[p].at \in 1 .. Last(p) /\ C!Call(p) = CallAt(p, who[p].at)
  BY <1>1, CallFacts DEF Placed
<1>3. /\ HeardAt(p, who[p].at + 1) = HeardAt(p, who[p].at) + (IF C!Call(p) = "hear" THEN 1 ELSE 0)
      /\ SaidAt(p, who[p].at + 1) = SaidAt(p, who[p].at) + (IF C!Call(p) = "say" THEN 1 ELSE 0)
  BY <1>1, <1>2, CallCounts
<1>4. who'[p].at \in 1 .. Last(p) + 1
  BY <1>1, <1>2
<1>5. HeardAt(p, who[p].at)' = HeardAt(p, who[p].at + 1) /\ SaidAt(p, who[p].at)' = SaidAt(p, who[p].at + 1)
  BY DEF HeardAt, SaidAt
<1> QED BY <1>1, <1>3, <1>4, <1>5 DEF Placed

\* One that ends is where it was.
LEMMA PlacedStopped ==
    ASSUME program' = program, NEW p \in C!Proc, Placed(p),
           who'[p].at = who[p].at, who'[p].said = who[p].said, who'[p].heard = who[p].heard,
           \/ who'[p].st \in {"killed", "runs"}
           \/ who'[p].st = "done" /\ who[p].at = Last(p) + 1
           \/ who'[p].st = "failed" /\ (who[p].at = 1 \/ (program = "sock_c_u" /\ p \in Servers))
    PROVE  Placed(p)'
BY DEF Placed, Last, HeardAt, SaidAt

\* Whoever listens has a partner and an end.
LEMMA Listener ==
    ASSUME C!ConstantsOK, Inv, NEW p \in C!Proc, Listens(p)
    PROVE  /\ C!Partner(p) \in C!Proc /\ who[p].sock \in C!End
           /\ program = "sock_c_u" => p \in Servers /\ C!Partner(p) \in Clients
                                      /\ who[p].sock = <<C!Partner(p), "server">>
           /\ program # "sock_c_u" /\ p = Parent => C!Partner(p) = Child /\ who[p].sock = <<Child, "server">>
           /\ program # "sock_c_u" /\ p = Child => C!Partner(p) = Parent /\ who[p].sock = <<Child, "client">>
<1>1. /\ Parent \in Servers /\ Child \in Clients /\ Child \notin Servers
      /\ Parent \in C!Proc /\ Child \in C!Proc /\ \A c \in Clients : c \in C!Proc
  BY DEF C!ConstantsOK, C!Proc
<1>2. CASE program = "sock_c_u"
  <2>1. p \in Servers /\ who[p].sock # C!NoEnd
    BY <1>2 DEF Listens
  <2>2. who[p].at \in Nat
    BY DEF Inv, Typed, Record
  <2>3. PICK c \in Clients : who[p].sock = <<c, "server">>
    BY <1>2, <2>1, <2>2 DEF Inv, Linked
  <2>4. C!Partner(p) = c
    BY <2>1, <2>3 DEF C!Partner
  <2> QED BY <1>1, <1>2, <2>1, <2>3, <2>4 DEF C!End
<1>3. CASE program # "sock_c_u"
  <2>1. p \in {Parent, Child}
    BY <1>3 DEF Listens
  <2>2. who[Parent].sock = <<Child, "server">> /\ who[Child].sock = <<Child, "client">>
    BY <1>3 DEF Inv, Paired
  <2>3. CASE p = Parent
    BY <1>1, <1>3, <2>2, <2>3 DEF C!Partner, C!End
  <2>4. CASE p = Child
    BY <1>1, <1>3, <2>2, <2>4 DEF C!Partner, C!End
  <2> QED BY <2>1, <2>3, <2>4, <1>1, <1>3
<1> QED BY <1>2, <1>3

\* A step in which nobody sends, prints or finds a partner.
LEMMA QuietLinks ==
    ASSUME Inv, program' = program, box' = box, backlog' = backlog,
           \A p \in C!Proc : who'[p].sock = who[p].sock,
           program = "sock_c_u" =>
               /\ \A c \in Clients : who'[c].at \in Nat /\ (who'[c].at = 1 <=> who[c].at = 1)
                                     /\ (who'[c].at > 1 <=> who[c].at > 1)
               /\ \A s \in Servers : who'[s].at \in Nat /\ (who'[s].at <= 3 <=> who[s].at <= 3)
    PROVE  Linked'
<1> SUFFICES ASSUME program = "sock_c_u" PROVE Linked'
  BY DEF Linked
<1>1. \A s \in Servers : backlog[s] \in Seq(Clients)
  BY DEF Inv, Typed
<1>2. \A c \in Clients : c \in C!Proc
  BY DEF C!Proc
<1>3. \A s \in Servers : s \in C!Proc
  BY DEF C!Proc
<1>4. ASSUME NEW c \in Clients, Nowhere(c) PROVE Nowhere(c)'
  BY <1>2, <1>3, <1>4 DEF Nowhere
<1>5. ASSUME NEW s \in Servers, NEW k \in 1 .. Len(backlog[s]), Waits(s, k) PROVE Waits(s, k)'
  <2>1. backlog[s][k] \in Clients
    BY <1>1
  <2> QED BY <1>2, <1>3, <1>5, <2>1 DEF Waits
<1>6. \A s \in Servers : who'[s].at > 3 <=> who[s].at > 3
  BY <1>3 DEF Inv, Typed, Record
<1> QED BY <1>2, <1>3, <1>4, <1>5, <1>6 DEF Inv, Linked

LEMMA QuietStreams ==
    ASSUME C!ConstantsOK, Inv, program' = program, box' = box, backlog' = backlog,
           \A p \in C!Proc : /\ who'[p].sock = who[p].sock /\ who'[p].said = who[p].said
                             /\ who'[p].heard = who[p].heard
                             /\ who[p].st = "killed" => who'[p].st = "killed"
    PROVE  Streams'
<1>1. \A s \in Servers : backlog[s] \in Seq(Clients)
  BY DEF Inv, Typed
<1>2. \A c \in Clients : c \in C!Proc
  BY DEF C!Proc
<1>3. \A s \in Servers : s \in C!Proc
  BY DEF C!Proc
<1>4. ASSUME NEW p \in C!Proc, Listens(p)' PROVE Stream(p)'
  <2>1. Listens(p) /\ Stream(p)
    BY <1>4 DEF Inv, Streams, Listens
  <2>2. C!Partner(p)' = C!Partner(p)
    BY DEF C!Partner
  <2>3. C!Partner(p) \in C!Proc
    BY <2>1, Listener
  <2> QED BY <2>1, <2>2, <2>3 DEF Stream, Follows
<1>5. ASSUME program = "sock_c_u", NEW s \in Servers, NEW k \in 1 .. Len(backlog[s]), NEW c, c = backlog[s][k]
      PROVE  Follows(c, box'[<<c, "server">>], 0) /\ Len(box'[<<c, "server">>]) = who'[c].said
  <2>1. c \in Clients
    BY <1>1, <1>5
  <2> QED BY <1>2, <1>5, <2>1 DEF Inv, Streams
<1> QED BY <1>4, <1>5 DEF Streams, Follows

-----------------------------------------------------------------------------
(***************************************************************************)
(* The invariant holds at the start and is kept by every step.             *)
(***************************************************************************)

LEMMA InvInit == ASSUME C!ConstantsOK, C!Init PROVE Inv
<1>1. /\ Parent \in Servers /\ Child \in Clients /\ Child \notin Servers /\ Parent # Child
      /\ Parent \in C!Proc /\ Child \in C!Proc /\ Rounds \in Nat \ {0}
      /\ Programs \subseteq {"socketpair", "spair", "sock_c_u", "exchange"} /\ NoOne \notin C!Proc
      /\ NoOne \notin Clients
  BY DEF C!ConstantsOK, C!Proc
<1>2. /\ program \in Programs /\ name = NoOne /\ box = [e \in C!End |-> << >>]
      /\ backlog = [s \in Servers |-> << >>]
      /\ open = [e \in C!End |-> IF program \in {"socketpair", "spair"} /\ e[1] = Child
                               THEN {Parent} ELSE {}]
  BY DEF C!Init
<1>3. ASSUME NEW p \in C!Proc
      PROVE  /\ who[p] \in Record
             /\ who[p].at = 1 /\ who[p].said = 0 /\ who[p].heard = << >>
             /\ who[p].st = (IF program # "sock_c_u" /\ p = Parent THEN "runs" ELSE "no")
             /\ who[p].sock = (IF program = "sock_c_u" THEN C!NoEnd
                               ELSE IF p = Parent THEN <<Child, "server">> ELSE <<Child, "client">>)
  <2>1. C!NoEnd \in C!End \cup {C!NoEnd} /\ <<Child, "server">> \in C!End /\ <<Child, "client">> \in C!End
    BY <1>1 DEF C!End
  <2>2. << >> \in Seq(Message)
    OBVIOUS
  <2> QED BY <2>1, <2>2 DEF C!Init, Record, Status
<1>4. who \in [C!Proc -> Record]
  BY <1>3 DEF C!Init
<1>5. Typed
  BY <1>1, <1>2, <1>4 DEF Typed
<1>6. ASSUME NEW p \in C!Proc PROVE Placed(p)
  <2>1. Last(p) \in Nat
    BY <1>2, CodeFacts
  <2>2. HeardAt(p, 1) = 0 /\ SaidAt(p, 1) = 0
    BY <1>2, <2>1, CountBounds
  <2> QED BY <1>3, <2>1, <2>2 DEF Placed
<1>7. Paired
  BY <1>1, <1>3 DEF Paired
<1>8. Linked
  <2> SUFFICES ASSUME program = "sock_c_u" PROVE Linked
    BY DEF Linked
  <2>1. \A s \in Servers : s \in C!Proc /\ who[s].at = 1 /\ who[s].sock = C!NoEnd /\ backlog[s] = << >>
    BY <1>2, <1>3 DEF C!Proc
  <2>2. \A c \in Clients : /\ c \in C!Proc /\ who[c].at = 1 /\ who[c].sock = C!NoEnd
                           /\ box[<<c, "server">>] = << >> /\ C!NoEnd # <<c, "server">>
    BY <1>1, <1>2, <1>3 DEF C!Proc, C!End, C!NoEnd
  <2>3. ASSUME NEW c \in Clients PROVE Nowhere(c)
    BY <2>1, <2>2 DEF Nowhere
  <2>4. \A s \in Servers : \A k \in 1 .. Len(backlog[s]) : Waits(s, k)
    BY <2>1
  <2>5. ASSUME NEW c \in Clients PROVE ~(who[c].at > 1)
    <3>1. who[c].at = 1
      BY <2>2
    <3> QED BY <3>1
  <2>6. ASSUME NEW s \in Servers PROVE who[s].at <= 3 /\ ~(who[s].at > 3) /\ who[s].sock = C!NoEnd
    <3>1. who[s].at = 1 /\ who[s].sock = C!NoEnd
      BY <2>1
    <3> QED BY <3>1
  <2> QED BY <2>3, <2>4, <2>5, <2>6 DEF Linked
<1>9. Ends
  <2>1. <<Child, "server">> \in C!End /\ <<Child, "client">> \in C!End
    BY <1>1 DEF C!End
  <2>2. program \in {"socketpair", "spair"} =>
          open[<<Child, "server">>] = {Parent} /\ open[<<Child, "client">>] = {Parent}
    BY <1>2, <2>1
  <2>3. \A c \in Clients : c \in C!Proc
    BY DEF C!Proc
  <2> QED BY <1>1, <1>3, <2>2, <2>3 DEF Ends
<1>10. Streams
  <2>1. ASSUME NEW p \in C!Proc, Listens(p) PROVE Stream(p)
    <3>1. program # "sock_c_u" /\ p \in {Parent, Child}
      BY <1>3, <2>1 DEF Listens
    <3>2. who[p].sock \in C!End /\ C!Partner(p) \in C!Proc
      BY <1>1, <1>3, <3>1 DEF C!Partner, C!End
    <3>3. who[p].heard = << >> /\ box[who[p].sock] = << >> /\ who[C!Partner(p)].said = 0
      BY <1>2, <1>3, <3>2
    <3> QED BY <3>3 DEF Stream, Follows
  <2> QED BY <1>2, <2>1 DEF Streams
<1>11. Named
  <2>1. \A s \in Servers : s \in C!Proc
    BY DEF C!Proc
  <2> QED BY <1>3, <2>1 DEF Named
<1> QED BY <1>5, <1>6, <1>7, <1>8, <1>9, <1>10, <1>11 DEF Inv

\* The name stays, and nobody comes to accept.
LEMMA NamedKept ==
    ASSUME Inv, program' = program, name' = name,
           program = "sock_c_u" =>
               \A s \in Servers :
                   /\ who'[s].st = "runs" /\ who'[s].at \in 3 .. Rounds + 5 =>
                        who[s].st = "runs" /\ who[s].at \in 3 .. Rounds + 5
                   /\ who'[s].st = "no" => who[s].st = "no"
    PROVE  Named'
BY DEF Inv, Named, Alone

\* A process goes on, with a call that concerns nobody else's input or links.
LEMMA StepKeeps ==
    ASSUME C!ConstantsOK, Inv, NEW p \in C!Proc, who[p].st = "runs", C!Step(p),
           C!Call(p) \notin {"exit", "say", "hear", "accept", "connect"},
           C!Call(p) = "fork" => program = "spair",
           program' = program, box' = box, backlog' = backlog,
           open' \in [C!End -> SUBSET C!Proc], name' \in Servers \cup {NoOne}, Ends',
           (name' = name /\ C!Call(p) # "bind") \/ Named'
    PROVE  Inv'
<1>1. Typed /\ Placed(p) /\ program \in Programs
  BY DEF Inv, Typed
<1>2. /\ who' \in [C!Proc -> Record]
      /\ who'[p].at = who[p].at + 1 /\ who'[p].st = who[p].st
      /\ \A r \in C!Proc : /\ r # p => who'[r] = who[r]
                           /\ who'[r].said = who[r].said /\ who'[r].heard = who[r].heard
                           /\ who'[r].sock = who[r].sock /\ who'[r].st = who[r].st
  BY <1>1, StepFacts
<1>3. Last(p) \in Nat /\ who[p].at \in 1 .. Last(p) + 1 /\ C!Call(p) = CallAt(p, who[p].at)
  BY <1>1, CodeFacts, CallFacts DEF Placed
<1>4. who[p].at <= Last(p)
  BY <1>1, <1>3, WhereCalls
<1>5. Len(who[p].heard) \in Nat /\ who[p].said \in Nat
  BY <1>1 DEF Typed, Record
<1>6. Placed(p)'
  <2>1. /\ who'[p].said = who[p].said + (IF C!Call(p) = "say" THEN 1 ELSE 0)
        /\ Len(who'[p].heard) = Len(who[p].heard) + (IF C!Call(p) = "hear" THEN 1 ELSE 0)
    <3>1. who'[p].said = who[p].said /\ who'[p].heard = who[p].heard
      BY <1>2
    <3>2. C!Call(p) # "say" /\ C!Call(p) # "hear"
      OBVIOUS
    <3> QED BY <1>5, <3>1, <3>2
  <2> QED BY <1>1, <1>2, <1>4, <2>1, PlacedOn
<1>7. \A r \in C!Proc : Placed(r)'
  BY <1>2, <1>6, PlacedKept DEF Inv
<1>8. Typed'
  BY <1>1, <1>2 DEF Typed
<1>9. /\ Parent \in Servers /\ Child \in Clients /\ Child \notin Servers /\ Parent # Child
      /\ Parent \in C!Proc /\ Child \in C!Proc /\ Rounds \in Nat \ {0}
      /\ program \in {"socketpair", "spair", "sock_c_u", "exchange"}
      /\ \A s \in Servers : s \in C!Proc /\ s \notin Clients
      /\ \A c \in Clients : c \in C!Proc /\ c \notin Servers
  BY <1>1 DEF C!ConstantsOK, C!Proc
<1>10. Paired'
  <2>1. program # "sock_c_u" /\ p = Parent /\ who[p].at = 1 => C!Call(p) = "fork"
    BY <1>3, <1>9 DEF CallAt, PairParentCall, SpairParentCall, ExchangeParentCall
  <2> SUFFICES ASSUME program # "sock_c_u" PROVE Paired'
    BY DEF Paired
  <2>2. who'[Parent].at = 1 => who[Parent].at = 1
    BY <1>2, <1>3, <1>9
  <2>3. program # "spair" /\ who'[Parent].at > 1 => who[Parent].at > 1
    <3>1. who[Parent].at \in Nat \ {0}
      BY <1>9 DEF Inv, Placed
    <3> QED BY <1>2, <1>3, <1>9, <2>1, <3>1
  <2> QED BY <1>2, <1>9, <2>2, <2>3 DEF Inv, Paired
<1>11. program = "sock_c_u" /\ p \in Clients => who[p].at > 1
  <2>1. program = "sock_c_u" /\ p \in Clients /\ who[p].at = 1 => C!Call(p) = "connect"
    BY <1>3, <1>9 DEF CallAt, CltCall
  <2> QED BY <1>3, <2>1
<1>12. program = "sock_c_u" /\ p \in Servers => who[p].at # 3
  <2>1. program = "sock_c_u" /\ p \in Servers /\ who[p].at = 3 => C!Call(p) = "accept"
    BY <1>3, <1>9 DEF CallAt, SrvCall
  <2> QED BY <2>1
<1>13. \A r \in C!Proc : who[r].at \in Nat /\ who'[r].at \in Nat
  BY <1>1, <1>2 DEF Typed, Record
<1>14. Linked'
  <2>1. program = "sock_c_u" =>
               /\ \A c \in Clients : who'[c].at \in Nat /\ (who'[c].at = 1 <=> who[c].at = 1)
                                     /\ (who'[c].at > 1 <=> who[c].at > 1)
               /\ \A s \in Servers : who'[s].at \in Nat /\ (who'[s].at <= 3 <=> who[s].at <= 3)
    BY <1>2, <1>3, <1>9, <1>11, <1>12, <1>13
  <2> QED BY <1>2, <2>1, QuietLinks
<1>15. Streams'
  BY <1>2, QuietStreams
<1>16. Named'
  <2>1. CASE name' = name /\ C!Call(p) # "bind"
    <3>1. program = "sock_c_u" /\ p \in Servers /\ who[p].at = 2 => C!Call(p) = "bind"
      BY <1>3, <1>9 DEF CallAt, SrvCall
    <3>2. program = "sock_c_u" =>
            \A s \in Servers :
              /\ who'[s].st = "runs" /\ who'[s].at \in 3 .. Rounds + 5 =>
                   who[s].st = "runs" /\ who[s].at \in 3 .. Rounds + 5
              /\ who'[s].st = "no" => who[s].st = "no"
      BY <1>2, <1>3, <1>9, <1>12, <2>1, <3>1
    <3> QED BY <2>1, <3>2, NamedKept
  <2> QED BY <2>1
<1> QED BY <1>7, <1>8, <1>10, <1>14, <1>15, <1>16 DEF Inv

\* A process ends.
LEMMA StopKeeps ==
    ASSUME C!ConstantsOK, Inv, NEW p \in C!Proc, who[p].st = "runs",
           NEW how, C!Stop(p, how),
           \/ how = "killed"
           \/ how = "done" /\ who[p].at = Last(p) + 1
           \/ how = "failed" /\ who[p].at = 1 /\ (program = "sock_c_u" \/ p \in Servers)
           \/ how = "failed" /\ program = "sock_c_u" /\ p \in Servers,
           name' # name => p \in Servers /\ name' = NoOne
    PROVE  Inv'
<1>1. Typed /\ Placed(p) /\ program \in Programs
  BY DEF Inv, Typed
<1>2. /\ who' \in [C!Proc -> Record] /\ open' \in [C!End -> SUBSET C!Proc]
      /\ who'[p].st = how /\ who'[p].at = who[p].at
      /\ \A r \in C!Proc : /\ r # p => who'[r] = who[r]
                           /\ who'[r].said = who[r].said /\ who'[r].heard = who[r].heard
                           /\ who'[r].sock = who[r].sock /\ who'[r].at = who[r].at
      /\ \A e \in C!End : open'[e] = open[e] \ {p}
  BY <1>1, StopFacts DEF Status
<1>3. program' = program /\ box' = box /\ backlog' = backlog
  BY DEF C!Stop
<1>4. Placed(p)'
  BY <1>1, <1>2, <1>3, PlacedStopped
<1>5. \A r \in C!Proc : Placed(r)'
  BY <1>2, <1>3, <1>4, PlacedKept DEF Inv
<1>6. Typed'
  BY <1>1, <1>2, <1>3 DEF Typed
<1>7. /\ Parent \in Servers /\ Child \in Clients /\ Child \notin Servers /\ Parent # Child
      /\ Parent \in C!Proc /\ Child \in C!Proc
      /\ \A s \in Servers : s \in C!Proc /\ s \notin Clients
      /\ \A c \in Clients : c \in C!Proc /\ c \notin Servers
      /\ <<Child, "client">> \in C!End /\ <<Child, "server">> \in C!End
      /\ \A c \in Clients : <<c, "client">> \in C!End
  BY DEF C!ConstantsOK, C!Proc, C!End
<1>8. Paired'
  BY <1>2, <1>3, <1>7 DEF Inv, Paired
<1>9. \A r \in C!Proc : who[r].at \in Nat
  BY <1>1 DEF Typed, Record
<1>10. Linked'
  BY <1>2, <1>3, <1>7, <1>9, QuietLinks
<1>11. Streams'
  BY <1>2, <1>3, QuietStreams
<1>12. Ends'
  <2>1. \A r \in C!Proc : who'[r].st = "runs" =>
          r # p /\ who[r].st = "runs" /\ \A e \in C!End : r \in open[e] => r \in open'[e]
    BY <1>2
  <2> QED BY <1>2, <1>3, <1>7, <2>1 DEF Inv, Ends
<1>13. Named'
  <2>1. \A s \in Servers : s # p => (Alone(s)' => p \notin Servers)
    BY <1>2 DEF Alone
  <2>2. CASE ~(name' # name)
    <3>1. \A s \in Servers : /\ who'[s].st = "runs" => who[s].st = "runs"
                             /\ who'[s].at = who[s].at
                             /\ who'[s].st = "no" => who[s].st = "no"
      BY <1>2, <1>7
    <3> QED BY <1>3, <2>2, <3>1, NamedKept
  <2>3. CASE p \in Servers
    BY <1>2, <2>1, <2>3 DEF Named
  <2> QED BY <2>2, <2>3
<1> QED BY <1>5, <1>6, <1>8, <1>10, <1>11, <1>12, <1>13 DEF Inv

LEMMA AtFacts ==
    ASSUME C!ConstantsOK, Inv, NEW p \in C!Proc, NEW c, C!At(p, c)
    PROVE  /\ who[p].st = "runs" /\ C!Call(p) = c /\ CallAt(p, who[p].at) = c
           /\ Last(p) \in Nat /\ who[p].at \in 1 .. Last(p) + 1 /\ program \in Programs
           /\ program # "sock_c_u" => p \in {Parent, Child}
<1>1. program \in Programs /\ Placed(p)
  BY DEF Inv, Typed
<1>2. who[p].st = "runs" /\ C!Call(p) = c
  BY DEF C!At
<1> QED BY <1>1, <1>2, CallFacts, CodeFacts DEF Placed, Inv, Paired

LEMMA Names ==
    ASSUME C!ConstantsOK
    PROVE  /\ Parent \in Servers /\ Child \in Clients /\ Child \notin Servers /\ Parent # Child
           /\ Parent \notin Clients /\ Parent \in C!Proc /\ Child \in C!Proc /\ Rounds \in Nat \ {0}
           /\ \A s \in Servers : s \in C!Proc /\ s \notin Clients /\ s # NoOne
           /\ \A c \in Clients : /\ c \in C!Proc /\ c \notin Servers /\ c # NoOne
                                 /\ <<c, "client">> \in C!End /\ <<c, "server">> \in C!End
           /\ \A p \in C!Proc : p \notin Servers => p \in Clients
BY DEF C!ConstantsOK, C!Proc, C!End

\* Nobody begins, the ends stay open.
LEMMA EndsKept ==
    ASSUME C!ConstantsOK, Inv, program' = program,
           \A p \in C!Proc : /\ who'[p].st = "runs" => who[p].st = "runs"
                             /\ who'[p].at \in Nat /\ who[p].at <= who'[p].at
                             /\ \A e \in C!End : p \in open[e] => p \in open'[e],
           program = "sock_c_u" => \A c \in Clients : who'[c].st = "runs" /\ who[c].at = 1 => who'[c].at = 1
    PROVE  Ends'
<1>1. \A p \in C!Proc : who[p].at \in Nat /\ who[p].at >= 1
  BY DEF Inv, Placed, Typed, Record
<1>2. CASE program = "sock_c_u"
  <2>1. ASSUME NEW c \in Clients, who'[c].st = "runs", who'[c].at \in 2 .. Rounds + 2
        PROVE  c \in open'[<<c, "client">>]
    <3>1. who[c].at \in 2 .. Rounds + 2 /\ who[c].st = "runs"
      <4>1. c \in C!Proc
        BY Names
      <4>3. who'[c].at # 1
        BY <2>1, Names
      <4>4. who[c].at # 1
        BY <1>2, <2>1, <4>3
      <4>5. who[c].st = "runs" /\ who[c].at <= who'[c].at
        BY <2>1, <4>1
      <4>2. who[c].at \in Nat /\ who[c].at >= 1 /\ Rounds \in Nat
        BY <1>1, <4>1, Names
      <4> QED BY <2>1, <4>2, <4>4, <4>5
    <3> QED BY <1>2, <2>1, <3>1, Names DEF Inv, Ends
  <2> QED BY <1>2, <2>1 DEF Ends
<1>3. CASE program = "socketpair"
  <2>1. \A p \in {Parent, Child} :
          /\ who'[p].st = "runs" => who[p].st = "runs"
          /\ who'[p].at <= 2 * Rounds + 3 => who[p].at <= 2 * Rounds + 3
          /\ who'[p].at <= 2 * Rounds + 2 => who[p].at <= 2 * Rounds + 2
          /\ who'[p].at = 1 => who[p].at = 1
    BY <1>1, Names
  <2> QED BY <1>3, <2>1, Names DEF Inv, Ends
<1>4. CASE program = "spair"
  BY <1>4, Names DEF Inv, Ends
<1>5. CASE program \notin {"sock_c_u", "socketpair", "spair"}
  BY <1>5 DEF Ends
<1> QED BY <1>2, <1>3, <1>4, <1>5

LEMMA ExitKeeps == ASSUME C!ConstantsOK, Inv, NEW p \in C!Proc, C!Exit(p) PROVE Inv'
<1>1. C!At(p, "exit") /\ C!Stop(p, "done") /\ name' = name
  BY DEF C!Exit
<1>2. who[p].st = "runs" /\ who[p].at = Last(p) + 1
  BY <1>1, AtFacts, WhereCalls
<1> QED BY <1>1, <1>2, StopKeeps

LEMMA KillKeeps == ASSUME C!ConstantsOK, Inv, NEW p \in C!Proc, C!Kill(p) PROVE Inv'
<1>1. who[p].st = "runs" /\ C!Stop(p, "killed") /\ name' = name
  BY DEF C!Kill
<1> QED BY <1>1, StopKeeps

\* A step after which all is open that was.
LEMMA SilentKeeps ==
    ASSUME C!ConstantsOK, Inv, NEW p \in C!Proc, NEW c, C!At(p, c), C!Step(p),
           c \notin {"exit", "say", "hear", "accept", "connect"},
           c = "fork" => program = "spair",
           program' = program, box' = box, backlog' = backlog, open' = open,
           name' \in Servers \cup {NoOne},
           (name' = name /\ c # "bind") \/ Named'
    PROVE  Inv'
<1>1. /\ who[p].st = "runs" /\ C!Call(p) = c /\ CallAt(p, who[p].at) = c
      /\ Last(p) \in Nat /\ who[p].at \in 1 .. Last(p) + 1 /\ program \in Programs
  BY AtFacts
<1>2. Typed
  BY DEF Inv
<1>3. /\ who' \in [C!Proc -> Record]
      /\ who'[p].at = who[p].at + 1 /\ who'[p].st = who[p].st
      /\ \A r \in C!Proc : /\ r # p => who'[r] = who[r]
                           /\ who'[r].st = who[r].st
  BY <1>2, StepFacts
<1>4. \A r \in C!Proc : who[r].at \in Nat
  BY <1>2 DEF Typed, Record
<1>5. program = "sock_c_u" /\ p \in Clients => who[p].at # 1
  BY <1>1, Names DEF CallAt, CltCall
<1>6. Ends'
  <2>1. \A r \in C!Proc : who'[r].at \in Nat /\ who[r].at <= who'[r].at
    BY <1>3, <1>4
  <2> QED BY <1>3, <1>5, <2>1, Names, EndsKept
<1>7. open' \in [C!End -> SUBSET C!Proc]
  BY <1>2 DEF Typed
<1> QED BY <1>1, <1>6, <1>7, StepKeeps

LEMMA WaitChildKeeps == ASSUME C!ConstantsOK, Inv, NEW p \in C!Proc, C!WaitChild(p) PROVE Inv'
<1>1. C!At(p, "wait") /\ C!Step(p) /\ UNCHANGED <<program, C!kernel>>
  BY DEF C!WaitChild
<1>2. name \in Servers \cup {NoOne}
  BY DEF Inv, Typed
<1> QED BY <1>1, <1>2, SilentKeeps DEF C!kernel

LEMMA PrintNoteKeeps == ASSUME C!ConstantsOK, Inv, NEW p \in C!Proc, C!PrintNote(p) PROVE Inv'
<1>1. C!At(p, "print") /\ C!Step(p) /\ UNCHANGED <<program, C!kernel>>
  BY DEF C!PrintNote
<1>2. name \in Servers \cup {NoOne}
  BY DEF Inv, Typed
<1> QED BY <1>1, <1>2, SilentKeeps DEF C!kernel

\* A server takes the name, or takes it away.
LEMMA NameMoves ==
    ASSUME C!ConstantsOK, Inv, NEW p \in C!Proc, p \in Servers, who[p].st = "runs", program' = program,
           C!Step(p),
           (name' = p /\ who[p].at = 2) \/ who[p].at \notin 2 .. Rounds + 4
    PROVE  Named'
<1>1. /\ who'[p].at = who[p].at + 1 /\ who'[p].st = "runs"
      /\ \A r \in C!Proc : r # p => who'[r] = who[r]
  BY StepFacts DEF Inv
<1>2. \A s \in Servers : Alone(s)' => s = p
  BY <1>1, Names DEF Alone
<1>3. who'[p].at \in 3 .. Rounds + 5 => name' = p
  <2>1. who[p].at \in Nat /\ Rounds \in Nat
    BY Names DEF Inv, Typed, Record
  <2> QED BY <1>1, <2>1
<1> QED BY <1>2, <1>3 DEF Named

LEMMA UnlinkKeeps == ASSUME C!ConstantsOK, Inv, NEW p \in C!Proc, C!Unlink(p) PROVE Inv'
<1>1. C!At(p, "unlink") /\ C!Step(p) /\ name' = NoOne /\ UNCHANGED <<program, box, open, backlog>>
  BY DEF C!Unlink
<1>2. who[p].st = "runs" /\ p \in Servers /\ who[p].at = 1
  BY <1>1, AtFacts, WhereCalls
<1>3. Named'
  BY <1>1, <1>2, NameMoves
<1> QED BY <1>1, <1>3, SilentKeeps

LEMMA BindKeeps == ASSUME C!ConstantsOK, Inv, NEW p \in C!Proc, C!Bind(p) PROVE Inv'
<1>1. C!At(p, "bind")
  BY DEF C!Bind
<1>2. who[p].st = "runs" /\ p \in Servers /\ who[p].at = 2 /\ program = "sock_c_u"
  BY <1>1, AtFacts, WhereCalls
<1>3. CASE name' = p /\ C!Step(p) /\ UNCHANGED <<program, box, open, backlog>>
  <2>1. Named'
    BY <1>2, <1>3, NameMoves
  <2> QED BY <1>1, <1>2, <1>3, <2>1, SilentKeeps
<1>4. CASE name' = NoOne /\ C!Stop(p, "failed")
  BY <1>2, <1>4, StopKeeps
<1> QED BY <1>3, <1>4 DEF C!Bind

LEMMA AcceptFailsKeeps == ASSUME C!ConstantsOK, Inv, NEW p \in C!Proc, C!AcceptFails(p) PROVE Inv'
<1>1. C!At(p, "accept") /\ name' = NoOne /\ C!Stop(p, "failed")
  BY DEF C!AcceptFails
<1>2. who[p].st = "runs" /\ p \in Servers /\ program = "sock_c_u"
  BY <1>1, AtFacts, WhereCalls
<1> QED BY <1>1, <1>2, StopKeeps

LEMMA ForkKeeps == ASSUME C!ConstantsOK, Inv, NEW p \in C!Proc, C!Fork(p) PROVE Inv'
<1>1. C!At(p, "fork")
  BY DEF C!Fork
<1>2. who[p].st = "runs" /\ p = Parent /\ who[p].at = 1 /\ program # "sock_c_u" /\ program \in Programs
  BY <1>1, AtFacts, WhereCalls, Names
<1>3. CASE program = "spair" /\ C!Step(p) /\ UNCHANGED <<program, C!kernel>>
  <2>1. name \in Servers \cup {NoOne}
    BY DEF Inv, Typed
  <2> QED BY <1>1, <1>3, <2>1, SilentKeeps DEF C!kernel
<1>4. CASE program # "spair" /\ C!Stop(p, "failed") /\ UNCHANGED name
  BY <1>2, <1>4, Names, StopKeeps
<1>5. CASE /\ who' = [who EXCEPT ![p].at = @ + 1, ![Child].st = "runs"]
           /\ open' = [e \in C!End |-> IF p \in open[e] THEN open[e] \cup {Child} ELSE open[e]]
           /\ UNCHANGED <<program, box, name, backlog>>
  <2>1. who \in [C!Proc -> Record] /\ open \in [C!End -> SUBSET C!Proc]
    BY DEF Inv, Typed
  <2>2. /\ who[Parent] \in Record /\ who[Child] \in Record /\ who[Parent].at = 1 /\ who[Parent].st = "runs"
        /\ who[Child].st = "no" /\ who[Child].at = 1
    BY <1>2, <2>1, Names DEF Inv, Paired, Placed
  <2>0. who' = [who EXCEPT ![Parent] = [who[Parent] EXCEPT !.at = 2],
                          ![Child] = [who[Child] EXCEPT !.st = "runs"]]
    <3>1. who' = [who EXCEPT ![Parent].at = @ + 1, ![Child].st = "runs"]
      BY <1>2, <1>5
    <3>2. who[Parent].at + 1 = 2 /\ Parent # Child
      BY <2>2, Names
    <3> QED BY <2>1, <3>1, <3>2, Names
  <2>3. /\ who'[Parent] = [who[Parent] EXCEPT !.at = 2] /\ who'[Child] = [who[Child] EXCEPT !.st = "runs"]
        /\ \A r \in C!Proc : r \notin {Parent, Child} => who'[r] = who[r]
        /\ DOMAIN who' = C!Proc /\ who' = [r \in C!Proc |-> who'[r]]
    BY <2>1, <2>0, Names
  <2>4. /\ who'[Parent] \in Record /\ who'[Child] \in Record
        /\ who'[Parent].at = 2 /\ who'[Parent].st = "runs"
        /\ who'[Parent].said = who[Parent].said /\ who'[Parent].heard = who[Parent].heard
        /\ who'[Parent].sock = who[Parent].sock
        /\ who'[Child].at = 1 /\ who'[Child].st = "runs"
        /\ who'[Child].said = who[Child].said /\ who'[Child].heard = who[Child].heard
        /\ who'[Child].sock = who[Child].sock
    BY <2>2, <2>3 DEF Record, Status
  <2>5. \A r \in C!Proc : who'[r] \in Record
    BY <2>1, <2>3, <2>4
  <2>6. who' \in [C!Proc -> Record]
    BY <2>3, <2>5
  <2>7. \A e \in C!End : /\ open'[e] \in SUBSET C!Proc /\ \A r \in C!Proc : r \in open[e] => r \in open'[e]
                         /\ Parent \in open[e] => Child \in open'[e]
    BY <1>2, <1>5, <2>1, Names
  <2>8. Typed'
    <3>1. open' \in [C!End -> SUBSET C!Proc]
      BY <1>5, <2>7
    <3> QED BY <1>5, <2>6, <3>1 DEF Inv, Typed
  <2>9. \A r \in C!Proc : Placed(r)'
    <3>1. Placed(Child)'
      BY <1>5, <2>2, <2>4, Names, PlacedStopped DEF Inv
    <3>2. Placed(Parent)'
      <4>1. C!Call(Parent) = "fork" /\ who[Parent].at <= Last(Parent)
        <5>1. Last(Parent) \in Nat /\ who[Parent].at \in 1 .. Last(Parent) + 1 /\ CallAt(Parent, who[Parent].at) = "fork"
          BY <1>1, <1>2, AtFacts
        <5>2. who[Parent].at # Last(Parent) + 1
          BY <1>2, <5>1, Names, WhereCalls
        <5> QED BY <1>1, <1>2, <5>1, <5>2 DEF C!At
      <4>2. who[Parent].said \in Nat /\ Len(who[Parent].heard) \in Nat
        BY <2>2 DEF Record
      <4>3. /\ who'[Parent].said = who[Parent].said + (IF C!Call(Parent) = "say" THEN 1 ELSE 0)
            /\ Len(who'[Parent].heard) = Len(who[Parent].heard) + (IF C!Call(Parent) = "hear" THEN 1 ELSE 0)
        BY <2>4, <4>1, <4>2
      <4>4. who'[Parent].at = who[Parent].at + 1
        BY <2>2, <2>4
      <4> QED BY <1>5, <2>2, <2>4, <4>1, <4>3, <4>4, Names, PlacedOn DEF Inv
    <3>3. ASSUME NEW r \in C!Proc, r \notin {Parent, Child} PROVE Placed(r)'
      BY <1>5, <2>3, <3>3, PlacedKept DEF Inv
    <3> QED BY <3>1, <3>2, <3>3
  <2>10. Paired'
    BY <1>2, <1>5, <2>3, <2>4, Names DEF Inv, Paired
  <2>11. \A r \in C!Proc : /\ who'[r].sock = who[r].sock /\ who'[r].said = who[r].said
                           /\ who'[r].heard = who[r].heard
                           /\ who[r].st = "killed" => who'[r].st = "killed"
    BY <2>2, <2>3, <2>4
  <2>12. Linked'
    BY <1>2, <1>5 DEF Linked
  <2>13. Streams'
    BY <1>5, <2>11, QuietStreams
  <2>14. Ends'
    BY <1>2, <1>5, <2>2, <2>3, <2>4, <2>7, Names DEF Inv, Ends
  <2>15. Named'
    BY <1>2, <1>5 DEF Named
  <2> QED BY <2>8, <2>9, <2>10, <2>12, <2>13, <2>14, <2>15 DEF Inv
<1> QED BY <1>3, <1>4, <1>5 DEF C!Fork

\* A process gives ends away: the other one with drop, its own with close and clean_up.
LEMMA GiveUpKeeps ==
    ASSUME C!ConstantsOK, Inv, NEW p \in C!Proc, NEW c \in {"drop", "close", "clean_up"}, C!At(p, c), C!Step(p),
           program' = program, box' = box, backlog' = backlog, open' \in [C!End -> SUBSET C!Proc],
           \A e \in C!End, r \in C!Proc : r \in open[e] =>
               r \in open'[e] \/ (r = p /\ (c = "drop" => e = C!Other(who[p].sock))),
           name' \in Servers \cup {NoOne},
           name' = name \/ Named'
    PROVE  Inv'
<1>1. /\ who[p].st = "runs" /\ C!Call(p) = c /\ CallAt(p, who[p].at) = c
      /\ Last(p) \in Nat /\ who[p].at \in 1 .. Last(p) + 1 /\ program \in Programs
      /\ program # "sock_c_u" => p \in {Parent, Child}
  BY AtFacts
<1>2. /\ who' \in [C!Proc -> Record]
      /\ who'[p].at = who[p].at + 1 /\ who'[p].st = who[p].st
      /\ \A r \in C!Proc : /\ r # p => who'[r] = who[r]
                           /\ who'[r].st = who[r].st
  BY StepFacts DEF Inv
<1>3. CASE program = "sock_c_u"
  <2>1. p \in Clients => who[p].at = Rounds + 2
    BY <1>1, <1>3, WhereCalls, Names
  <2>2. ASSUME NEW d \in Clients, who'[d].st = "runs", who'[d].at \in 2 .. Rounds + 2
        PROVE  d \in open'[<<d, "client">>]
    <3>1. d # p
      BY <1>2, <2>1, <2>2, Names
    <3>2. d \in open[<<d, "client">>]
      BY <1>2, <1>3, <2>2, <3>1, Names DEF Inv, Ends
    <3> QED BY <3>1, <3>2, Names
  <2>3. Ends'
    BY <1>3, <2>2 DEF Ends
  <2> QED BY <1>1, <2>3, StepKeeps
<1>4. CASE program = "socketpair"
  <2>1. /\ c = "drop" => who[p].at = (IF p \in Servers THEN 2 ELSE 1)
        /\ c = "close" => who[p].at = Last(p)
        /\ c # "clean_up"
    BY <1>1, <1>4, WhereCalls
  <2>2. Last(Parent) = 2 * Rounds + 3 /\ Last(Child) = 2 * Rounds + 2
    BY <1>4, Names DEF Last
  <2>3. /\ C!Other(<<Child, "server">>) = <<Child, "client">>
        /\ C!Other(<<Child, "client">>) = <<Child, "server">>
        /\ <<Child, "client">> # <<Child, "server">>
    BY DEF C!Other
  <2>4. /\ who[Parent].sock = <<Child, "server">> /\ who[Child].sock = <<Child, "client">>
    BY <1>4 DEF Inv, Paired
  <2>5. /\ who[Parent].st = "runs" /\ who[Parent].at <= 2 * Rounds + 3 => Parent \in open[<<Child, "server">>]
        /\ who[Parent].st = "runs" /\ who[Parent].at = 1 => Parent \in open[<<Child, "client">>]
        /\ who[Child].st = "runs" /\ who[Child].at <= 2 * Rounds + 2 => Child \in open[<<Child, "client">>]
    BY <1>4 DEF Inv, Ends
  <2>6. \A r \in C!Proc : who[r].at \in Nat /\ who[r].at >= 1
    BY DEF Inv, Placed, Typed, Record
  <2>7. CASE p = Parent
    <3>1. who'[Parent].at # 1
      BY <1>2, <2>6, <2>7
    <3>2. who'[Parent].at <= 2 * Rounds + 3 => c = "drop"
      BY <1>2, <2>1, <2>2, <2>6, <2>7, Names
    <3>3. who'[Parent].at <= 2 * Rounds + 3 => who[Parent].at <= 2 * Rounds + 3
      BY <1>2, <2>6, <2>7, Names
    <3>4. who'[Child] = who[Child] /\ Child # p
      BY <1>2, <2>7, Names
    <3>5. Child \in open[<<Child, "client">>] => Child \in open'[<<Child, "client">>]
      BY <3>4, Names
    <3>6. c = "drop" /\ Parent \in open[<<Child, "server">>] => Parent \in open'[<<Child, "server">>]
      BY <2>3, <2>4, <2>7, Names
    <3>7. Ends'
      BY <1>1, <1>4, <2>5, <2>7, <3>1, <3>2, <3>3, <3>4, <3>5, <3>6 DEF Ends
    <3> QED BY <1>1, <3>7, StepKeeps
  <2>8. CASE p = Child
    <3>1. who'[Child].at <= 2 * Rounds + 2 => c = "drop" /\ who[Child].at <= 2 * Rounds + 2
      BY <1>2, <2>1, <2>2, <2>6, <2>8, Names
    <3>2. who'[Parent] = who[Parent] /\ Parent # p
      BY <1>2, <2>8, Names
    <3>3. \A e \in C!End : Parent \in open[e] => Parent \in open'[e]
      BY <3>2, Names
    <3>4. c = "drop" /\ Child \in open[<<Child, "client">>] => Child \in open'[<<Child, "client">>]
      BY <2>3, <2>4, <2>8, Names
    <3>5. Ends'
      BY <1>1, <1>4, <2>5, <2>8, <3>1, <3>2, <3>3, <3>4, Names DEF Ends
    <3> QED BY <1>1, <3>5, StepKeeps
  <2> QED BY <1>1, <1>4, <2>7, <2>8
<1>5. CASE program \notin {"sock_c_u", "socketpair"}
  BY <1>1, <1>5, WhereCalls
<1> QED BY <1>3, <1>4, <1>5

LEMMA DropKeeps == ASSUME C!ConstantsOK, Inv, NEW p \in C!Proc, C!Drop(p) PROVE Inv'
<1>1. /\ C!At(p, "drop") /\ C!Step(p) /\ UNCHANGED <<program, box, name, backlog>>
      /\ open' = [open EXCEPT ![C!Other(who[p].sock)] = @ \ {p}]
  BY DEF C!Drop
<1>2. open \in [C!End -> SUBSET C!Proc] /\ name \in Servers \cup {NoOne}
  BY DEF Inv, Typed
<1>3. /\ open' \in [C!End -> SUBSET C!Proc]
      /\ \A e \in C!End, r \in C!Proc : r \in open[e] => r \in open'[e] \/ (r = p /\ e = C!Other(who[p].sock))
  <2> DEFINE o == C!Other(who[p].sock)
  <2>1. open' = [open EXCEPT ![o] = @ \ {p}]
    BY <1>1
  <2> HIDE DEF o
  <2>2. \A e \in C!End : open'[e] = IF e = o THEN open[e] \ {p} ELSE open[e]
    BY <1>2, <2>1
  <2>3. open' = [e \in C!End |-> open'[e]]
    BY <1>2, <2>1
  <2>4. \A e \in C!End : open'[e] \in SUBSET C!Proc
    BY <1>2, <2>2
  <2>5. \A e \in C!End, r \in C!Proc : r \in open[e] => r \in open'[e] \/ (r = p /\ e = o)
    BY <2>2
  <2>6. open' \in [C!End -> SUBSET C!Proc]
    BY <2>3, <2>4
  <2> QED BY <2>5, <2>6 DEF o
<1> QED BY <1>1, <1>2, <1>3, GiveUpKeeps

LEMMA CloseKeeps == ASSUME C!ConstantsOK, Inv, NEW p \in C!Proc, C!Close(p) PROVE Inv'
<1>1. /\ C!At(p, "close") /\ C!Step(p) /\ UNCHANGED <<program, box, name, backlog>>
      /\ open' = [open EXCEPT ![who[p].sock] = @ \ {p}]
  BY DEF C!Close
<1>2. open \in [C!End -> SUBSET C!Proc] /\ name \in Servers \cup {NoOne}
  BY DEF Inv, Typed
<1>3. /\ open' \in [C!End -> SUBSET C!Proc]
      /\ \A e \in C!End, r \in C!Proc : r \in open[e] => r \in open'[e] \/ r = p
  <2>1. \A e \in C!End : open'[e] = IF e = who[p].sock THEN open[e] \ {p} ELSE open[e]
    BY <1>1, <1>2
  <2>2. open' = [e \in C!End |-> open'[e]]
    BY <1>1, <1>2
  <2>3. \A e \in C!End : open'[e] \in SUBSET C!Proc
    BY <1>2, <2>1
  <2> QED BY <2>1, <2>2, <2>3
<1> QED BY <1>1, <1>2, <1>3, GiveUpKeeps

LEMMA CleanUpKeeps == ASSUME C!ConstantsOK, Inv, NEW p \in C!Proc, C!CleanUp(p) PROVE Inv'
<1>1. /\ C!At(p, "clean_up") /\ C!Step(p) /\ UNCHANGED <<program, box, backlog>> /\ name' = NoOne
      /\ open' = [e \in C!End |-> open[e] \ {p}]
  BY DEF C!CleanUp
<1>2. open \in [C!End -> SUBSET C!Proc]
  BY DEF Inv, Typed
<1>3. /\ open' \in [C!End -> SUBSET C!Proc]
      /\ \A e \in C!End, r \in C!Proc : r \in open[e] => r \in open'[e] \/ r = p
  BY <1>1, <1>2
<1>4. who[p].st = "runs" /\ p \in Servers /\ who[p].at = Rounds + 5
  BY <1>1, AtFacts, WhereCalls
<1>5. Named'
  <2>1. who[p].at \notin 2 .. Rounds + 4
    BY <1>4, Names
  <2> QED BY <1>1, <1>4, <2>1, NameMoves
<1> QED BY <1>1, <1>3, <1>5, GiveUpKeeps

LEMMA StartKeeps == ASSUME C!ConstantsOK, Inv, NEW p \in C!Proc, C!Start(p) PROVE Inv'
<1>1. /\ program = "sock_c_u" /\ who[p].st = "no" /\ who' = [who EXCEPT ![p].st = "runs"]
      /\ program' = program /\ box' = box /\ open' = open /\ name' = name /\ backlog' = backlog
  BY DEF C!Start, C!kernel
<1>2. who \in [C!Proc -> Record]
  BY DEF Inv, Typed
<1>3. /\ who[p] \in Record /\ [who[p] EXCEPT !.st = "runs"] \in Record
  BY <1>2 DEF Record, Status
<1>4. who' = [who EXCEPT ![p] = [who[p] EXCEPT !.st = "runs"]]
  BY <1>1
<1>5. /\ who'[p] = [who[p] EXCEPT !.st = "runs"] /\ \A r \in C!Proc : r # p => who'[r] = who[r]
      /\ who' \in [C!Proc -> Record]
  BY <1>2, <1>3, <1>4
<1>6. /\ who'[p].st = "runs" /\ who'[p].at = who[p].at
      /\ \A r \in C!Proc : /\ who'[r].said = who[r].said /\ who'[r].heard = who[r].heard
                           /\ who'[r].sock = who[r].sock /\ who'[r].at = who[r].at
                           /\ who[r].st = "killed" => who'[r].st = "killed"
                           /\ who'[r].st = "no" => who[r].st = "no"
  BY <1>1, <1>3, <1>5 DEF Record
<1>7. who[p].at = 1 /\ \A r \in C!Proc : who[r].at \in Nat
  BY <1>1, <1>2 DEF Inv, Placed, Record
<1>8. \A r \in C!Proc : Placed(r)'
  <2>1. Placed(p)'
    BY <1>1, <1>6, PlacedStopped DEF Inv
  <2> QED BY <1>1, <1>5, <2>1, PlacedKept DEF Inv
<1>9. Typed'
  BY <1>1, <1>5 DEF Inv, Typed
<1>10. Paired'
  BY <1>1 DEF Paired
<1>11. Linked'
  <2>1. /\ \A c \in Clients : who'[c].at \in Nat /\ who'[c].at = who[c].at
        /\ \A s \in Servers : who'[s].at \in Nat /\ who'[s].at = who[s].at
    BY <1>6, <1>7, Names
  <2> QED BY <1>1, <1>6, <2>1, QuietLinks
<1>12. Streams'
  BY <1>1, <1>6, QuietStreams
<1>13. Ends'
  BY <1>1, <1>5, <1>6, <1>7, Names DEF Inv, Ends
<1>14. Named'
  <2>1. \A s \in Servers : /\ who'[s].st = "runs" /\ who'[s].at \in 3 .. Rounds + 5 =>
                                who[s].st = "runs" /\ who[s].at \in 3 .. Rounds + 5
                           /\ who'[s].st = "no" => who[s].st = "no"
    BY <1>5, <1>6, <1>7, Names
  <2> QED BY <1>1, <2>1, NamedKept
<1> QED BY <1>8, <1>9, <1>10, <1>11, <1>12, <1>13, <1>14 DEF Inv

\* signal_exchange has no messages and no sockets.
LEMMA SignalKeeps == ASSUME C!ConstantsOK, Inv, NEW p \in C!Proc, C!Signal(p) PROVE Inv'
<1>1. C!At(p, "signal") /\ UNCHANGED <<program, box, name, backlog>>
  BY DEF C!Signal
<1>2. /\ who[p].st = "runs" /\ C!Call(p) = "signal" /\ program = "exchange"
      /\ Last(p) \in Nat /\ who[p].at <= Last(p) /\ p \in {Parent, Child}
  BY <1>1, AtFacts, WhereCalls
<1> DEFINE q == IF p = Parent THEN Child ELSE Parent
           on(r) == [who[r] EXCEPT !.at = who[r].at + 1]
<1>3. /\ p \in C!Proc /\ q \in C!Proc /\ q # p /\ who \in [C!Proc -> Record] /\ open \in [C!End -> SUBSET C!Proc]
  BY <1>2, Names DEF Inv, Typed
<1>4. \A r \in C!Proc : who[r] \in Record /\ who[r].at \in Nat
  BY <1>3 DEF Record
<1> HIDE DEF q
<1>5. /\ on(p) \in Record /\ on(q) \in Record /\ [who[q] EXCEPT !.st = "killed"] \in Record
      /\ on(p).at = who[p].at + 1 /\ on(p).st = who[p].st /\ on(p).said = who[p].said
      /\ on(p).heard = who[p].heard /\ on(p).sock = who[p].sock
      /\ on(q).at = who[q].at + 1 /\ on(q).st = who[q].st /\ on(q).said = who[q].said
      /\ on(q).heard = who[q].heard /\ on(q).sock = who[q].sock
  <2>1. who[p].at + 1 \in Nat /\ who[q].at + 1 \in Nat
    BY <1>3, <1>4
  <2> QED BY <1>3, <1>4, <2>1 DEF Record, Status
<1>6. /\ open' \in [C!End -> SUBSET C!Proc]
      /\ \/ who' = [who EXCEPT ![p] = on(p)]
         \/ who' = [who EXCEPT ![p] = on(p), ![q] = on(q)] /\ C!At(q, "pause")
         \/ who' = [who EXCEPT ![p] = on(p), ![q] = [who[q] EXCEPT !.st = "killed"]] /\ who[q].st = "runs"
  BY <1>3 DEF C!Signal, q
<1>7. /\ who' \in [C!Proc -> Record] /\ who'[p] = on(p)
      /\ \A r \in C!Proc : r \notin {p, q} => who'[r] = who[r]
      /\ \/ who'[q] = who[q]
         \/ who'[q] = on(q) /\ C!At(q, "pause")
         \/ who'[q] = [who[q] EXCEPT !.st = "killed"] /\ who[q].st = "runs"
  BY <1>3, <1>5, <1>6
<1> HIDE DEF on
<1>8. ASSUME NEW r \in C!Proc, who[r].st = "runs", C!Call(r) \in {"signal", "pause"}, who[r].at <= Last(r), who'[r] = on(r),
             on(r).at = who[r].at + 1, on(r).st = who[r].st, on(r).said = who[r].said, on(r).heard = who[r].heard
      PROVE  Placed(r)'
  <2>1. who[r].said \in Nat /\ Len(who[r].heard) \in Nat
    BY <1>4 DEF Record
  <2>2. /\ who'[r].said = who[r].said + (IF C!Call(r) = "say" THEN 1 ELSE 0)
        /\ Len(who'[r].heard) = Len(who[r].heard) + (IF C!Call(r) = "hear" THEN 1 ELSE 0)
    <3>1. who'[r].said = who[r].said /\ who'[r].heard = who[r].heard
      BY <1>8
    <3>2. C!Call(r) # "say" /\ C!Call(r) # "hear"
      BY <1>8
    <3> QED BY <2>1, <3>1, <3>2
  <2> QED BY <1>1, <1>8, <2>2, PlacedOn DEF Inv
<1>9. Placed(p)'
  BY <1>2, <1>5, <1>7, <1>8
<1>10. Placed(q)'
  <2>1. CASE who'[q] = who[q]
    BY <1>1, <1>3, <2>1, PlacedKept DEF Inv
  <2>2. CASE who'[q] = on(q) /\ C!At(q, "pause")
    <3>1. who[q].st = "runs" /\ C!Call(q) = "pause" /\ who[q].at <= Last(q)
      BY <1>3, <2>2, AtFacts, WhereCalls
    <3> QED BY <1>3, <1>5, <1>8, <2>2, <3>1
  <2>3. CASE who'[q] = [who[q] EXCEPT !.st = "killed"]
    <3>1. /\ who'[q].at = who[q].at /\ who'[q].said = who[q].said /\ who'[q].heard = who[q].heard
          /\ who'[q].st = "killed"
      BY <1>3, <1>4, <2>3 DEF Record
    <3> QED BY <1>1, <1>3, <3>1, PlacedStopped DEF Inv
  <2> QED BY <1>7, <2>1, <2>2, <2>3
<1>11. \A r \in C!Proc : Placed(r)'
  BY <1>1, <1>7, <1>9, <1>10, PlacedKept DEF Inv
<1>12. Typed'
  BY <1>1, <1>6, <1>7 DEF Inv, Typed
<1>13. Paired'
  <2>1. /\ who[Parent].st # "no" /\ who[Child].st # "failed" /\ Parent # Child
        /\ who[Parent].at = 1 => who[Child].st = "no"
        /\ who[Parent].at > 1 => who[Child].st # "no"
        /\ who[Parent].sock = <<Child, "server">> /\ who[Child].sock = <<Child, "client">>
        /\ \A r \in C!Proc \ {Parent, Child} : who[r].st = "no"
    BY <1>2, Names DEF Inv, Paired
  <2>2. (who[q].st # "no" /\ who[p].at > 1) \/ p = Child
    <3>1. p = Parent => who[p].at = 4
      BY <1>1, <1>2, AtFacts, WhereCalls, Names
    <3> QED BY <1>2, <2>1, <3>1 DEF q
  <2>3. \A r \in {p, q} : /\ who'[r].sock = who[r].sock /\ who'[r].at \in {who[r].at, who[r].at + 1}
                          /\ who'[r].st = who[r].st \/ (who'[r].st = "killed" /\ who[r].st = "runs")
    <3>1. /\ who'[p].sock = who[p].sock /\ who'[p].at = who[p].at + 1 /\ who'[p].st = who[p].st
      BY <1>5, <1>7
    <3>2. CASE who'[q] = on(q)
      BY <1>5, <3>1, <3>2
    <3>3. CASE who'[q] = [who[q] EXCEPT !.st = "killed"] /\ who[q].st = "runs"
      <4>1. who'[q].sock = who[q].sock /\ who'[q].at = who[q].at /\ who'[q].st = "killed"
        BY <1>3, <1>4, <3>3 DEF Record
      <4> QED BY <3>1, <3>3, <4>1
    <3> QED BY <1>7, <3>1, <3>2, <3>3
  <2>4. who[Parent].at \in Nat \ {0, 1} /\ who[Child].st # "no"
    <3>1. who[Parent].at \in Nat \ {0}
      BY <1>4, Names DEF Inv, Placed
    <3>2. who[Child].st # "no"
      BY <1>2, <2>1, <2>2 DEF q
    <3> QED BY <2>1, <3>1, <3>2
  <2>5. {p, q} = {Parent, Child}
    BY <1>2, <2>1 DEF q
  <2>6. who'[Parent].at # 1 /\ who'[Child].st # "no" /\ who'[Parent].st # "no" /\ who'[Child].st # "failed"
    BY <2>1, <2>3, <2>4, <2>5
  <2>7. \A r \in C!Proc \ {Parent, Child} : who'[r].st = "no"
    BY <1>7, <2>1, <2>5
  <2>8. who'[Parent].sock = <<Child, "server">> /\ who'[Child].sock = <<Child, "client">>
    BY <2>1, <2>3, <2>5
  <2> QED BY <1>1, <1>2, <2>6, <2>7, <2>8 DEF Paired
<1>14. Linked' /\ Ends' /\ Streams' /\ Named'
  BY <1>1, <1>2 DEF Linked, Ends, Streams, Named, Listens
<1> QED BY <1>11, <1>12, <1>13, <1>14 DEF Inv

-----------------------------------------------------------------------------
(***************************************************************************)
(* Messages.                                                               *)
(***************************************************************************)

LEMMA FollowsAppend ==
    ASSUME NEW q \in C!Proc, NEW b \in Seq(Message), NEW k \in Nat, Follows(q, b, k), NEW n \in Nat,
           n = k + Len(b) + 1
    PROVE  /\ Append(b, <<q, n>>) \in Seq(Message) /\ Len(Append(b, <<q, n>>)) = Len(b) + 1
           /\ Follows(q, Append(b, <<q, n>>), k)
<1> DEFINE m == <<q, n>>
           a == Append(b, m)
<1>1. m \in Message
  BY DEF Message
<1> HIDE DEF m
<1>2. /\ a \in Seq(Message) /\ Len(a) = Len(b) + 1
      /\ \A i \in 1 .. Len(b) : a[i] = b[i]
      /\ a[Len(b) + 1] = m
  BY <1>1, AppendProperties
<1> HIDE DEF a
<1>3. Len(b) \in Nat
  OBVIOUS
<1>4. ASSUME NEW i \in 1 .. Len(a) PROVE a[i] = <<q, k + i>>
  <2>1. CASE i \in 1 .. Len(b)
    BY <1>2, <2>1 DEF Follows
  <2>2. CASE i = Len(b) + 1
    <3>1. k + i = n
      BY <1>3, <2>2
    <3> QED BY <1>2, <2>2, <3>1 DEF m
  <2> QED BY <1>2, <1>3, <2>1, <2>2
<1>5. Follows(q, a, k)
  BY <1>4 DEF Follows
<1> QED BY <1>2, <1>5 DEF a, m

LEMMA FollowsTail ==
    ASSUME NEW q, NEW b \in Seq(Message), NEW k \in Nat, Follows(q, b, k), b # << >>
    PROVE  /\ Tail(b) \in Seq(Message) /\ Len(Tail(b)) = Len(b) - 1 /\ Len(b) >= 1
           /\ Head(b) = <<q, k + 1>> /\ Head(b) \in Message
           /\ Follows(q, Tail(b), k + 1)
<1>1. /\ Head(b) \in Message /\ Tail(b) \in Seq(Message) /\ Len(Tail(b)) = Len(b) - 1
      /\ \A i \in 1 .. Len(Tail(b)) : Tail(b)[i] = b[i + 1]
  BY HeadTailProperties
<1>2. Len(b) \in Nat /\ Len(b) >= 1 /\ Head(b) = b[1]
  OBVIOUS
<1>3. Head(b) = <<q, k + 1>>
  BY <1>2 DEF Follows
<1> DEFINE t == Tail(b)
<1> HIDE DEF t
<1>4. ASSUME NEW i \in 1 .. Len(t) PROVE t[i] = <<q, (k + 1) + i>>
  <2>1. i + 1 \in 1 .. Len(b) /\ k + (i + 1) = (k + 1) + i
    BY <1>1, <1>2 DEF t
  <2>2. t[i] = b[i + 1]
    BY <1>1 DEF t
  <2>3. b[i + 1] = <<q, k + (i + 1)>>
    BY <2>1 DEF Follows
  <2> QED BY <2>1, <2>2, <2>3
<1>5. Follows(q, t, k + 1)
  BY <1>4 DEF Follows
<1> QED BY <1>1, <1>2, <1>3, <1>5 DEF t

\* Whoever sends has an end, and those who read at the other one listen to it.
LEMMA Sender ==
    ASSUME C!ConstantsOK, Inv, NEW p \in C!Proc, C!At(p, "say")
    PROVE  /\ C!Other(who[p].sock) \in C!End /\ program # "exchange" /\ who[p].at > 1
           /\ program = "sock_c_u" => p \in Clients /\ C!Other(who[p].sock) = <<p, "server">>
           /\ \A r \in C!Proc : Listens(r) => (C!Partner(r) = p <=> who[r].sock = C!Other(who[p].sock))
<1>1. /\ who[p].st = "runs" /\ CallAt(p, who[p].at) = "say" /\ program \in Programs
      /\ who[p].at \in 1 .. Last(p) + 1 /\ Last(p) \in Nat
      /\ program # "sock_c_u" => p \in {Parent, Child}
  BY AtFacts
<1>2. /\ program # "exchange" /\ who[p].at > 1
      /\ program = "sock_c_u" => p \in Clients
  BY <1>1, WhereTalk, Names
<1>3. CASE program = "sock_c_u"
  <2>1. p \in Clients /\ who[p].sock = <<p, "client">>
    BY <1>2, <1>3 DEF Inv, Linked
  <2>2. C!Other(who[p].sock) = <<p, "server">>
    BY <2>1 DEF C!Other
  <2>3. \A r \in C!Proc : Listens(r) => (C!Partner(r) = p <=> who[r].sock = <<p, "server">>)
    BY <1>3, Listener
  <2> QED BY <1>2, <1>3, <2>1, <2>2, <2>3, Names
<1>4. CASE program # "sock_c_u"
  <2>1. /\ who[Parent].sock = <<Child, "server">> /\ who[Child].sock = <<Child, "client">>
        /\ C!Other(<<Child, "server">>) = <<Child, "client">>
        /\ C!Other(<<Child, "client">>) = <<Child, "server">>
        /\ <<Child, "client">> # <<Child, "server">>
    BY <1>4 DEF Inv, Paired, C!Other
  <2>2. \A r \in C!Proc : Listens(r) => r \in {Parent, Child}
    BY <1>4 DEF Listens
  <2>3. /\ Listens(Parent) => C!Partner(Parent) = Child
        /\ Listens(Child) => C!Partner(Child) = Parent
    BY <1>4, Names, Listener
  <2> QED BY <1>1, <1>2, <1>4, <2>1, <2>2, <2>3, Names
<1> QED BY <1>3, <1>4

\* The message gets to the one who listens, behind the others.
LEMMA SayKeeps == ASSUME C!ConstantsOK, Inv, NEW p \in C!Proc, C!Say(p) PROVE Inv'
<1> DEFINE e == C!Other(who[p].sock)
           m == <<p, who[p].said + 1>>
           w == [who[p] EXCEPT !.at = who[p].at + 1, !.said = who[p].said + 1]
<1>1. C!At(p, "say")
  BY DEF C!Say
<1>2. /\ who[p].st = "runs" /\ C!Call(p) = "say" /\ CallAt(p, who[p].at) = "say" /\ program \in Programs
      /\ who[p].at \in 1 .. Last(p) + 1 /\ Last(p) \in Nat
      /\ program # "sock_c_u" => p \in {Parent, Child}
  BY <1>1, AtFacts
<1>3. /\ e \in C!End /\ program # "exchange" /\ who[p].at > 1
      /\ program = "sock_c_u" => p \in Clients /\ e = <<p, "server">>
      /\ \A r \in C!Proc : Listens(r) => (C!Partner(r) = p <=> who[r].sock = e)
  BY <1>1, Sender
<1>4. CASE open[e] = {} /\ C!Stop(p, "killed") /\ UNCHANGED name
  BY <1>2, <1>4, StopKeeps
<1>5. CASE /\ box' = [box EXCEPT ![e] = Append(@, m)]
           /\ who' = [who EXCEPT ![p].at = @ + 1, ![p].said = @ + 1]
           /\ UNCHANGED <<program, open, name, backlog>>
  <2>1. who \in [C!Proc -> Record] /\ box \in [C!End -> Seq(Message)]
    BY DEF Inv, Typed
  <2>2. who[p] \in Record /\ who[p].at \in Nat /\ who[p].said \in Nat
    BY <2>1 DEF Record
  <2>3. who' = [who EXCEPT ![p] = w]
    BY <1>5, <2>1, <2>2 DEF Record
  <2>4. /\ w \in Record /\ w.at = who[p].at + 1 /\ w.said = who[p].said + 1
        /\ w.st = "runs" /\ w.heard = who[p].heard /\ w.sock = who[p].sock
    <3>1. who[p].at + 1 \in Nat /\ who[p].said + 1 \in Nat
      BY <2>2
    <3> QED BY <1>2, <2>2, <3>1 DEF Record
  <2> HIDE DEF w, e
  <2>5. /\ who' \in [C!Proc -> Record] /\ who'[p] = w
        /\ \A r \in C!Proc : r # p => who'[r] = who[r]
    BY <2>1, <2>3, <2>4
  <2>6. \A r \in C!Proc : /\ who'[r].st = who[r].st /\ who'[r].heard = who[r].heard
                          /\ who'[r].sock = who[r].sock
                          /\ r # p => who'[r].said = who[r].said /\ who'[r].at = who[r].at
    BY <1>2, <2>4, <2>5
  <2>7. m \in Message /\ box[e] \in Seq(Message) /\ Append(box[e], m) \in Seq(Message)
    BY <1>3, <2>1, <2>2 DEF Message
  <2>8. /\ box' \in [C!End -> Seq(Message)] /\ box'[e] = Append(box[e], m)
        /\ \A f \in C!End : f # e => box'[f] = box[f]
    BY <1>3, <1>5, <2>1, <2>7
  <2>9. Typed'
    BY <1>5, <2>5, <2>8 DEF Inv, Typed
  <2>10. who[p].at <= Last(p)
    BY <1>2, WhereCalls
  <2>11. Placed(p)'
    <3>1. /\ who'[p].said = who[p].said + (IF C!Call(p) = "say" THEN 1 ELSE 0)
          /\ Len(who'[p].heard) = Len(who[p].heard) + (IF C!Call(p) = "hear" THEN 1 ELSE 0)
      <4>1. Len(who[p].heard) \in Nat
        BY <2>2 DEF Record
      <4> QED BY <1>2, <2>4, <2>5, <4>1
    <3> QED BY <1>2, <1>5, <2>4, <2>5, <2>10, <3>1, PlacedOn DEF Inv
  <2>12. \A r \in C!Proc : Placed(r)'
    BY <1>5, <2>5, <2>11, PlacedKept DEF Inv
  <2>13. Paired'
    <3> SUFFICES ASSUME program # "sock_c_u" PROVE Paired'
      BY <1>5 DEF Paired
    <3>1. who'[Parent].at = 1 <=> who[Parent].at = 1
      BY <1>3, <2>2, <2>4, <2>5, Names
    <3>2. who'[Parent].at > 1 => who[Parent].at > 1
      BY <1>3, <2>2, <2>4, <2>5, Names
    <3> QED BY <1>5, <2>6, <3>1, <3>2, Names DEF Inv, Paired
  <2>14. Linked'
    <3> SUFFICES ASSUME program = "sock_c_u" PROVE Linked'
      BY <1>5 DEF Linked
    <3>1. p \in Clients /\ e = <<p, "server">>
      BY <1>3
    <3>2. ASSUME NEW c \in Clients
          PROVE  (who'[c].at = 1 => c # p /\ who[c].at = 1) /\ (who'[c].at > 1 => who[c].at > 1)
      <4>1. CASE c = p
        BY <1>3, <2>2, <2>4, <2>5, <4>1
      <4>2. CASE c # p
        BY <2>6, <4>2, Names
      <4> QED BY <4>1, <4>2
    <3>3. \A s \in Servers : who'[s] = who[s]
      BY <2>5, <3>1, Names
    <3>4. ASSUME NEW c \in Clients, c # p, Nowhere(c) PROVE Nowhere(c)'
      <4>1. box'[<<c, "server">>] = box[<<c, "server">>]
        BY <2>8, <3>1, <3>4, Names
      <4> QED BY ZenonT(30), <1>5, <2>6, <3>3, <3>4, <4>1, Names DEF Nowhere
    <3>5. ASSUME NEW s \in Servers, NEW k \in 1 .. Len(backlog[s]), Waits(s, k) PROVE Waits(s, k)'
      <4>1. backlog[s][k] \in C!Proc
        <5>1. backlog[s] \in Seq(Clients)
          BY DEF Inv, Typed
        <5>2. backlog[s][k] \in Clients
          BY <5>1, ElementOfSeq
        <5> QED BY <5>2, Names
      <4> QED BY <1>5, <2>6, <3>3, <3>5, <4>1 DEF Waits
    <3>6. \A c \in Clients : who'[c].at > 1 => who'[c].sock = <<c, "client">>
      BY <2>6, <3>2, Names DEF Inv, Linked
    <3>7. \A c \in Clients : who'[c].at = 1 => Nowhere(c)'
      BY <3>2, <3>4 DEF Inv, Linked
    <3>8. \A s \in Servers : \A k \in 1 .. Len(backlog[s]) : Waits(s, k)'
      BY <3>5 DEF Inv, Linked
    <3>9. \A s \in Servers :
             /\ who[s].at <= 3 => who[s].sock = C!NoEnd
             /\ who[s].at > 3 => \E c \in Clients : who[s].sock = <<c, "server">>
             /\ who[s].sock # C!NoEnd => \A t \in Servers : who[t].sock = who[s].sock => t = s
      BY DEF Inv, Linked
    <3>10. \A s \in Servers :
             /\ who'[s].at <= 3 => who'[s].sock = C!NoEnd
             /\ who'[s].at > 3 => \E c \in Clients : who'[s].sock = <<c, "server">>
             /\ who'[s].sock # C!NoEnd => \A t \in Servers : who'[t].sock = who'[s].sock => t = s
      BY <3>3, <3>9
    <3>11. backlog' = backlog
      BY <1>5
    <3> QED BY <3>6, <3>7, <3>8, <3>10, <3>11 DEF Linked
  <2>15. Ends'
    <3>1. ASSUME NEW r \in C!Proc PROVE who'[r].at \in Nat /\ who[r].at <= who'[r].at
      <4>1. who[r].at \in Nat
        BY <2>1 DEF Record
      <4>2. CASE r = p
        BY <2>2, <2>4, <2>5, <4>2
      <4>3. CASE r # p
        BY <2>6, <4>1, <4>3
      <4> QED BY <4>2, <4>3
    <3>2. ASSUME NEW c \in Clients, who[c].at = 1 PROVE who'[c].at = 1
      <4>1. c # p
        BY <1>3, <3>2
      <4> QED BY <2>6, <3>2, <4>1, Names
    <3> QED BY <1>5, <2>6, <3>1, <3>2, EndsKept
  <2>16. Named'
    <3>1. program = "sock_c_u" => \A s \in Servers : who'[s] = who[s]
      BY <1>3, <2>5, Names
    <3> QED BY <1>5, <3>1, NamedKept
  <2>17. Streams'
    <3>1. ASSUME NEW r \in C!Proc, Listens(r)' PROVE Stream(r)'
      <4> DEFINE q == C!Partner(r)
                 l == who[r].heard
                 b == box[who[r].sock]
      <4>1. Listens(r) /\ Stream(r) /\ who[r].sock \in C!End /\ q \in C!Proc
        <5>1. Listens(r)
          BY <1>5, <2>6, <3>1 DEF Listens
        <5> QED BY <5>1, Listener DEF Inv, Streams
      <4>2. C!Partner(r)' = q
        <5>1. who'[r].sock = who[r].sock /\ program' = program
          BY <1>5, <2>6
        <5> QED BY <5>1 DEF C!Partner
      <4>3. CASE q # p
        <5>1. box'[who[r].sock] = b
          BY <1>3, <2>8, <4>1, <4>3
        <5> QED BY <2>6, <4>1, <4>2, <4>3, <5>1 DEF Stream, Follows
      <4>4. CASE q = p
        <5>1. who[r].sock = e /\ box'[e] = Append(b, m)
          BY <1>3, <2>8, <4>1, <4>4
        <5>2. Follows(p, l, 0) /\ Follows(p, b, Len(l)) /\ Len(l) + Len(b) = who[p].said
          BY <1>2, <4>1, <4>4 DEF Stream
        <5>3. l \in Seq(Message) /\ b \in Seq(Message) /\ Len(l) \in Nat /\ Len(b) \in Nat
          BY <2>1, <4>1 DEF Record
        <5> HIDE DEF l, b
        <5>4. who[p].said + 1 = Len(l) + Len(b) + 1 /\ who[p].said + 1 \in Nat
          BY <2>2, <5>2
        <5>5. Len(Append(b, m)) = Len(b) + 1 /\ Follows(p, Append(b, m), Len(l))
          BY <5>2, <5>3, <5>4, FollowsAppend
        <5>6. Len(l) + (Len(b) + 1) = who[p].said + 1
          BY <5>3, <5>4
        <5>7. who'[p].said = who[p].said + 1 /\ who'[r].heard = l /\ who'[r].sock = e
          BY <2>4, <2>5, <2>6, <5>1 DEF l
        <5> QED BY <4>2, <4>4, <5>1, <5>2, <5>5, <5>6, <5>7 DEF Stream, Follows
      <4> QED BY <4>3, <4>4
    <3>2. ASSUME program = "sock_c_u", NEW s \in Servers, NEW k \in 1 .. Len(backlog[s]), NEW c, c = backlog[s][k]
          PROVE  Follows(c, box'[<<c, "server">>], 0) /\ Len(box'[<<c, "server">>]) = who'[c].said
      <4>1. c \in Clients /\ c \in C!Proc /\ <<c, "server">> \in C!End
        <5>1. backlog[s] \in Seq(Clients)
          BY DEF Inv, Typed
        <5>2. backlog[s][k] \in Clients
          BY <5>1, ElementOfSeq
        <5> QED BY <3>2, <5>2, Names
      <4>2. Follows(c, box[<<c, "server">>], 0) /\ Len(box[<<c, "server">>]) = who[c].said
        BY <3>2 DEF Inv, Streams
      <4>3. CASE c # p
        <5>1. <<c, "server">> # e
          BY <1>3, <3>2, <4>3
        <5> QED BY <2>6, <2>8, <4>1, <4>2, <4>3, <5>1
      <4>4. CASE c = p
        <5> DEFINE b == box[e]
        <5>1. e = <<c, "server">>
          BY <1>3, <3>2, <4>4
        <5>2. Follows(p, b, 0) /\ Len(b) = who[p].said /\ b \in Seq(Message) /\ box'[e] = Append(b, m)
          BY <2>7, <2>8, <4>2, <4>4, <5>1
        <5> HIDE DEF b
        <5>3. who[p].said + 1 = 0 + Len(b) + 1 /\ who[p].said + 1 \in Nat
          BY <2>2, <5>2
        <5>4. Len(Append(b, m)) = Len(b) + 1 /\ Follows(p, Append(b, m), 0)
          BY <5>2, <5>3, FollowsAppend
        <5>5. who'[p].said = who[p].said + 1
          BY <2>4, <2>5
        <5> QED BY <4>4, <5>1, <5>2, <5>3, <5>4, <5>5
      <4> QED BY <4>3, <4>4
    <3> QED BY ZenonT(30), <1>5, <3>1, <3>2 DEF Streams, Follows
  <2> QED BY <2>9, <2>12, <2>13, <2>14, <2>15, <2>16, <2>17 DEF Inv
<1> QED BY <1>4, <1>5 DEF C!Say

\* Whoever reads listens, and alone.
LEMMA Hearer ==
    ASSUME C!ConstantsOK, Inv, NEW p \in C!Proc, C!At(p, "hear")
    PROVE  /\ Listens(p) /\ program # "exchange"
           /\ program = "sock_c_u" => p \in Servers /\ who[p].at > 3
           /\ \A r \in C!Proc : Listens(r) /\ r # p => who[r].sock # who[p].sock
<1>1. /\ who[p].st = "runs" /\ CallAt(p, who[p].at) = "hear" /\ program \in Programs
      /\ who[p].at \in 1 .. Last(p) + 1 /\ Last(p) \in Nat
      /\ program # "sock_c_u" => p \in {Parent, Child}
  BY AtFacts
<1>2. /\ program # "exchange"
      /\ program = "sock_c_u" => p \in Servers /\ who[p].at > 3
  BY <1>1, WhereTalk, Names
<1>3. CASE program = "sock_c_u"
  <2>1. PICK c \in Clients : who[p].sock = <<c, "server">>
    BY <1>2, <1>3 DEF Inv, Linked
  <2>2. who[p].sock # C!NoEnd
    BY <2>1, Names DEF C!NoEnd
  <2>3. \A r \in C!Proc : Listens(r) => r \in Servers
    BY <1>3 DEF Listens
  <2>4. \A r \in Servers : who[r].sock = who[p].sock => r = p
    BY <1>2, <1>3, <2>2 DEF Inv, Linked
  <2> QED BY <1>2, <1>3, <2>2, <2>3, <2>4 DEF Listens
<1>4. CASE program # "sock_c_u"
  <2>1. /\ who[Parent].sock = <<Child, "server">> /\ who[Child].sock = <<Child, "client">>
        /\ <<Child, "client">> # <<Child, "server">>
    BY <1>4 DEF Inv, Paired
  <2>2. \A r \in C!Proc : Listens(r) => r \in {Parent, Child}
    BY <1>4 DEF Listens
  <2>3. Listens(p)
    BY <1>1, <1>2, <1>4 DEF Listens, C!ConstantsOK
  <2> QED BY <1>1, <1>2, <1>4, <2>1, <2>2, <2>3
<1> QED BY <1>3, <1>4

\* The end of the data is seen only of a partner that has been killed: any other one has an
\* end until it has sent all, and then all has been read.
LEMMA EndOfData ==
    ASSUME C!ConstantsOK, Inv, NEW p \in C!Proc, C!At(p, "hear"),
           box[who[p].sock] = << >>, open[C!Other(who[p].sock)] = {}
    PROVE  who[C!Partner(p)].st = "killed"
<1> SUFFICES ASSUME who[C!Partner(p)].st # "killed" PROVE FALSE
  OBVIOUS
<1> DEFINE q == C!Partner(p)
<1>1. /\ who[p].st = "runs" /\ CallAt(p, who[p].at) = "hear" /\ program \in Programs
      /\ who[p].at \in 1 .. Last(p) + 1 /\ Last(p) \in Nat
      /\ program # "sock_c_u" => p \in {Parent, Child}
  BY AtFacts
<1>2. /\ Listens(p) /\ program # "exchange"
      /\ program = "sock_c_u" => p \in Servers /\ who[p].at > 3
  BY Hearer
<1>3. /\ q \in C!Proc /\ who[p].sock \in C!End
      /\ program = "sock_c_u" => q \in Clients /\ who[p].sock = <<q, "server">>
      /\ program # "sock_c_u" /\ p = Parent => q = Child /\ who[p].sock = <<Child, "server">>
      /\ program # "sock_c_u" /\ p = Child => q = Parent /\ who[p].sock = <<Child, "client">>
  BY <1>2, Listener
<1>4. /\ C!Other(<<q, "server">>) = <<q, "client">>
      /\ C!Other(<<Child, "server">>) = <<Child, "client">>
      /\ C!Other(<<Child, "client">>) = <<Child, "server">>
  BY DEF C!Other
<1>5. who[q].said = Len(who[p].heard)
  <2>1. Len(who[p].heard) + Len(box[who[p].sock]) = who[q].said
    BY <1>2 DEF Inv, Streams, Stream
  <2>2. Len(box[who[p].sock]) = 0 /\ Len(who[p].heard) \in Nat
    BY DEF Inv, Typed, Record
  <2> QED BY <2>1, <2>2
<1>6. Len(who[p].heard) < Rounds
  <2>1. Len(who[p].heard) = HeardAt(p, who[p].at)
    BY DEF Inv, Placed
  <2>2. who[p].at \in 1 .. Last(p)
    BY <1>1, WhereCalls
  <2>3. HeardAt(p, who[p].at + 1) = HeardAt(p, who[p].at) + 1
    BY <1>1, <2>2, CallCounts
  <2>4. who[p].at + 1 \in 1 .. Last(p) + 1
    BY <1>1, <2>2
  <2>5. HeardAt(p, who[p].at) \in 0 .. Rounds /\ HeardAt(p, who[p].at + 1) \in 0 .. Rounds
    BY <1>1, <2>4, CountBounds
  <2> QED BY <2>1, <2>3, <2>5, Names
<1>7. /\ who[q].at \in 1 .. Last(q) + 1 /\ Last(q) \in Nat /\ who[q].said = SaidAt(q, who[q].at)
      /\ who[q].st = "no" => who[q].at = 1
      /\ who[q].st = "done" => who[q].at = Last(q) + 1
      /\ who[q].st = "failed" => who[q].at = 1 \/ (program = "sock_c_u" /\ q \in Servers)
      /\ who[q].st \in {"no", "runs", "done", "failed"}
  <2>1. Last(q) \in Nat
    BY <1>1, <1>3, CodeFacts
  <2>2. who[q] \in Record
    BY <1>3 DEF Inv, Typed
  <2>3. who[q].st \in Status
    BY <2>2 DEF Record
  <2> QED BY <1>3, <2>1, <2>3 DEF Inv, Placed, Status
<1> HIDE DEF q
<1>8. CASE program = "sock_c_u"
  <2>1. q \in Clients /\ q \notin Servers /\ who[p].sock = <<q, "server">>
    BY <1>3, <1>8, Names
  <2>2. who[q].at # 1
    BY <1>2, <1>8, <2>1 DEF Inv, Linked, Nowhere
  <2>3. Last(q) = Rounds + 2
    BY <1>8, <2>1 DEF Last
  <2>4. who[q].st = "runs" => who[q].at \notin 2 .. Rounds + 2
    <3>1. open[<<q, "client">>] = {}
      BY <1>4, <2>1
    <3> QED BY <1>8, <2>1, <3>1 DEF Inv, Ends
  <2>5. who[q].at >= Rounds + 2
    BY <1>7, <2>1, <2>2, <2>3, <2>4, Names
  <2>6. SaidAt(q, who[q].at) = Rounds
    BY <1>1, <1>3, <1>7, <1>8, <2>1, <2>5, CountBounds
  <2> QED BY <1>5, <1>6, <1>7, <2>6, Names
<1>9. CASE program = "socketpair"
  <2>1. /\ who[Parent].st # "no" /\ who[Child].st # "failed"
        /\ who[Parent].at = 1 => who[Child].st = "no"
        /\ who[Parent].at > 1 => who[Child].st # "no"
    BY <1>9 DEF Inv, Paired
  <2>2. Last(Parent) = 2 * Rounds + 3 /\ Last(Child) = 2 * Rounds + 2
    BY <1>9, Names DEF Last
  <2>3. who[q].at >= 2 * Rounds + 3
    <3>1. CASE p = Parent
      <4>1. q = Child /\ open[<<Child, "client">>] = {}
        BY <1>3, <1>4, <1>9, <3>1
      <4>2. who[Parent].at > 1
        BY <1>1, <1>9, <3>1, WhereTalk, Names
      <4>3. who[Child].st = "runs" => ~(who[Child].at <= 2 * Rounds + 2)
        BY <1>9, <4>1 DEF Inv, Ends
      <4>4. who[Child].st # "no" /\ who[Child].st # "failed"
        BY <2>1, <4>2
      <4> QED BY <1>7, <2>2, <4>1, <4>3, <4>4, Names
    <3>2. CASE p = Child
      <4>1. q = Parent /\ open[<<Child, "server">>] = {}
        BY <1>3, <1>4, <1>9, <3>2, Names
      <4>2. who[Parent].at # 1
        BY <1>1, <2>1, <3>2
      <4>3. who[Parent].st = "runs" => ~(who[Parent].at <= 2 * Rounds + 3)
        BY <1>9, <4>1 DEF Inv, Ends
      <4> QED BY <1>7, <1>9, <2>1, <2>2, <4>1, <4>2, <4>3, Names
    <3> QED BY <1>1, <1>9, <3>1, <3>2
  <2>4. SaidAt(q, who[q].at) = Rounds
    BY <1>1, <1>3, <1>7, <1>9, <2>3, CountBounds
  <2> QED BY <1>5, <1>6, <1>7, <2>4, Names
<1>10. CASE program = "spair"
  BY <1>1, <1>3, <1>4, <1>10, Names DEF Inv, Ends
<1> QED BY <1>1, <1>2, <1>8, <1>9, <1>10 DEF C!ConstantsOK

\* A process reads: the first message in its box, or the end of the data.
LEMMA HearKeeps == ASSUME C!ConstantsOK, Inv, NEW p \in C!Proc, C!Hear(p) PROVE Inv'
<1> DEFINE e == who[p].sock
           on(m) == [who[p] EXCEPT !.at = who[p].at + 1, !.heard = Append(who[p].heard, m)]
<1>1. C!At(p, "hear") /\ UNCHANGED <<program, open, name, backlog>>
  BY DEF C!Hear
<1>2. /\ who[p].st = "runs" /\ C!Call(p) = "hear" /\ CallAt(p, who[p].at) = "hear" /\ program \in Programs
      /\ who[p].at \in 1 .. Last(p) + 1 /\ Last(p) \in Nat
      /\ program # "sock_c_u" => p \in {Parent, Child}
  BY <1>1, AtFacts
<1>3. /\ Listens(p) /\ program # "exchange"
      /\ program = "sock_c_u" => p \in Servers /\ who[p].at > 3
      /\ \A r \in C!Proc : Listens(r) /\ r # p => who[r].sock # e
  BY <1>1, Hearer
<1>4. /\ C!Partner(p) \in C!Proc /\ e \in C!End /\ Stream(p)
      /\ program = "sock_c_u" => C!Partner(p) \in Clients /\ e = <<C!Partner(p), "server">>
  BY <1>3, Listener DEF Inv, Streams
<1>5. who \in [C!Proc -> Record] /\ box \in [C!End -> Seq(Message)]
  BY DEF Inv, Typed
<1>6. who[p] \in Record /\ who[p].at \in Nat /\ who[p].heard \in Seq(Message) /\ box[e] \in Seq(Message)
  BY <1>4, <1>5 DEF Record
<1>7. who[p].at <= Last(p)
  BY <1>2, WhereCalls
<1> HIDE DEF e
\* What is said of the others, and of p but for its messages, does not change.
<1>8. ASSUME NEW m \in Message, who' = [who EXCEPT ![p] = on(m)],
             box' \in [C!End -> Seq(Message)], \A f \in C!End : f # e => box'[f] = box[f],
             Stream(p)'
      PROVE  Inv'
  <2>1. /\ on(m) \in Record /\ on(m).at = who[p].at + 1 /\ on(m).said = who[p].said
        /\ on(m).st = "runs" /\ on(m).heard = Append(who[p].heard, m) /\ on(m).sock = who[p].sock
        /\ Len(Append(who[p].heard, m)) = Len(who[p].heard) + 1
    <3>1. who[p].at + 1 \in Nat /\ Append(who[p].heard, m) \in Seq(Message)
      BY <1>6
    <3>2. Len(Append(who[p].heard, m)) = Len(who[p].heard) + 1
      BY <1>6, AppendProperties
    <3> QED BY <1>2, <1>6, <3>1, <3>2 DEF Record
  <2> HIDE DEF on
  <2>2. /\ who' \in [C!Proc -> Record] /\ who'[p] = on(m)
        /\ \A r \in C!Proc : r # p => who'[r] = who[r]
    BY <1>5, <1>8, <2>1
  <2>3. \A r \in C!Proc : /\ who'[r].st = who[r].st /\ who'[r].said = who[r].said
                          /\ who'[r].sock = who[r].sock
                          /\ r # p => who'[r].heard = who[r].heard /\ who'[r].at = who[r].at
    BY <1>2, <2>1, <2>2
  <2>4. Typed'
    BY <1>1, <1>8, <2>2 DEF Inv, Typed
  <2>5. Placed(p)'
    <3>1. /\ who'[p].said = who[p].said + (IF C!Call(p) = "say" THEN 1 ELSE 0)
          /\ Len(who'[p].heard) = Len(who[p].heard) + (IF C!Call(p) = "hear" THEN 1 ELSE 0)
      <4>1. who[p].said \in Nat
        BY <1>6 DEF Record
      <4> QED BY <1>2, <2>1, <2>2, <4>1
    <3> QED BY <1>1, <1>2, <1>7, <2>1, <2>2, <3>1, PlacedOn DEF Inv
  <2>6. \A r \in C!Proc : Placed(r)'
    BY <1>1, <2>2, <2>5, PlacedKept DEF Inv
  <2>7. \A r \in C!Proc : who[r].at \in Nat /\ who'[r].at \in Nat /\ who[r].at >= 1
    BY <1>5, <2>2 DEF Record, Inv, Placed
  <2>8. Paired'
    <3> SUFFICES ASSUME program # "sock_c_u" PROVE Paired'
      BY <1>1 DEF Paired
    <3>1. p = Parent => who[p].at > 1
      BY <1>2, WhereTalk, Names
    <3>2. /\ who'[Parent].at = 1 <=> who[Parent].at = 1
          /\ who'[Parent].at > 1 <=> who[Parent].at > 1
      <4>1. CASE p = Parent
        BY <1>6, <2>1, <2>2, <3>1, <4>1
      <4>2. CASE p # Parent
        BY <2>3, <4>2, Names
      <4> QED BY <4>1, <4>2
    <3> QED BY <1>1, <2>3, <3>2, Names DEF Inv, Paired
  <2>9. Ends'
    <3>1. ASSUME NEW r \in C!Proc PROVE who'[r].at \in Nat /\ who[r].at <= who'[r].at
      <4>1. CASE r = p
        BY <1>6, <2>1, <2>2, <4>1
      <4>2. CASE r # p
        BY <2>3, <2>7, <4>2
      <4> QED BY <4>1, <4>2
    <3>2. program = "sock_c_u" => \A c \in Clients : who[c].at = 1 => who'[c].at = 1
      BY <1>3, <2>3, Names
    <3> QED BY <1>1, <2>3, <3>1, <3>2, EndsKept
  <2>10. Named'
    <3>1. program = "sock_c_u" => \A s \in Servers :
              /\ who'[s].st = "runs" /\ who'[s].at \in 3 .. Rounds + 5 =>
                   who[s].st = "runs" /\ who[s].at \in 3 .. Rounds + 5
              /\ who'[s].st = "no" => who[s].st = "no"
      <4>1. ASSUME program = "sock_c_u", NEW s \in Servers
            PROVE  /\ who'[s].st = "runs" /\ who'[s].at \in 3 .. Rounds + 5 =>
                        who[s].st = "runs" /\ who[s].at \in 3 .. Rounds + 5
                   /\ who'[s].st = "no" => who[s].st = "no"
        <5>1. CASE s = p
          BY <1>3, <1>6, <2>1, <2>2, <2>3, <4>1, <5>1, Names
        <5>2. CASE s # p
          BY <2>2, <5>2, Names
        <5> QED BY <5>1, <5>2
      <4> QED BY <4>1
    <3> QED BY <1>1, <3>1, NamedKept
  <2>11. program = "sock_c_u" => \A s \in Servers : \A k \in 1 .. Len(backlog[s]) :
           /\ backlog[s][k] \in Clients /\ <<backlog[s][k], "server">> # e
    <3>1. ASSUME program = "sock_c_u", NEW s \in Servers, NEW k \in 1 .. Len(backlog[s])
          PROVE  backlog[s][k] \in Clients /\ <<backlog[s][k], "server">> # e
      <4>1. backlog[s] \in Seq(Clients)
        BY DEF Inv, Typed
      <4>2. backlog[s][k] \in Clients
        BY <4>1, ElementOfSeq
      <4>3. Waits(s, k)
        BY <3>1 DEF Inv, Linked
      <4> QED BY <1>3, <3>1, <4>2, <4>3 DEF Waits, e
    <3> QED BY <3>1
  <2>12. Linked'
    <3> SUFFICES ASSUME program = "sock_c_u" PROVE Linked'
      BY <1>1 DEF Linked
    <3>1. \A c \in Clients : who'[c] = who[c]
      BY <1>3, <2>2, Names
    <3>2. ASSUME NEW c \in Clients, Nowhere(c) PROVE Nowhere(c)'
      <4>1. <<c, "server">> # e
        BY <1>3, <3>2 DEF Nowhere, e
      <4>2. box'[<<c, "server">>] = box[<<c, "server">>]
        BY <1>8, <4>1, Names
      <4> QED BY <1>1, <2>3, <3>1, <3>2, <4>2, Names DEF Nowhere
    <3>3. ASSUME NEW s \in Servers, NEW k \in 1 .. Len(backlog[s]), Waits(s, k) PROVE Waits(s, k)'
      <4>1. backlog[s][k] \in Clients
        BY <2>11
      <4> QED BY <1>1, <2>3, <3>1, <3>3, <4>1, Names DEF Waits
    <3>4. \A c \in Clients : /\ who'[c].at = 1 => Nowhere(c)'
                             /\ who'[c].at > 1 => who'[c].sock = <<c, "client">>
      BY <3>1, <3>2 DEF Inv, Linked
    <3>5. \A s \in Servers : \A k \in 1 .. Len(backlog[s]) : Waits(s, k)'
      BY <3>3 DEF Inv, Linked
    <3>6. ASSUME NEW s \in Servers
          PROVE  (who'[s].at <= 3 => who[s].at <= 3) /\ (who'[s].at > 3 => who[s].at > 3)
      <4>1. CASE s = p
        BY <1>3, <1>6, <2>1, <2>2, <4>1
      <4>2. CASE s # p
        BY <2>3, <4>2, Names
      <4> QED BY <4>1, <4>2
    <3>7. \A s \in Servers :
             /\ who[s].at <= 3 => who[s].sock = C!NoEnd
             /\ who[s].at > 3 => \E c \in Clients : who[s].sock = <<c, "server">>
             /\ who[s].sock # C!NoEnd => \A t \in Servers : who[t].sock = who[s].sock => t = s
      BY DEF Inv, Linked
    <3>8. \A s \in Servers : who'[s].sock = who[s].sock
      BY <2>3, Names
    <3>9. \A s \in Servers :
             /\ who'[s].at <= 3 => who'[s].sock = C!NoEnd
             /\ who'[s].at > 3 => \E c \in Clients : who'[s].sock = <<c, "server">>
             /\ who'[s].sock # C!NoEnd => \A t \in Servers : who'[t].sock = who'[s].sock => t = s
      BY <3>6, <3>7, <3>8
    <3>10. backlog' = backlog
      BY <1>1
    <3> QED BY <3>4, <3>5, <3>9, <3>10 DEF Linked
  <2>13. Streams'
    <3>1. ASSUME NEW r \in C!Proc, Listens(r)', r # p PROVE Stream(r)'
      <4>1. Listens(r)
        BY <1>1, <2>3, <3>1 DEF Listens
      <4>2. Stream(r) /\ who[r].sock \in C!End /\ C!Partner(r) \in C!Proc
        BY <4>1, Listener DEF Inv, Streams
      <4>3. C!Partner(r)' = C!Partner(r)
        <5>1. who'[r].sock = who[r].sock /\ program' = program
          BY <1>1, <2>3
        <5> QED BY <5>1 DEF C!Partner
      <4>4. box'[who[r].sock] = box[who[r].sock]
        BY <1>3, <1>8, <3>1, <4>1, <4>2
      <4>5. /\ who'[r].heard = who[r].heard /\ who'[r].sock = who[r].sock
            /\ who'[C!Partner(r)].said = who[C!Partner(r)].said /\ who'[C!Partner(r)].st = who[C!Partner(r)].st
        BY <2>3, <3>1, <4>2
      <4> QED BY <4>2, <4>3, <4>4, <4>5 DEF Stream, Follows
    <3>2. ASSUME program = "sock_c_u", NEW s \in Servers, NEW k \in 1 .. Len(backlog[s]), NEW c, c = backlog[s][k]
          PROVE  Follows(c, box'[<<c, "server">>], 0) /\ Len(box'[<<c, "server">>]) = who'[c].said
      <4>1. c \in Clients /\ <<c, "server">> # e
        BY <2>11, <3>2
      <4>2. Follows(c, box[<<c, "server">>], 0) /\ Len(box[<<c, "server">>]) = who[c].said
        BY <3>2 DEF Inv, Streams
      <4>3. box'[<<c, "server">>] = box[<<c, "server">>] /\ who'[c].said = who[c].said
        BY <1>8, <2>3, <4>1, Names
      <4> QED BY <4>2, <4>3
    <3> QED BY <1>1, <1>8, <3>1, <3>2 DEF Streams, Follows
  <2> QED BY <2>4, <2>6, <2>8, <2>9, <2>10, <2>12, <2>13 DEF Inv
<1>9. C!Partner(p)' = C!Partner(p) \/ who'[p].sock # who[p].sock
  BY <1>1 DEF C!Partner
<1>10. C!Partner(p) # p
  <2>1. program # "sock_c_u" /\ p = Parent => C!Partner(p) = Child
    BY <1>3, Listener
  <2>2. program # "sock_c_u" /\ p = Child => C!Partner(p) = Parent
    BY <1>3, Listener
  <2> QED BY <1>2, <1>3, <1>4, <2>1, <2>2, Names
<1> DEFINE q == C!Partner(p)
           l == who[p].heard
           b == box[e]
<1>11. CASE /\ b # << >>
            /\ box' = [box EXCEPT ![e] = Tail(@)]
            /\ who' = [who EXCEPT ![p].at = @ + 1, ![p].heard = Append(@, Head(b))]
  <2>1. Head(b) \in Message /\ Tail(b) \in Seq(Message)
    BY <1>6, <1>11, HeadTailProperties
  <2>2. who' = [who EXCEPT ![p] = on(Head(b))]
    BY <1>5, <1>6, <1>11 DEF Record
  <2>3. /\ box' \in [C!End -> Seq(Message)] /\ box'[e] = Tail(b)
        /\ \A f \in C!End : f # e => box'[f] = box[f]
    BY <1>4, <1>5, <1>11, <2>1
  <2>4. /\ who'[p].heard = Append(l, Head(b)) /\ who'[p].sock = e
        /\ \A r \in C!Proc : r # p => who'[r] = who[r]
    BY <1>5, <1>6, <2>2 DEF Record, e
  <2>5. Stream(p)'
    <3> SUFFICES ASSUME who[q].st # "killed" PROVE Stream(p)'
      BY <1>4, <1>9, <1>10, <2>4 DEF Stream, e
    <3>1. Follows(q, l, 0) /\ Follows(q, b, Len(l)) /\ Len(l) + Len(b) = who[q].said
      BY <1>4 DEF Stream, e
    <3>2. l \in Seq(Message) /\ b \in Seq(Message) /\ Len(l) \in Nat /\ Len(b) \in Nat
      BY <1>6
    <3> HIDE DEF l, b
    <3>3. /\ Len(Tail(b)) = Len(b) - 1 /\ Len(b) >= 1
          /\ Head(b) = <<q, Len(l) + 1>> /\ Follows(q, Tail(b), Len(l) + 1)
      BY <1>11, <3>1, <3>2, FollowsTail
    <3>4. Len(l) + 1 = 0 + Len(l) + 1 /\ Len(l) + 1 \in Nat
      BY <3>2
    <3>5. /\ Len(Append(l, Head(b))) = Len(l) + 1
          /\ Follows(q, Append(l, Head(b)), 0)
      <4> DEFINE n == Len(l) + 1
      <4>1. q \in C!Proc
        BY <1>4
      <4>2. n \in Nat /\ n = 0 + Len(l) + 1 /\ Follows(q, l, 0)
        BY <3>1, <3>4
      <4> HIDE DEF n, q
      <4>3. Len(Append(l, <<q, n>>)) = Len(l) + 1 /\ Follows(q, Append(l, <<q, n>>), 0)
        BY <3>2, <4>1, <4>2, FollowsAppend
      <4> QED BY <3>3, <4>3 DEF n
    <3>6. (Len(l) + 1) + (Len(b) - 1) = who[q].said
      BY <3>1, <3>2
    <3>7. Follows(q, Tail(b), Len(Append(l, Head(b))))
      BY <3>3, <3>5
    <3>8. Len(Append(l, Head(b))) + Len(Tail(b)) = who[q].said
      BY <3>3, <3>5, <3>6
    <3>9. C!Partner(p)' = q /\ who'[q] = who[q]
      BY <1>4, <1>9, <1>10, <2>4 DEF e
    <3> QED BY <2>3, <2>4, <3>5, <3>7, <3>8, <3>9 DEF Stream, Follows
  <2> QED BY <1>8, <2>1, <2>2, <2>3, <2>5
<1>12. CASE /\ b = << >> /\ open[C!Other(e)] = {}
            /\ who' = [who EXCEPT ![p].at = @ + 1, ![p].heard = Append(@, <<NoOne, 0>>)]
            /\ UNCHANGED box
  <2>1. <<NoOne, 0>> \in Message
    BY DEF Message
  <2>2. who' = [who EXCEPT ![p] = on(<<NoOne, 0>>)]
    BY <1>5, <1>6, <1>12 DEF Record
  <2>3. box' \in [C!End -> Seq(Message)]
    BY <1>5, <1>12
  <2>4. who[q].st = "killed"
    BY <1>1, <1>12, EndOfData DEF e
  <2>5. who'[p].sock = who[p].sock /\ \A r \in C!Proc : r # p => who'[r] = who[r]
    BY <1>5, <1>6, <2>2 DEF Record
  <2>6. Stream(p)'
    BY <1>4, <1>9, <1>10, <2>4, <2>5 DEF Stream
  <2> QED BY <1>8, <1>12, <2>1, <2>2, <2>3, <2>6
<1> QED BY <1>11, <1>12 DEF C!Hear, e

-----------------------------------------------------------------------------
(***************************************************************************)
(* Connections.                                                            *)
(***************************************************************************)

\* A server takes the first client of its backlog.
LEMMA AcceptKeeps == ASSUME C!ConstantsOK, Inv, NEW p \in C!Proc, C!Accept(p) PROVE Inv'
<1> DEFINE c == Head(backlog[p])
           e == <<c, "server">>
           w == [who[p] EXCEPT !.at = who[p].at + 1, !.sock = e]
<1>1. /\ C!At(p, "accept") /\ backlog[p] # << >> /\ UNCHANGED <<program, box, open, name>>
      /\ who' = [who EXCEPT ![p].at = @ + 1, ![p].sock = e]
      /\ backlog' = [backlog EXCEPT ![p] = Tail(@)]
  BY DEF C!Accept
<1>2. /\ who[p].st = "runs" /\ C!Call(p) = "accept" /\ program = "sock_c_u" /\ program \in Programs
      /\ p \in Servers /\ who[p].at = 3 /\ Last(p) \in Nat /\ who[p].at <= Last(p)
  BY <1>1, AtFacts, WhereCalls
<1>3. /\ who \in [C!Proc -> Record] /\ box \in [C!End -> Seq(Message)]
      /\ backlog \in [Servers -> Seq(Clients)]
  BY DEF Inv, Typed
<1>4. /\ backlog[p] \in Seq(Clients) /\ Tail(backlog[p]) \in Seq(Clients)
      /\ Len(Tail(backlog[p])) = Len(backlog[p]) - 1
      /\ \A k \in 1 .. Len(Tail(backlog[p])) : Tail(backlog[p])[k] = backlog[p][k + 1]
      /\ c \in Clients /\ c = backlog[p][1] /\ 1 \in 1 .. Len(backlog[p])
      /\ Len(backlog[p]) \in Nat
  BY <1>1, <1>2, <1>3, HeadTailProperties
<1>5. Waits(p, 1)
  BY <1>2, <1>4 DEF Inv, Linked
<1>6. /\ \A t \in Servers : /\ who[t].sock # e
                            /\ \A j \in 1 .. Len(backlog[t]) : backlog[t][j] = c => t = p /\ j = 1
      /\ who[c].sock = <<c, "client">>
      /\ Follows(c, box[e], 0) /\ Len(box[e]) = who[c].said
  BY <1>2, <1>4, <1>5 DEF Inv, Waits, Streams
<1> HIDE DEF c
<1>7. c \in Clients /\ c # p /\ c \in C!Proc /\ e \in C!End /\ e # C!NoEnd
  BY <1>2, <1>4, Names DEF C!NoEnd
<1>8. who[p] \in Record
  BY <1>3
<1>9. who' = [who EXCEPT ![p] = w]
  BY <1>1, <1>3, <1>8 DEF Record
<1>10. /\ w \in Record /\ w.at = 4 /\ w.sock = e
       /\ w.st = "runs" /\ w.heard = who[p].heard /\ w.said = who[p].said
  <2>1. who[p].at + 1 = 4 /\ 4 \in Nat /\ e \in C!End \cup {C!NoEnd}
    BY <1>2, <1>7
  <2> HIDE DEF e
  <2> QED BY <1>2, <1>8, <2>1 DEF Record
<1> HIDE DEF w, e
<1>11. /\ who' \in [C!Proc -> Record] /\ who'[p] = w
       /\ \A r \in C!Proc : r # p => who'[r] = who[r]
  BY <1>3, <1>9, <1>10
<1>12. \A r \in C!Proc : /\ who'[r].st = who[r].st /\ who'[r].said = who[r].said
                         /\ who'[r].heard = who[r].heard
                         /\ r # p => who'[r].sock = who[r].sock /\ who'[r].at = who[r].at
  BY <1>2, <1>10, <1>11
<1>13. /\ backlog' \in [Servers -> Seq(Clients)] /\ backlog'[p] = Tail(backlog[p])
       /\ \A t \in Servers : t # p => backlog'[t] = backlog[t]
  BY <1>1, <1>2, <1>3, <1>4
<1>14. Typed'
  BY <1>1, <1>11, <1>13 DEF Inv, Typed
<1>15. Placed(p)'
  <2>1. who[p].said \in Nat /\ Len(who[p].heard) \in Nat
    BY <1>8 DEF Record
  <2>2. /\ who'[p].said = who[p].said + (IF C!Call(p) = "say" THEN 1 ELSE 0)
        /\ Len(who'[p].heard) = Len(who[p].heard) + (IF C!Call(p) = "hear" THEN 1 ELSE 0)
    BY <1>2, <1>10, <1>11, <2>1
  <2>3. who'[p].at = who[p].at + 1
    BY <1>2, <1>10, <1>11
  <2> QED BY <1>1, <1>2, <1>12, <2>2, <2>3, PlacedOn DEF Inv
<1>16. \A r \in C!Proc : Placed(r)'
  BY <1>1, <1>11, <1>15, PlacedKept DEF Inv
<1>17. Paired'
  BY <1>1, <1>2 DEF Paired
<1>18. Ends'
  <2>1. ASSUME NEW r \in C!Proc PROVE who'[r].at \in Nat /\ who[r].at <= who'[r].at
    <3>1. who[r].at \in Nat
      BY <1>3 DEF Record
    <3>2. CASE r = p
      BY <1>2, <1>10, <1>11, <3>2
    <3>3. CASE r # p
      BY <1>12, <3>1, <3>3
    <3> QED BY <3>2, <3>3
  <2>2. \A d \in Clients : who[d].at = 1 => who'[d].at = 1
    BY <1>2, <1>12, Names
  <2> QED BY <1>1, <1>12, <2>1, <2>2, EndsKept
<1>19. Named'
  <2>1. ASSUME NEW s \in Servers
        PROVE  /\ who'[s].st = "runs" /\ who'[s].at \in 3 .. Rounds + 5 =>
                    who[s].st = "runs" /\ who[s].at \in 3 .. Rounds + 5
               /\ who'[s].st = "no" => who[s].st = "no"
    <3>1. CASE s = p
      BY <1>2, <1>12, <3>1, Names
    <3>2. CASE s # p
      BY <1>11, <3>2, Names
    <3> QED BY <3>1, <3>2
  <2> QED BY <1>1, <2>1, NamedKept
\* Who waits now has waited before, and is not the one that was accepted.
<1>20. ASSUME NEW t \in Servers, NEW k \in 1 .. Len(backlog'[t])
       PROVE  /\ (IF t = p THEN k + 1 ELSE k) \in 1 .. Len(backlog[t])
              /\ backlog'[t][k] = backlog[t][IF t = p THEN k + 1 ELSE k]
              /\ backlog'[t][k] # c /\ backlog'[t][k] \in Clients
  <2>1. CASE t = p
    <3>1. k + 1 \in 1 .. Len(backlog[p]) /\ k + 1 # 1 /\ k \in 1 .. Len(Tail(backlog[p]))
      BY <1>4, <1>13, <1>20, <2>1
    <3>2. backlog'[t][k] = backlog[p][k + 1]
      BY <1>4, <1>13, <2>1, <3>1
    <3>3. backlog[p][k + 1] \in Clients
      BY <1>4, <3>1, ElementOfSeq
    <3> QED BY <1>2, <1>6, <2>1, <3>1, <3>2, <3>3
  <2>2. CASE t # p
    <3>1. backlog'[t] = backlog[t] /\ backlog[t] \in Seq(Clients)
      BY <1>3, <1>13, <2>2
    <3>2. backlog[t][k] \in Clients
      BY <1>20, <3>1, ElementOfSeq
    <3> QED BY <1>6, <2>2, <3>1, <3>2
  <2> QED BY <2>1, <2>2
<1>21. Linked'
  <2>1. \A d \in Clients : who'[d] = who[d]
    BY <1>2, <1>11, Names
  <2>2. ASSUME NEW t \in Servers PROVE who'[t].sock = IF t = p THEN e ELSE who[t].sock
    BY <1>10, <1>11, <1>12, Names
  <2>3. ASSUME NEW d \in Clients, Nowhere(d) PROVE Nowhere(d)'
    <3>1. d # c
      BY <1>2, <1>4, <2>3 DEF Nowhere
    <3>2. e # <<d, "server">>
      BY <3>1 DEF e
    <3>3. \A t \in Servers : who'[t].sock # <<d, "server">>
      BY <2>2, <2>3, <3>2 DEF Nowhere
    <3>4. \A t \in Servers : \A k \in 1 .. Len(backlog'[t]) : backlog'[t][k] # d
      BY <1>20, <2>3 DEF Nowhere
    <3> QED BY <1>1, <2>1, <2>3, <3>3, <3>4 DEF Nowhere
  <2>4. ASSUME NEW s \in Servers, NEW k \in 1 .. Len(backlog'[s]) PROVE Waits(s, k)'
    <3> DEFINE d == backlog'[s][k]
               i == IF s = p THEN k + 1 ELSE k
    <3>1. i \in 1 .. Len(backlog[s]) /\ d = backlog[s][i] /\ d # c /\ d \in Clients
      BY <1>20
    <3>2. Waits(s, i)
      BY <1>2, <3>1 DEF Inv, Linked
    <3>3. /\ \A t \in Servers : /\ who[t].sock # <<d, "server">>
                                /\ \A j \in 1 .. Len(backlog[t]) : backlog[t][j] = d => t = s /\ j = i
          /\ who[d].sock = <<d, "client">>
      BY <3>1, <3>2 DEF Waits
    <3>4. e # <<d, "server">>
      BY <3>1 DEF e
    <3>5. \A t \in Servers : who'[t].sock # <<d, "server">>
      BY <2>2, <3>3, <3>4
    <3>6. ASSUME NEW t \in Servers, NEW j \in 1 .. Len(backlog'[t]), backlog'[t][j] = d
          PROVE  t = s /\ j = k
      <4>1. /\ (IF t = p THEN j + 1 ELSE j) \in 1 .. Len(backlog[t])
            /\ d = backlog[t][IF t = p THEN j + 1 ELSE j]
        BY <1>20, <3>6
      <4>2. t = s /\ (IF t = p THEN j + 1 ELSE j) = i
        BY <3>3, <4>1
      <4>3. j \in Nat /\ k \in Nat
        OBVIOUS
      <4> QED BY <4>2, <4>3
    <3>7. who'[d].sock = <<d, "client">>
      BY <2>1, <3>1, <3>3
    <3> QED BY <3>5, <3>6, <3>7 DEF Waits
  <2>5. \A d \in Clients : /\ who'[d].at = 1 => Nowhere(d)'
                           /\ who'[d].at > 1 => who'[d].sock = <<d, "client">>
    BY <1>2, <2>1, <2>3 DEF Inv, Linked
  <2>6. ASSUME NEW s \in Servers
        PROVE  /\ who'[s].at <= 3 => who'[s].sock = C!NoEnd
               /\ who'[s].at > 3 => \E d \in Clients : who'[s].sock = <<d, "server">>
               /\ who'[s].sock # C!NoEnd => \A t \in Servers : who'[t].sock = who'[s].sock => t = s
    <3>1. CASE s = p
      <4>1. who'[s].at = 4 /\ who'[s].sock = e /\ e = <<c, "server">>
        BY <1>10, <1>11, <3>1 DEF e
      <4>2. \A t \in Servers : who'[t].sock = e => t = s
        BY <1>6, <2>2, <3>1
      <4>3. ~(who'[s].at <= 3)
        BY <4>1
      <4> QED BY <1>7, <4>1, <4>2, <4>3
    <3>2. CASE s # p
      <4>1. who'[s].at = who[s].at /\ who'[s].sock = who[s].sock /\ who[s].sock # e
        BY <1>6, <1>12, <3>2, Names
      <4>2. /\ who[s].at <= 3 => who[s].sock = C!NoEnd
            /\ who[s].at > 3 => \E d \in Clients : who[s].sock = <<d, "server">>
            /\ who[s].sock # C!NoEnd => \A t \in Servers : who[t].sock = who[s].sock => t = s
        BY <1>2 DEF Inv, Linked
      <4> QED BY <2>2, <4>1, <4>2
    <3> QED BY <3>1, <3>2
  <2> QED BY <2>4, <2>5, <2>6 DEF Linked
<1>22. Streams'
  <2>1. ASSUME NEW r \in C!Proc, Listens(r)' PROVE Stream(r)'
    <3>1. r \in Servers
      BY <1>1, <1>2, <2>1 DEF Listens
    <3>2. CASE r = p
      <4>1. C!Partner(p)' = c /\ who'[p].sock = e
        <5>1. who'[p].sock = e
          BY <1>10, <1>11
        <5>2. e[1] = c
          BY DEF e
        <5> QED BY <1>2, <5>1, <5>2 DEF C!Partner
      <4>2. Len(who[p].heard) = 0
        <5>1. Len(who[p].heard) = HeardAt(p, 3)
          BY <1>2 DEF Inv, Placed
        <5>2. HeardAt(p, 3) = 0
          BY <1>2, Names DEF HeardAt, Within
        <5> QED BY <5>1, <5>2
      <4>3. who[p].heard = << >>
        BY <1>8, <4>2, EmptySeq DEF Record
      <4>4. who'[p].heard = << >> /\ who'[c].said = who[c].said /\ box'[e] = box[e]
        BY <1>1, <1>7, <1>12, <4>3
      <4>5. Follows(c, << >>, 0) /\ Follows(c, box[e], Len(<< >>)) /\ Len(<< >>) + Len(box[e]) = who[c].said
        <5>1. box[e] \in Seq(Message) /\ Len(box[e]) \in Nat
          BY <1>3, <1>7
        <5> QED BY <1>6, <5>1 DEF Follows
      <4> QED BY <3>2, <4>1, <4>4, <4>5 DEF Stream, Follows
    <3>3. CASE r # p
      <4>1. who'[r] = who[r]
        BY <1>11, <3>3
      <4>2. Listens(r)
        BY <1>1, <2>1, <4>1 DEF Listens
      <4>3. Stream(r) /\ C!Partner(r) \in C!Proc
        BY <4>2, Listener DEF Inv, Streams
      <4>4. C!Partner(r)' = C!Partner(r)
        <5>1. who'[r].sock = who[r].sock /\ program' = program
          BY <1>1, <4>1
        <5> QED BY <5>1 DEF C!Partner
      <4>5. who'[C!Partner(r)].said = who[C!Partner(r)].said /\ who'[C!Partner(r)].st = who[C!Partner(r)].st
        BY <1>12, <4>3
      <4> QED BY <1>1, <4>1, <4>3, <4>4, <4>5 DEF Stream, Follows
    <3> QED BY <3>2, <3>3
  <2>2. ASSUME NEW s \in Servers, NEW k \in 1 .. Len(backlog'[s]), NEW d, d = backlog'[s][k]
        PROVE  Follows(d, box'[<<d, "server">>], 0) /\ Len(box'[<<d, "server">>]) = who'[d].said
    <3> DEFINE i == IF s = p THEN k + 1 ELSE k
    <3>1. i \in 1 .. Len(backlog[s]) /\ d = backlog[s][i] /\ d \in Clients
      BY <1>20, <2>2
    <3> HIDE DEF i
    <3>2. Follows(d, box[<<d, "server">>], 0) /\ Len(box[<<d, "server">>]) = who[d].said
      BY <1>2, <3>1 DEF Inv, Streams
    <3> QED BY <1>1, <1>12, <3>1, <3>2, Names
  <2> QED BY <2>1, <2>2 DEF Streams, Follows
<1> QED BY <1>14, <1>16, <1>17, <1>18, <1>19, <1>21, <1>22 DEF Inv

\* A client gets into the backlog of the server that has the name.
LEMMA ConnectKeeps == ASSUME C!ConstantsOK, Inv, NEW p \in C!Proc, C!Connect(p) PROVE Inv'
<1> DEFINE e == <<p, "server">>
           w == [who[p] EXCEPT !.at = who[p].at + 1, !.sock = <<p, "client">>]
           n == Len(backlog[name]) + 1
<1>1. C!At(p, "connect")
  BY DEF C!Connect
<1>2. /\ who[p].st = "runs" /\ C!Call(p) = "connect" /\ program = "sock_c_u" /\ program \in Programs
      /\ p \in Clients /\ p \notin Servers /\ who[p].at = 1 /\ Last(p) \in Nat /\ who[p].at <= Last(p)
  BY <1>1, AtFacts, WhereCalls, Names
<1>3. CASE ~C!Listening /\ C!Stop(p, "failed") /\ UNCHANGED name
  BY <1>2, <1>3, StopKeeps
<1>4. CASE /\ name # NoOne /\ who[name].st = "runs"
           /\ who' = [who EXCEPT ![p].at = @ + 1, ![p].sock = <<p, "client">>]
           /\ open' = [open EXCEPT ![<<p, "client">>] = {p}, ![<<p, "server">>] = {name}]
           /\ backlog' = [backlog EXCEPT ![name] = Append(@, p)]
           /\ UNCHANGED <<program, box, name>>
  <2>1. /\ who \in [C!Proc -> Record] /\ box \in [C!End -> Seq(Message)]
        /\ backlog \in [Servers -> Seq(Clients)] /\ open \in [C!End -> SUBSET C!Proc]
        /\ name \in Servers
    BY <1>4 DEF Inv, Typed
  <2>2. /\ who[p] \in Record /\ who[p].said = 0 /\ e \in C!End /\ <<p, "client">> \in C!End
        /\ p \in C!Proc /\ name \in C!Proc /\ e # <<p, "client">>
    <3>1. SaidAt(p, 1) = 0
      BY <1>2, Names DEF SaidAt, Within
    <3>2. who[p].said = 0
      BY <1>2, <3>1 DEF Inv, Placed
    <3> QED BY <1>2, <2>1, <3>2, Names
  <2>3. who' = [who EXCEPT ![p] = w]
    BY <1>4, <2>1, <2>2 DEF Record
  <2>4. /\ w \in Record /\ w.at = 2 /\ w.sock = <<p, "client">>
        /\ w.st = "runs" /\ w.heard = who[p].heard /\ w.said = who[p].said
    <3>1. who[p].at + 1 = 2 /\ 2 \in Nat /\ <<p, "client">> \in C!End \cup {C!NoEnd}
      BY <1>2, <2>2
    <3> QED BY <1>2, <2>2, <3>1 DEF Record
  <2> HIDE DEF w, e
  <2>5. /\ who' \in [C!Proc -> Record] /\ who'[p] = w
        /\ \A r \in C!Proc : r # p => who'[r] = who[r]
    BY <2>1, <2>3, <2>4
  <2>6. \A r \in C!Proc : /\ who'[r].st = who[r].st /\ who'[r].said = who[r].said
                          /\ who'[r].heard = who[r].heard
                          /\ r # p => who'[r].sock = who[r].sock /\ who'[r].at = who[r].at
    BY <1>2, <2>4, <2>5
  <2>7. /\ backlog[name] \in Seq(Clients) /\ Append(backlog[name], p) \in Seq(Clients)
        /\ Len(backlog[name]) \in Nat /\ Len(Append(backlog[name], p)) = n
        /\ \A k \in 1 .. Len(backlog[name]) : Append(backlog[name], p)[k] = backlog[name][k]
        /\ Append(backlog[name], p)[n] = p
    <3>1. backlog[name] \in Seq(Clients)
      BY <2>1
    <3> QED BY <1>2, <3>1, AppendProperties
  <2>8. /\ backlog' \in [Servers -> Seq(Clients)] /\ backlog'[name] = Append(backlog[name], p)
        /\ \A t \in Servers : t # name => backlog'[t] = backlog[t]
    BY <1>4, <2>1, <2>7
  <2>9. /\ open' \in [C!End -> SUBSET C!Proc] /\ open'[<<p, "client">>] = {p}
        /\ \A f \in C!End : f # <<p, "client">> /\ f # e => open'[f] = open[f]
    BY <1>4, <2>1, <2>2 DEF e
  <2>10. Typed'
    BY <1>4, <2>5, <2>8, <2>9 DEF Inv, Typed
  <2>11. Placed(p)'
    <3>1. who[p].said \in Nat /\ Len(who[p].heard) \in Nat
      BY <2>2 DEF Record
    <3>2. /\ who'[p].said = who[p].said + (IF C!Call(p) = "say" THEN 1 ELSE 0)
          /\ Len(who'[p].heard) = Len(who[p].heard) + (IF C!Call(p) = "hear" THEN 1 ELSE 0)
      BY <1>2, <2>4, <2>5, <3>1
    <3>3. who'[p].at = who[p].at + 1
      BY <1>2, <2>4, <2>5
    <3> QED BY <1>2, <1>4, <2>6, <3>2, <3>3, PlacedOn DEF Inv
  <2>12. \A r \in C!Proc : Placed(r)'
    BY <1>4, <2>5, <2>11, PlacedKept DEF Inv
  <2>13. Paired'
    BY <1>2, <1>4 DEF Paired
  <2>14. Ends'
    <3>1. ASSUME NEW c \in Clients, who'[c].st = "runs", who'[c].at \in 2 .. Rounds + 2
          PROVE  c \in open'[<<c, "client">>]
      <4>1. CASE c = p
        BY <2>9, <4>1
      <4>2. CASE c # p
        <5>1. who'[c] = who[c] /\ <<c, "client">> \in C!End /\ <<c, "client">> # <<p, "client">>
          BY <2>5, <4>2, Names
        <5>2. <<c, "client">> # e
          BY DEF e
        <5>3. c \in open[<<c, "client">>]
          BY <1>2, <3>1, <5>1 DEF Inv, Ends
        <5> QED BY <2>9, <5>1, <5>2, <5>3
      <4> QED BY <4>1, <4>2
    <3> QED BY <1>2, <1>4, <3>1 DEF Ends
  <2>15. Named'
    <3>1. \A s \in Servers : who'[s] = who[s]
      BY <1>2, <2>5, Names
    <3> QED BY <1>4, <3>1, NamedKept
  <2>16. Nowhere(p)
    BY <1>2 DEF Inv, Linked
\* Who waits now has waited before, or is p, which waits last.
  <2>17. ASSUME NEW t \in Servers, NEW k \in 1 .. Len(backlog'[t])
         PROVE  \/ k \in 1 .. Len(backlog[t]) /\ backlog'[t][k] = backlog[t][k] /\ backlog'[t][k] # p
                   /\ backlog'[t][k] \in Clients
                \/ t = name /\ k = n /\ backlog'[t][k] = p
    <3>1. \A j \in 1 .. Len(backlog[t]) : backlog[t][j] # p /\ backlog[t][j] \in Clients
      <4>1. backlog[t] \in Seq(Clients)
        BY <2>1
      <4> QED BY <2>16, <4>1, ElementOfSeq DEF Nowhere
    <3>2. CASE t = name
      <4>1. k \in 1 .. n
        BY <2>7, <2>8, <2>17, <3>2
      <4>2. CASE k = n
        BY <2>7, <2>8, <3>2, <4>2
      <4>3. CASE k # n
        <5>1. k \in 1 .. Len(backlog[name])
          BY <2>7, <4>1, <4>3
        <5> QED BY <2>7, <2>8, <3>1, <3>2, <5>1
      <4> QED BY <4>2, <4>3
    <3>3. CASE t # name
      <4>1. backlog'[t] = backlog[t]
        BY <2>8, <3>3
      <4> QED BY <2>17, <3>1, <4>1
    <3> QED BY <3>2, <3>3
  <2> HIDE DEF n
  <2>18. Linked'
    <3>1. \A t \in Servers : who'[t] = who[t]
      BY <1>2, <2>5, Names
    <3>2. ASSUME NEW d \in Clients, d # p, Nowhere(d) PROVE Nowhere(d)'
      <4>1. \A t \in Servers : \A k \in 1 .. Len(backlog'[t]) : backlog'[t][k] # d
        BY <2>17, <3>2 DEF Nowhere
      <4> QED BY <1>4, <2>5, <3>1, <3>2, <4>1, Names DEF Nowhere
    <3>3. ASSUME NEW s \in Servers, NEW k \in 1 .. Len(backlog'[s]) PROVE Waits(s, k)'
      <4> DEFINE d == backlog'[s][k]
      <4>1. CASE k \in 1 .. Len(backlog[s]) /\ d = backlog[s][k] /\ d # p /\ d \in Clients
        <5>1. Waits(s, k)
          BY <1>2, <4>1 DEF Inv, Linked
        <5>2. /\ \A t \in Servers : /\ who[t].sock # <<d, "server">>
                                    /\ \A j \in 1 .. Len(backlog[t]) : backlog[t][j] = d => t = s /\ j = k
              /\ who[d].sock = <<d, "client">>
          BY <4>1, <5>1 DEF Waits
        <5>3. \A t \in Servers : \A j \in 1 .. Len(backlog'[t]) : backlog'[t][j] = d => t = s /\ j = k
          BY <2>17, <4>1, <5>2
        <5>4. who'[d].sock = <<d, "client">>
          BY <2>5, <4>1, <5>2, Names
        <5> QED BY <3>1, <5>2, <5>3, <5>4 DEF Waits
      <4>2. CASE s = name /\ k = n /\ d = p
        <5>1. \A t \in Servers : who'[t].sock # <<d, "server">>
          BY <2>16, <3>1, <4>2 DEF Nowhere
        <5>2. \A t \in Servers : \A j \in 1 .. Len(backlog'[t]) : backlog'[t][j] = d => t = s /\ j = k
          BY <2>17, <4>2
        <5>3. who'[d].sock = <<d, "client">>
          BY <2>4, <2>5, <4>2
        <5> QED BY <5>1, <5>2, <5>3 DEF Waits
      <4> QED BY <2>17, <4>1, <4>2
    <3>4. ASSUME NEW d \in Clients
          PROVE  /\ who'[d].at = 1 => Nowhere(d)'
                 /\ who'[d].at > 1 => who'[d].sock = <<d, "client">>
      <4>1. CASE d = p
        BY <2>4, <2>5, <4>1
      <4>2. CASE d # p
        BY <1>2, <2>5, <3>2, <4>2, Names DEF Inv, Linked
      <4> QED BY <4>1, <4>2
    <3>5. \A s \in Servers :
             /\ who'[s].at <= 3 => who'[s].sock = C!NoEnd
             /\ who'[s].at > 3 => \E d \in Clients : who'[s].sock = <<d, "server">>
             /\ who'[s].sock # C!NoEnd => \A t \in Servers : who'[t].sock = who'[s].sock => t = s
      BY <1>2, <3>1 DEF Inv, Linked
    <3> QED BY <3>3, <3>4, <3>5 DEF Linked
  <2>19. Streams'
    <3>1. ASSUME NEW r \in C!Proc, Listens(r)' PROVE Stream(r)'
      <4>1. who'[r] = who[r]
        BY <1>2, <1>4, <2>5, <3>1, Names DEF Listens
      <4>2. Listens(r)
        BY <1>4, <3>1, <4>1 DEF Listens
      <4>3. Stream(r) /\ C!Partner(r) \in C!Proc
        BY <4>2, Listener DEF Inv, Streams
      <4>4. C!Partner(r)' = C!Partner(r)
        <5>1. who'[r].sock = who[r].sock /\ program' = program
          BY <1>4, <4>1
        <5> QED BY <5>1 DEF C!Partner
      <4>5. who'[C!Partner(r)].said = who[C!Partner(r)].said /\ who'[C!Partner(r)].st = who[C!Partner(r)].st
        BY <2>6, <4>3
      <4>6. box' = box
        BY <1>4
      <4> QED BY <4>1, <4>3, <4>4, <4>5, <4>6 DEF Stream, Follows
    <3>2. ASSUME NEW s \in Servers, NEW k \in 1 .. Len(backlog'[s]), NEW d, d = backlog'[s][k]
          PROVE  Follows(d, box'[<<d, "server">>], 0) /\ Len(box'[<<d, "server">>]) = who'[d].said
      <4>1. CASE k \in 1 .. Len(backlog[s]) /\ d = backlog[s][k] /\ d # p /\ d \in Clients
        <5>1. Follows(d, box[<<d, "server">>], 0) /\ Len(box[<<d, "server">>]) = who[d].said
          BY <1>2, <4>1 DEF Inv, Streams
        <5> QED BY <1>4, <2>6, <4>1, <5>1, Names
      <4>2. CASE d = p
        <5>1. box'[<<d, "server">>] = << >> /\ who'[d].said = 0
          BY <1>4, <2>2, <2>6, <2>16, <4>2 DEF Nowhere
        <5> QED BY <5>1 DEF Follows
      <4> QED BY <2>17, <3>2, <4>1, <4>2
    <3> QED BY <3>1, <3>2 DEF Streams, Follows
  <2> QED BY <2>10, <2>12, <2>13, <2>14, <2>15, <2>18, <2>19 DEF Inv
<1> QED BY <1>3, <1>4 DEF C!Connect

-----------------------------------------------------------------------------
LEMMA StutterKeeps == Inv /\ UNCHANGED C!vars => Inv'
<1> SUFFICES ASSUME Inv, UNCHANGED C!vars PROVE Inv'
  OBVIOUS
<1>1. /\ program' = program /\ who' = who /\ box' = box /\ open' = open /\ name' = name
      /\ backlog' = backlog
  BY DEF C!vars, C!kernel
<1>2. Typed' /\ Paired' /\ Ends' /\ Named' /\ \A p \in C!Proc : Placed(p)'
  BY <1>1, PlacedKept DEF Inv, Typed, Paired, Ends, Named, Alone
<1>3. Linked'
  <2>1. \A p \in C!Proc : who[p].at \in Nat /\ who'[p].at = who[p].at /\ who'[p].sock = who[p].sock
    BY <1>1 DEF Inv, Typed, Record
  <2>2. \A p \in Clients \cup Servers : p \in C!Proc
    BY DEF C!Proc
  <2> QED BY <1>1, <2>1, <2>2, QuietLinks
<1>4. Streams'
  BY ZenonT(30), <1>1 DEF Inv, Streams, Listens, Stream, C!Partner, Follows
<1> QED BY <1>2, <1>3, <1>4 DEF Inv

LEMMA InvStep == ASSUME C!ConstantsOK, Inv, [C!Next]_(C!vars) PROVE Inv'
<1>1. CASE UNCHANGED C!vars
  BY <1>1, StutterKeeps
<1>2. ASSUME NEW p \in C!Proc, C!OwnStep(p) PROVE Inv'
  <2>1. CASE C!Exit(p) \/ C!Fork(p) \/ C!Drop(p) \/ C!Close(p)
    BY <2>1, ExitKeeps, ForkKeeps, DropKeeps, CloseKeeps
  <2>2. CASE C!Say(p) \/ C!Hear(p) \/ C!WaitChild(p) \/ C!PrintNote(p)
    BY <2>2, SayKeeps, HearKeeps, WaitChildKeeps, PrintNoteKeeps
  <2>3. CASE C!Unlink(p) \/ C!Bind(p) \/ C!Accept(p) \/ C!Connect(p) \/ C!CleanUp(p)
    BY <2>3, UnlinkKeeps, BindKeeps, AcceptKeeps, ConnectKeeps, CleanUpKeeps
  <2> QED BY <1>2, <2>1, <2>2, <2>3 DEF C!OwnStep
<1>3. ASSUME NEW p \in C!Proc, C!AcceptFails(p) \/ C!Start(p) \/ C!Signal(p) \/ C!Kill(p) PROVE Inv'
  BY <1>3, AcceptFailsKeeps, StartKeeps, SignalKeeps, KillKeeps
<1> QED BY <1>1, <1>2, <1>3 DEF C!Next

\* The invariant holds of all four programs.
THEOREM ConversationsInvariant == C!ConstantsOK => (C!Spec => []Inv)
<1> SUFFICES ASSUME C!ConstantsOK PROVE C!Spec => []Inv
  OBVIOUS
<1>1. C!Init => Inv
  BY InvInit
<1>2. Inv /\ [C!Next]_(C!vars) => Inv'
  BY InvStep
<1> QED BY <1>1, <1>2, PTL DEF C!Spec

\* The type invariant of Conversations: whoever starts, is killed, connects or signals.
LEMMA InvTypes == ASSUME C!ConstantsOK, Inv PROVE C!TypeOK
<1>1. ASSUME NEW p \in C!Proc
      PROVE  /\ who[p].st \in {"no", "runs", "done", "failed", "killed"}
             /\ who[p].at \in 1 .. Len(C!Code(p)) + 1
             /\ who[p].sock \in C!End \cup {C!NoEnd}
             /\ who[p].said \in 0 .. Rounds
  <2>1. who[p] \in Record /\ program \in Programs /\ Placed(p)
    BY DEF Inv, Typed
  <2>2. Len(C!Code(p)) = Last(p) /\ who[p].at \in 1 .. Last(p) + 1 /\ who[p].said = SaidAt(p, who[p].at)
    BY <2>1, CodeFacts DEF Placed
  <2>3. SaidAt(p, who[p].at) \in 0 .. Rounds
    BY <2>1, <2>2, CountBounds
  <2> QED BY <2>1, <2>2, <2>3 DEF Record, Status
<1>2. /\ program \in Programs /\ open \in [C!End -> SUBSET C!Proc] /\ name \in Servers \cup {NoOne}
      /\ backlog \in [Servers -> Seq(Clients)]
  BY DEF Inv, Typed
<1> QED BY <1>1, <1>2 DEF C!TypeOK

\* TypeOK of Conversations: every process stays at a place of its list of calls, and no
\* more is sent than the list says, whoever starts, fails, is killed or signals.
THEOREM ConversationsTypeCorrect == C!ConstantsOK => (C!Spec => []C!TypeOK)
<1> SUFFICES ASSUME C!ConstantsOK PROVE C!Spec => []C!TypeOK
  OBVIOUS
<1>1. Inv => C!TypeOK
  BY InvTypes
<1> QED BY <1>1, ConversationsInvariant, PTL

LEMMA InvComplete == ASSUME C!ConstantsOK, Inv PROVE C!EndsComplete
<1> SUFFICES ASSUME NEW p \in C!Proc, who[p].st = "done", C!Partner(p) \in C!Proc,
                    who[C!Partner(p)].st # "killed"
             PROVE  who[p].heard = [k \in 1 .. who[C!Partner(p)].said |-> <<C!Partner(p), k>>]
  BY DEF C!EndsComplete
<1> DEFINE q == C!Partner(p)
           l == who[p].heard
           b == box[who[p].sock]
<1>1. /\ program \in Programs /\ who[p] \in Record /\ who[q] \in Record /\ Placed(p) /\ Placed(q)
      /\ box \in [C!End -> Seq(Message)] /\ program \in {"socketpair", "spair", "sock_c_u", "exchange"}
  BY DEF Inv, Typed, C!ConstantsOK
<1>2. /\ Last(p) \in Nat /\ who[p].at = Last(p) + 1 /\ who[p].at \in 1 .. Last(p) + 1
      /\ Len(l) = HeardAt(p, Last(p) + 1)
      /\ Last(q) \in Nat /\ who[q].at \in 1 .. Last(q) + 1 /\ who[q].said = SaidAt(q, who[q].at)
  BY <1>1, CodeFacts DEF Placed
<1>3. l \in Seq(Message) /\ Len(l) \in Nat
  BY <1>1 DEF Record
<1>4. program # "sock_c_u" => p \in {Parent, Child}
  BY DEF Inv, Paired
\* Everybody who ends has read as much as there can be.
<1>5. program = "exchange" \/ (Listens(p) /\ who[q].said <= Len(l)) \/ (program = "sock_c_u" /\ p \notin Servers)
  <2>1. CASE program = "sock_c_u" /\ p \in Servers
    <3>1. Last(p) = Rounds + 5
      BY <2>1 DEF Last
    <3>2. HeardAt(p, Last(p) + 1) = Rounds
      BY <1>1, <1>2, <2>1, <3>1, CountBounds, Names
    <3>3. SaidAt(q, who[q].at) \in 0 .. Rounds
      BY <1>1, <1>2, CountBounds
    <3>4. who[p].at > 3
      BY <1>2, <3>1, Names
    <3>5. who[p].sock # C!NoEnd
      <4>1. PICK c \in Clients : who[p].sock = <<c, "server">>
        BY <2>1, <3>4 DEF Inv, Linked
      <4> QED BY <4>1, Names DEF C!NoEnd
    <3> QED BY <1>2, <2>1, <3>2, <3>3, <3>5, Names DEF Listens
  <2>2. CASE program = "socketpair"
    <3>1. Last(p) + 1 >= 2 * Rounds + 2
      BY <2>2, Names DEF Last
    <3>2. HeardAt(p, Last(p) + 1) = Rounds
      BY <1>1, <1>2, <2>2, <3>1, CountBounds
    <3>3. SaidAt(q, who[q].at) \in 0 .. Rounds
      BY <1>1, <1>2, CountBounds
    <3> QED BY <1>2, <1>4, <2>2, <3>2, <3>3, Names DEF Listens
  <2>3. CASE program = "spair"
    <3>1. HeardAt(p, Last(p) + 1) = 1
      BY <1>1, <1>2, <2>3, CountBounds
    <3>2. SaidAt(q, who[q].at) \in 0 .. Rounds /\ SaidAt(q, who[q].at) <= 1
      BY <1>1, <1>2, <2>3, CountBounds
    <3> QED BY <1>2, <1>4, <2>3, <3>1, <3>2, Names DEF Listens
  <2> QED BY <1>1, <2>1, <2>2, <2>3
<1>6. CASE Listens(p) /\ who[q].said <= Len(l)
  <2>1. who[p].sock \in C!End /\ Stream(p)
    BY <1>6, Listener DEF Inv, Streams
  <2>2. Follows(q, l, 0) /\ Len(l) + Len(b) = who[q].said
    BY <2>1 DEF Stream
  <2>3. Len(b) \in Nat
    BY <1>1, <2>1
  <2> HIDE DEF b, l, q
  <2>4. Len(l) = who[q].said
    BY <1>3, <1>6, <2>2, <2>3
  <2>5. l = [k \in 1 .. Len(l) |-> l[k]]
    BY <1>3
  <2>6. \A k \in 1 .. Len(l) : l[k] = <<q, k>>
    BY <2>2 DEF Follows
  <2>7. l = [k \in 1 .. who[q].said |-> <<q, k>>]
    BY <2>4, <2>5, <2>6
  <2> QED BY <2>7 DEF l, q
<1>7. CASE program = "exchange"
  <2>1. Len(l) = 0 /\ who[q].said = 0
    BY <1>1, <1>2, <1>7, CountBounds
  <2>2. l = << >>
    BY <1>3, <2>1, EmptySeq
  <2>3. [k \in 1 .. 0 |-> <<q, k>>] = << >>
    OBVIOUS
  <2> QED BY <2>1, <2>2, <2>3
<1>8. CASE program = "sock_c_u" /\ p \notin Servers
  BY <1>8, Names DEF C!Partner, C!ConstantsOK, C!Proc
<1> QED BY <1>5, <1>6, <1>7, <1>8

\* EndsComplete of Conversations: who comes to the end of socketpair, spair or sock_c_u_srv
\* has printed all that a partner that was not killed has sent, in order.
THEOREM PartnersHeard == C!ConstantsOK => (C!Spec => []C!EndsComplete)
<1> SUFFICES ASSUME C!ConstantsOK PROVE C!Spec => []C!EndsComplete
  OBVIOUS
<1>1. Inv => C!EndsComplete
  BY InvComplete
<1> QED BY <1>1, ConversationsInvariant, PTL

LEMMA InvFound == ASSUME C!ConstantsOK, Inv PROVE C!ListenerIsFound
<1> SUFFICES ASSUME NEW s \in Servers, C!At(s, "accept"), name # s
             PROVE  \E t \in Servers \ {s} : who[t].st # "no"
  BY DEF C!ListenerIsFound
<1>1. who[s].st = "runs" /\ program = "sock_c_u" /\ who[s].at = 3
  BY AtFacts, WhereCalls, Names
<1>2. who[s].at \in 3 .. Rounds + 5
  BY <1>1, Names
<1>3. ~Alone(s)
  BY <1>1, <1>2 DEF Inv, Named
<1> QED BY <1>3 DEF Alone

\* ListenerIsFound of Conversations: a server of sock_c_u that waits in accept has its name,
\* unless another server was started that took it away.
THEOREM WaitingServerFound == C!ConstantsOK => (C!Spec => []C!ListenerIsFound)
<1> SUFFICES ASSUME C!ConstantsOK PROVE C!Spec => []C!ListenerIsFound
  OBVIOUS
<1>1. Inv => C!ListenerIsFound
  BY InvFound
<1> QED BY <1>1, ConversationsInvariant, PTL
=============================================================================
