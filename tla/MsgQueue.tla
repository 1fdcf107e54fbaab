----------------------------- MODULE MsgQueue ------------------------------
(***************************************************************************)
(* the_mess_que: people who talk through the message queue of key 'B'.     *)
(* sender and mod_sender make the queue if it is not there, send a line at *)
(* a time and remove the queue at the end of their input; receiver and     *)
(* mod_receiver attach to it and print what arrives; gener_mq and          *)
(* mod_gener make queues for the keys 'A' to 'E' and remove them, whoever  *)
(* uses them.                                                              *)
(*                                                                         *)
(* A message is [from, n, type]: the n-th buffer that fgets gave to        *)
(* process from.  The other four keys have no other user, and so have the  *)
(* segment and the semaphore of mod_gener.  The kernel's part is modelled  *)
(* from how the programs use it.                                           *)
(***************************************************************************)
EXTENDS Integers, Sequences, SequencesExt

CONSTANTS
    PlainSenders,    \* runs of sender
    ModSenders,      \* runs of mod_sender
    PlainReceivers,  \* runs of receiver
    ModReceivers,    \* runs of mod_receiver
    Generators,      \* runs of gener_mq or mod_gener
    Numbers,         \* what may be entered as the type to receive
    Capacity,        \* messages that a queue holds
    MaxLines,        \* bound: lines a person types
    MaxQueues        \* bound: queues made under the key

Senders   == PlainSenders \cup ModSenders
Receivers == PlainReceivers \cup ModReceivers
Procs     == Senders \cup Receivers \cup Generators
Types     == {1, 2}

ConstantsOK ==
    /\ Senders \cap Receivers = {}
    /\ (Senders \cup Receivers) \cap Generators = {}
    /\ PlainSenders \cap ModSenders = {} /\ PlainReceivers \cap ModReceivers = {}
    /\ Numbers \subseteq Int
    /\ Capacity \in Nat \ {0} /\ MaxLines \in Nat /\ MaxQueues \in Nat

ASSUME ConstantsAssumption == ConstantsOK

Messages  == [from : Senders, n : 1 .. MaxLines, type : Types]
NoQueue   == 0
NoMessage == [type |-> 0]

VARIABLES
    key,      \* the queue that has key 'B', or NoQueue
    made,     \* number of queues made, the last has this number
    queue,    \* the messages in queue key
    pc,       \* "start", then where the program is, "done" (exit(0)) or "failed"
    msqid,    \* local msqid (mid[1] in gener_mq)
    buf,      \* local buf of senders and receivers
    typed,    \* lines that a person has typed
    refused,  \* senders that have printed an error of msgsnd
    msgtype   \* the fourth argument of msgrcv

vars == <<key, made, queue, pc, msqid, buf, typed, refused, msgtype>>

Init ==
    /\ key = NoQueue /\ made = 0 /\ queue = << >>
    /\ pc = [p \in Procs |-> "start"] /\ msqid = [p \in Procs |-> NoQueue]
    /\ buf = [p \in Senders \cup Receivers |-> NoMessage]
    /\ typed = [s \in Senders |-> 0] /\ refused = {}
    /\ msgtype = [r \in Receivers |-> 0]

Goto(p, label) == pc' = [pc EXCEPT ![p] = label]

\* A call on the queue of p succeeds only while that queue is there.
Attached(p) == msqid[p] = key

-----------------------------------------------------------------------------
(***************************************************************************)
(* msgget.                                                                 *)
(***************************************************************************)

\* msgget(key, IPC_CREAT): the queue of the key, a new one if there is none.
GetOrCreate(p, label) ==
    /\ IF key = NoQueue
       THEN made < MaxQueues /\ made' = made + 1 /\ key' = made + 1
       ELSE UNCHANGED <<made, key>>
    /\ msqid' = [msqid EXCEPT ![p] = key']
    /\ Goto(p, label)
    /\ UNCHANGED <<queue, buf, typed, refused, msgtype>>

SenderOpens(s) == pc[s] = "start" /\ GetOrCreate(s, "typing")

\* mod_receiver then asks for the type to receive.
ReceiverOpens(r) ==
    /\ pc[r] = "start" /\ key # NoQueue
    /\ msqid' = [msqid EXCEPT ![r] = key]
    /\ Goto(r, IF r \in ModReceivers THEN "asking" ELSE "receiving")
    /\ UNCHANGED <<key, made, queue, buf, typed, refused, msgtype>>

\* ftok or msgget fails: for a receiver when there is no queue, for the others
\* when the system has no room.  mod_gener nearly always fails before that: it
\* gives the number of a segment to mmap.
OpenFails(p) ==
    /\ pc[p] = "start"
    /\ p \in Receivers => key = NoQueue
    /\ Goto(p, "failed")
    /\ UNCHANGED <<key, made, queue, msqid, buf, typed, refused, msgtype>>

\* The answer to "Enter the message type"; without a number, what was in the
\* variable.
EnterType(r) ==
    /\ pc[r] = "asking"
    /\ \E t \in Numbers : msgtype' = [msgtype EXCEPT ![r] = t]
    /\ Goto(r, "receiving")
    /\ UNCHANGED <<key, made, queue, msqid, buf, typed, refused>>

-----------------------------------------------------------------------------
(***************************************************************************)
(* Senders.                                                                *)
(***************************************************************************)

LineType(s, first) == IF s \in ModSenders /\ first = "!" THEN 2 ELSE 1

TypeLine(s) ==
    /\ pc[s] = "typing" /\ typed[s] < MaxLines
    /\ \E first \in {"!", "other"} :
         buf' = [buf EXCEPT ![s] =
                   [from |-> s, n |-> typed[s] + 1, type |-> LineType(s, first)]]
    /\ typed' = [typed EXCEPT ![s] = @ + 1]
    /\ Goto(s, "sending")
    /\ UNCHANGED <<key, made, queue, msqid, refused, msgtype>>

\* msgsnd waits while the queue is full.
Send(s) ==
    /\ pc[s] = "sending" /\ Attached(s) /\ Len(queue) < Capacity
    /\ queue' = Append(queue, buf[s])
    /\ Goto(s, "typing")
    /\ UNCHANGED <<key, made, msqid, buf, typed, refused, msgtype>>

\* The queue is gone, before or while msgsnd waits: perror, and the next line.
SendFails(s) ==
    /\ pc[s] = "sending" /\ ~Attached(s)
    /\ refused' = refused \cup {s}
    /\ Goto(s, "typing")
    /\ UNCHANGED <<key, made, queue, msqid, buf, typed, msgtype>>

RemoveQueue == key' = NoQueue /\ queue' = << >>

\* Slip: the result of msgctl is not looked at.
RmidUnchecked(s) ==
    /\ pc[s] = "typing"
    /\ IF Attached(s) THEN RemoveQueue ELSE UNCHANGED <<key, queue>>
    /\ Goto(s, "done")
    /\ UNCHANGED <<made, msqid, buf, typed, refused, msgtype>>

\* End of input.
Rmid(s) ==
    /\ pc[s] = "typing"
    /\ IF Attached(s) THEN RemoveQueue /\ Goto(s, "done")
                      ELSE Goto(s, "failed") /\ UNCHANGED <<key, queue>>
    /\ UNCHANGED <<made, msqid, buf, typed, refused, msgtype>>

-----------------------------------------------------------------------------
(***************************************************************************)
(* Receivers.                                                              *)
(***************************************************************************)

\* Slip: receiver asks for type 1.
WantsOne(r, t) ==
    LET n == IF r \in PlainReceivers THEN 1 ELSE msgtype[r]
    IN n = 0 \/ t = n \/ (n < 0 /\ t <= -n)

\* msgtype 0 stands for any message, n > 0 for type n, n < 0 for types up to -n.
Wants(r, t) == LET n == msgtype[r] IN n = 0 \/ t = n \/ (n < 0 /\ t <= -n)

Wanted(r) == {k \in DOMAIN queue : Wants(r, queue[k].type)}

\* The position of the message that msgrcv gives: the first one, for n < 0 the
\* first one of the lowest type.
Position(r) ==
    CHOOSE k \in Wanted(r) : \A j \in Wanted(r) :
        IF msgtype[r] < 0 /\ queue[j].type # queue[k].type
        THEN queue[k].type < queue[j].type
        ELSE k <= j

\* Slip: the newest message instead of the oldest.
ReceiveLast(r) ==
    /\ pc[r] = "receiving" /\ Attached(r) /\ Wanted(r) # {}
    /\ \E k \in Wanted(r) : /\ \A j \in Wanted(r) : j <= k
                            /\ buf' = [buf EXCEPT ![r] = queue[k]]
                            /\ queue' = RemoveAt(queue, k)
    /\ UNCHANGED <<key, made, pc, msqid, typed, refused, msgtype>>

Receive(r) ==
    /\ pc[r] = "receiving" /\ Attached(r) /\ Wanted(r) # {}
    /\ buf' = [buf EXCEPT ![r] = queue[Position(r)]]
    /\ queue' = RemoveAt(queue, Position(r))
    /\ UNCHANGED <<key, made, pc, msqid, typed, refused, msgtype>>

\* The queue is gone, before or while msgrcv waits: exit(1).
ReceiveFails(r) ==
    /\ pc[r] = "receiving" /\ ~Attached(r)
    /\ Goto(r, "failed")
    /\ UNCHANGED <<key, made, queue, msqid, buf, typed, refused, msgtype>>

-----------------------------------------------------------------------------
(***************************************************************************)
(* gener_mq, mod_gener, and kills.                                         *)
(***************************************************************************)

\* msgget for 'A' has succeeded, now for 'B'.
GeneratorOpens(g) == pc[g] = "start" /\ GetOrCreate(g, "showing")

\* msgget for 'C', 'D' or 'E' fails, or in mod_gener the removal of the segment
\* or the semaphore: exit(1), what was made stays.
GeneratorFails(g) ==
    /\ pc[g] = "showing"
    /\ Goto(g, "failed")
    /\ UNCHANGED <<key, made, queue, msqid, buf, typed, refused, msgtype>>

\* The results of msgctl are not looked at.
GeneratorRemoves(g) ==
    /\ pc[g] = "showing"
    /\ IF Attached(g) THEN RemoveQueue ELSE UNCHANGED <<key, queue>>
    /\ Goto(g, "done")
    /\ UNCHANGED <<made, msqid, buf, typed, refused, msgtype>>

\* The queue and its messages stay.  A program that waits for its user may stay
\* there for ever, which is the same for the others as being killed.
Kill(p) ==
    /\ pc[p] \in {"sending", "receiving"}
    /\ Goto(p, "failed")
    /\ UNCHANGED <<key, made, queue, msqid, buf, typed, refused, msgtype>>

-----------------------------------------------------------------------------
Sender(s)    == SenderOpens(s) \/ TypeLine(s) \/ Send(s) \/ SendFails(s) \/ Rmid(s)
Receiver(r)  == ReceiverOpens(r) \/ EnterType(r) \/ Receive(r) \/ ReceiveFails(r)
Generator(g) == GeneratorOpens(g) \/ GeneratorFails(g) \/ GeneratorRemoves(g)

Next ==
    \/ \E s \in Senders : Sender(s)
    \/ \E r \in Receivers : Receiver(r)
    \/ \E g \in Generators : Generator(g)
    \/ \E p \in Procs : OpenFails(p) \/ Kill(p)

Spec == Init /\ [][Next]_vars

\* A call that waits returns once it can.  What people type, and that they end
\* their input, is up to them.
Fairness ==
    /\ \A s \in Senders : WF_vars(Send(s) \/ SendFails(s))
    /\ \A r \in Receivers : WF_vars(Receive(r) \/ ReceiveFails(r))

FairSpec == Spec /\ Fairness

-----------------------------------------------------------------------------
(***************************************************************************)
(* Properties.                                                             *)
(***************************************************************************)

TypeOK ==
    /\ key \in {NoQueue, made} /\ made \in 0 .. MaxQueues
    /\ queue \in Seq(Messages) /\ Len(queue) <= Capacity
    /\ pc \in [Procs -> {"start", "typing", "sending", "asking", "receiving",
                         "showing", "done", "failed"}]
    /\ msqid \in [Procs -> 0 .. MaxQueues]
    /\ buf \in [Senders \cup Receivers -> Messages \cup {NoMessage}]
    /\ typed \in [Senders -> 0 .. MaxLines] /\ refused \subseteq Senders
    /\ msgtype \in [Receivers -> Int]

\* A sender that exits with 0 has had every line accepted: its queue was still
\* there at the end, so no msgsnd before can have failed.
CleanExitMeansAccepted == \A s \in Senders : pc[s] = "done" => s \notin refused

\* The messages of type t in q, in their order.
OfType(q, t) ==
    LET f[k \in 0 .. Len(q)] ==
            IF k = 0 THEN << >>
            ELSE IF q[k].type = t THEN Append(f[k - 1], q[k]) ELSE f[k - 1]
    IN f[Len(q)]

\* What TypedQueue sees: the messages by type, and the last one of each receiver.
Pending == [t \in Types |-> OfType(queue, t)]
Got == [r \in Receivers |-> buf[r]]

\* The queue implements one FIFO per type through creations and removals of the
\* queue, senders and receivers of both kinds, generators and kills.
Service == INSTANCE TypedQueue WITH Readers <- Receivers, pending <- Pending, got <- Got

ImplementsTypedQueue == Service!Spec

\* Nobody hangs on a queue: while a receiver of all types serves it, no sender waits
\* for ever because it is full, and after its removal a receiver ends; it neither waits
\* for ever nor takes messages of the next queue under the key.
NobodyHangs ==
    /\ \A s \in Senders, r \in PlainReceivers :
         pc[s] = "sending" ~> \/ pc[s] # "sending" \/ pc[r] # "receiving"
                              \/ msqid[r] # msqid[s]
    /\ \A r \in Receivers : pc[r] = "receiving" /\ ~Attached(r) ~> pc[r] = "failed"
=============================================================================
