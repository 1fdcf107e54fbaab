---------------------------- MODULE Conversations ----------------------------
(***************************************************************************)
(* Programs in which two processes take turns:                             *)
(*   "socketpair"  socketpair.cpp: parent and child, Rounds times each;    *)
(*   "spair"       spair.c: one byte there and back;                       *)
(*   "sock_c_u"    sock_c_u_srv and sock_c_u_clt: a server prints the      *)
(*                 lines of one client, over a socket in the file system;  *)
(*   "exchange"    signal_exchange.cpp: parent and child signal each other.*)
(* A process runs the list of its system calls.  A message is its sender   *)
(* and a number, since every read asks for as much as one write gives.     *)
(*                                                                         *)
(* A connection has two ends, each of which may be open in more than one   *)
(* process; it is named after its client or child.                         *)
(***************************************************************************)
EXTENDS Integers, Sequences

CONSTANTS
    Servers, Clients,
    Parent, Child,     \* the server and the client that stand for a pair
    NoOne,
    Programs,          \* the programs that are considered
    Rounds             \* 5 turns of socketpair, 10 lines of sock_c_u

ConstantsOK ==
    /\ Parent \in Servers /\ Child \in Clients /\ Servers \cap Clients = {}
    /\ NoOne \notin Servers \cup Clients
    /\ Programs \subseteq {"socketpair", "spair", "sock_c_u", "exchange"}
    /\ Rounds \in Nat \ {0}

ASSUME ConversationsAssumption == ConstantsOK

VARIABLES
    program,
    who,      \* of a process: st, "no", "runs", "done", "failed" or "killed"; at, its
              \* place in the list; sock, the end it uses; said, messages it has sent;
              \* heard, what it printed of the others
    box,      \* what can be read at an end
    open,     \* the processes that have an end open
    name,     \* the server that "my_sock" leads to
    backlog   \* clients that wait for the accept of a server

kernel == <<box, open, name, backlog>>
vars == <<program, who, kernel>>

Proc == Servers \cup Clients
End == Clients \X {"client", "server"}
Other(e) == IF e[2] = "client" THEN <<e[1], "server">> ELSE <<e[1], "client">>
NoEnd == <<NoOne, "client">>

-----------------------------------------------------------------------------
(***************************************************************************)
(* The lists of calls.                                                     *)
(***************************************************************************)

Times(n, s) == [k \in 1 .. n * Len(s) |-> s[1 + ((k - 1) % Len(s))]]

\* Slip: one read too many.
SrvOneMore ==
    <<"unlink", "bind", "accept">> \o Times(Rounds + 1, <<"hear">>) \o <<"close", "clean_up">>

\* Slip: the old name is removed after bind.
SrvUnlinksLate ==
    <<"bind", "unlink", "accept">> \o Times(Rounds, <<"hear">>) \o <<"close", "clean_up">>

\* Slip: parent and child both begin with read.
PairBothHear == <<"drop">> \o Times(Rounds, <<"hear", "say">>) \o <<"close">>

\* Slip: one line too many.
CltOneMore == <<"connect">> \o Times(Rounds + 1, <<"say">>) \o <<"close">>

\* socketpair: each process closes the end of the other one.
PairParent == <<"fork", "drop">> \o Times(Rounds, <<"hear", "say">>) \o <<"close">>
PairChild == <<"drop">> \o Times(Rounds, <<"say", "hear">>) \o <<"close">>

\* spair.c: nobody closes anything.
SpairParent == <<"fork", "say", "hear", "wait">>
SpairChild == <<"hear", "say">>

SrvCode == <<"unlink", "bind", "accept">> \o Times(Rounds, <<"hear">>) \o <<"close", "clean_up">>
CltCode == <<"connect">> \o Times(Rounds, <<"say">>) \o <<"close">>

\* signal_exchange: between fork and pause the parent prints; the sleeps take any time.
ExchangeParent == <<"fork", "print", "pause", "signal", "wait">>
ExchangeChild == <<"signal">>

Codes ==
    [socketpair |-> <<PairParent, PairChild>>, spair |-> <<SpairParent, SpairChild>>,
     sock_c_u |-> <<SrvCode, CltCode>>, exchange |-> <<ExchangeParent, ExchangeChild>>]

Code(p) == Codes[program][IF p \in Servers THEN 1 ELSE 2]

\* The call that p is in or comes to.
Call(p) == IF who[p].at <= Len(Code(p)) THEN Code(p)[who[p].at] ELSE "exit"

At(p, c) == who[p].st = "runs" /\ Call(p) = c

-----------------------------------------------------------------------------
Init ==
    /\ program \in Programs
    /\ who = [p \in Proc |->
                [st |-> IF program # "sock_c_u" /\ p = Parent THEN "runs" ELSE "no",
                 at |-> 1, said |-> 0, heard |-> << >>,
                 sock |-> IF program = "sock_c_u" THEN NoEnd
                          ELSE IF p = Parent THEN <<Child, "server">> ELSE <<Child, "client">>]]
    /\ box = [e \in End |-> << >>]
    /\ open = [e \in End |-> IF program \in {"socketpair", "spair"} /\ e[1] = Child
                             THEN {Parent} ELSE {}]
    /\ name = NoOne
    /\ backlog = [s \in Servers |-> << >>]

Step(p) == who' = [who EXCEPT ![p].at = @ + 1]

\* A process that ends has nothing open any more.
Stop(p, how) ==
    /\ who' = [who EXCEPT ![p].st = how]
    /\ open' = [e \in End |-> open[e] \ {p}]
    /\ UNCHANGED <<program, box, backlog>>

\* sock_c_u: servers and clients are started at terminals.
Start(p) ==
    /\ program = "sock_c_u" /\ who[p].st = "no"
    /\ who' = [who EXCEPT ![p].st = "runs"]
    /\ UNCHANGED <<program, kernel>>

Exit(p) == At(p, "exit") /\ Stop(p, "done") /\ UNCHANGED name

Kill(p) == who[p].st = "runs" /\ Stop(p, "killed") /\ UNCHANGED name

\* The child has open what the parent has open.  spair.c takes a failed fork for a
\* parent's.
Fork(p) ==
    /\ At(p, "fork")
    /\ \/ /\ who' = [who EXCEPT ![p].at = @ + 1, ![Child].st = "runs"]
          /\ open' = [e \in End |-> IF p \in open[e] THEN open[e] \cup {Child} ELSE open[e]]
          /\ UNCHANGED <<program, box, name, backlog>>
       \/ /\ program = "spair"
          /\ Step(p) /\ UNCHANGED <<program, kernel>>
       \/ /\ program # "spair"
          /\ Stop(p, "failed") /\ UNCHANGED name

Drop(p) ==
    /\ At(p, "drop")
    /\ open' = [open EXCEPT ![Other(who[p].sock)] = @ \ {p}]
    /\ Step(p)
    /\ UNCHANGED <<program, box, name, backlog>>

Close(p) ==
    /\ At(p, "close")
    /\ open' = [open EXCEPT ![who[p].sock] = @ \ {p}]
    /\ Step(p)
    /\ UNCHANGED <<program, box, name, backlog>>

\* write; SIGPIPE when nobody has the other end.
Say(p) ==
    /\ At(p, "say")
    /\ LET e == Other(who[p].sock) IN
       \/ /\ open[e] # {}
          /\ box' = [box EXCEPT ![e] = Append(@, <<p, who[p].said + 1>>)]
          /\ who' = [who EXCEPT ![p].at = @ + 1, ![p].said = @ + 1]
          /\ UNCHANGED <<program, open, name, backlog>>
       \/ open[e] = {} /\ Stop(p, "killed") /\ UNCHANGED name

\* read, and what is in buf is printed, also when read has failed or found the end.
Hear(p) ==
    /\ At(p, "hear")
    /\ LET e == who[p].sock IN
       \/ /\ box[e] # << >>
          /\ box' = [box EXCEPT ![e] = Tail(@)]
          /\ who' = [who EXCEPT ![p].at = @ + 1, ![p].heard = Append(@, Head(box[e]))]
       \/ /\ box[e] = << >> /\ open[Other(e)] = {}
          /\ who' = [who EXCEPT ![p].at = @ + 1, ![p].heard = Append(@, <<NoOne, 0>>)]
          /\ UNCHANGED box
    /\ UNCHANGED <<program, open, name, backlog>>

WaitChild(p) ==
    /\ At(p, "wait") /\ who[Child].st # "runs"
    /\ Step(p) /\ UNCHANGED <<program, kernel>>

-----------------------------------------------------------------------------
(***************************************************************************)
(* The socket in the file system.                                          *)
(***************************************************************************)

Unlink(p) ==
    /\ At(p, "unlink")
    /\ name' = NoOne
    /\ Step(p)
    /\ UNCHANGED <<program, box, open, backlog>>

\* bind and listen.  When another server has bound the name since this one's unlink,
\* clean_up removes it, and the program exits.
Bind(p) ==
    /\ At(p, "bind")
    /\ \/ /\ name = NoOne /\ name' = p
          /\ Step(p) /\ UNCHANGED <<program, box, open, backlog>>
       \/ /\ name # NoOne /\ name' = NoOne
          /\ Stop(p, "failed")

Accept(p) ==
    /\ At(p, "accept") /\ backlog[p] # << >>
    /\ who' = [who EXCEPT ![p].at = @ + 1, ![p].sock = <<Head(backlog[p]), "server">>]
    /\ backlog' = [backlog EXCEPT ![p] = Tail(@)]
    /\ UNCHANGED <<program, box, open, name>>

\* An error of accept: clean_up, which removes the name whoever's it is, and the exit.
AcceptFails(p) == At(p, "accept") /\ name' = NoOne /\ Stop(p, "failed")

\* The name leads to a server that has not been killed.
Listening == name # NoOne /\ who[name].st = "runs"

\* The kernel connects before the accept; the far end is the server's from then on.
Connect(p) ==
    /\ At(p, "connect")
    /\ \/ /\ name # NoOne /\ who[name].st = "runs"
          /\ who' = [who EXCEPT ![p].at = @ + 1, ![p].sock = <<p, "client">>]
          /\ open' = [open EXCEPT ![<<p, "client">>] = {p}, ![<<p, "server">>] = {name}]
          /\ backlog' = [backlog EXCEPT ![name] = Append(@, p)]
          /\ UNCHANGED <<program, box, name>>
       \/ ~Listening /\ Stop(p, "failed") /\ UNCHANGED name

\* The listening socket, with the clients in its backlog, and the name, whoever's it is.
CleanUp(p) ==
    /\ At(p, "clean_up")
    /\ name' = NoOne
    /\ open' = [e \in End |-> open[e] \ {p}]
    /\ Step(p)
    /\ UNCHANGED <<program, box, backlog>>

-----------------------------------------------------------------------------
(***************************************************************************)
(* Signals.                                                                *)
(***************************************************************************)

PrintNote(p) == At(p, "print") /\ Step(p) /\ UNCHANGED <<program, kernel>>

\* The number is typed in: SIGUSR1 or SIGUSR2, which have a handler, one that ends the
\* process, or one without effect (those that stop a process are left out).  A handled
\* signal is remembered by nobody: it ends a pause that has begun.
Signal(p) ==
    /\ At(p, "signal")
    /\ LET q == IF p = Parent THEN Child ELSE Parent
           moved == [who EXCEPT ![p].at = @ + 1]
       IN \/ /\ who' = moved
             /\ ~At(q, "pause")
             /\ UNCHANGED open
          \/ /\ At(q, "pause")
             /\ who' \in {moved, [moved EXCEPT ![q].at = @ + 1]}
             /\ UNCHANGED open
          \/ /\ who[q].st = "runs"
             /\ who' = [moved EXCEPT ![q].st = "killed"]
             /\ open' = [e \in End |-> open[e] \ {q}]
    /\ UNCHANGED <<program, box, name, backlog>>

-----------------------------------------------------------------------------
OwnStep(p) ==
    \/ Exit(p) \/ Fork(p) \/ Drop(p) \/ Close(p) \/ Say(p) \/ Hear(p) \/ WaitChild(p)
    \/ Unlink(p) \/ Bind(p) \/ Accept(p) \/ Connect(p) \/ CleanUp(p) \/ PrintNote(p)

Next == \E p \in Proc : OwnStep(p) \/ AcceptFails(p) \/ Start(p) \/ Signal(p) \/ Kill(p)

Spec == Init /\ [][Next]_vars

\* A process goes on when its call can return; accept need not fail.  Starting, killing
\* and typing are up to people.
FairSpec == Spec /\ \A p \in Proc : WF_vars(OwnStep(p))

-----------------------------------------------------------------------------
(***************************************************************************)
(* Properties.                                                             *)
(***************************************************************************)

TypeOK ==
    /\ program \in Programs
    /\ \A p \in Proc :
         /\ who[p].st \in {"no", "runs", "done", "failed", "killed"}
         /\ who[p].at \in 1 .. Len(Code(p)) + 1
         /\ who[p].sock \in End \cup {NoEnd}
         /\ who[p].said \in 0 .. Rounds
    /\ \A e \in End : open[e] \subseteq Proc
    /\ name \in Servers \cup {NoOne}
    /\ \A s \in Servers : backlog[s] \in Seq(Clients)

\* Who is at the other end of p's connection: for a server the client it accepted.
Partner(p) ==
    IF p \in Servers THEN who[p].sock[1]
    ELSE IF program = "sock_c_u" THEN NoOne ELSE Parent

\* A process that comes to its normal end has printed all that its partner sent, once
\* and in order, unless the partner was killed: only then does it print what was left
\* in its buffer.  A server of sock_c_u prints the lines of no second client.
EndsComplete ==
    \A p \in Proc : who[p].st = "done" /\ Partner(p) \in Proc =>
        LET q == Partner(p) IN
        who[q].st # "killed" => who[p].heard = [k \in 1 .. who[q].said |-> <<q, k>>]

\* A server that waits for clients is the one that they find, except when a second
\* server has been started: its first step takes the name away, and so does its last.
ListenerIsFound ==
    \A s \in Servers :
        At(s, "accept") /\ name # s => \E t \in Servers \ {s} : who[t].st # "no"

\* The calls that may last for ever.  accept: no client has come.  pause: the child's
\* signal came before, was another one, or the child is gone.  read of spair.c: the
\* parent itself keeps the end open on which the dead or missing child would have written,
\* and so does its child for a parent that is gone.  wait and signal: a child, or the process
\* itself, is at its terminal.
MayStay(p) ==
    \/ At(p, "accept") /\ backlog[p] = << >>
    \/ At(p, "pause") \/ At(p, "signal")
    \/ At(p, "wait") /\ At(Child, "signal")
    \/ program = "spair" /\ At(p, "hear") /\ who[Partner(p)].st # "runs"

\* Every other call returns: each process comes to its end or to one of those.
CallsReturn ==
    \A p \in Proc : who[p].st = "runs" ~> who[p].st # "runs" \/ MayStay(p)
=============================================================================
