--------------------------- MODULE SignalService ---------------------------
(***************************************************************************)
(* signal/6.7: the command service over the FIFO PUBLIC with clients that  *)
(* start the server when they find none, and that SIGINT is to end.        *)
(*   "mod"   6.7/pipe_server_mod answers itself,                           *)
(*   "test"  6.7/test/pipe_server_mod forks a child for each request.      *)
(* The same client comes with both (and as pipe/pipe_client).              *)
(*                                                                         *)
(* PUBLIC is a name that may be unlinked and made again while processes    *)
(* still have the old FIFO open, so a FIFO has a number.  A client has one *)
(* request at a time, and the request is its client.                       *)
(***************************************************************************)
EXTENDS Integers, Sequences, FiniteSets

CONSTANTS
    Programs,    \* the servers that are considered
    Clients, NoClient,
    MaxServers,  \* bound: servers at the same time
    MaxSignals,  \* bound: SIGINTs to servers and their children
    TRIES        \* 5: attempts to open a private FIFO

ASSUME ConstantsAssumption ==
    /\ Programs \subseteq {"mod", "test"} /\ NoClient \notin Clients
    /\ IsFiniteSet(Clients) /\ MaxServers \in Nat \ {0}
    /\ MaxSignals \in Nat /\ TRIES \in Nat \ {0}

VARIABLES
    program,  \* the server that runs
    public,   \* the FIFO that PUBLIC names, NoFifo if there is none
    srv,      \* of a server: "off", "start", "open", "opening" (waits in open),
              \* "dummy", "reading", "try" or "answering"
    inode,    \* the FIFO that a server has open for reading
    dummy,    \* the FIFO that it has open for writing
    msg, n,   \* its locals
    signals,  \* SIGINTs so far
    pc,       \* of a client: "top", "access", "open", "write", "sent", "opening" its
              \* FIFO, "reading", "ended" or "killed"
    running,  \* clientRunning
    private,  \* the client's private FIFO exists
    to,       \* the FIFO that a client has open for writing
    requests, \* the clients whose requests have not been read
    worker    \* who answers a client: "none", "try", "sleep" or "writing"

srvVars == <<public, srv, inode, dummy, msg, n, signals>>
vars == <<program, srvVars, pc, running, private, to, requests, worker>>

NoFifo  == 0
Fifos   == 1 .. Cardinality(Clients) + 2 * MaxServers + 1
Servers == 1 .. MaxServers

Init ==
    /\ program \in Programs
    /\ public = NoFifo /\ signals = 0
    /\ srv = [s \in Servers |-> "off"] /\ msg = [s \in Servers |-> NoClient]
    /\ inode = [s \in Servers |-> NoFifo] /\ dummy = inode
    /\ n = [s \in Servers |-> 0]
    /\ pc = [c \in Clients |-> "top"] /\ running = [c \in Clients |-> TRUE]
    /\ private = [c \in Clients |-> FALSE] /\ to = [c \in Clients |-> NoFifo]
    /\ requests = << >> /\ worker = [c \in Clients |-> "none"]

\* FIFO i is open for reading: by a server, that may still wait in open, or by a
\* child, that has inherited it.
Read(i) ==
    \/ \E s \in Servers : inode[s] = i
    \/ program = "test" /\ \E c \in Clients : to[c] = i /\ worker[c] # "none"

Written(i) == (\E c \in Clients : to[c] = i) \/ (\E s \in Servers : dummy[s] = i)

\* The requests that server s can read.
Pending(s) == SelectSeq(requests, LAMBDA c : to[c] = inode[s])

-----------------------------------------------------------------------------
(***************************************************************************)
(* The client.                                                             *)
(***************************************************************************)

Top(c) ==
    /\ pc[c] = "top"
    /\ pc' = [pc EXCEPT ![c] = IF running[c] THEN "access" ELSE "ended"]
    /\ UNCHANGED <<program, srvVars, running, private, to, requests, worker>>

\* The loop that waits for the private FIFO.
Access(c) ==
    /\ pc[c] = "access" /\ private[c]
    /\ pc' = [pc EXCEPT ![c] = "open"]
    /\ UNCHANGED <<program, srvVars, running, private, to, requests, worker>>

\* No server makes it.
MakeByHand(c) ==
    /\ ~private[c]
    /\ private' = [private EXCEPT ![c] = TRUE]
    /\ UNCHANGED <<program, srvVars, pc, running, to, requests, worker>>

\* The servers when somebody has opened PUBLIC for writing.
Awake ==
    [s \in Servers |-> IF srv[s] = "opening" /\ inode[s] = public THEN "dummy" ELSE srv[s]]

\* Open without blocking; a server that waits in open goes on.
OpenPublic(c) ==
    /\ pc[c] = "open" /\ public # NoFifo /\ Read(public)
    /\ pc' = [pc EXCEPT ![c] = "write"] /\ to' = [to EXCEPT ![c] = public]
    /\ srv' = Awake
    /\ UNCHANGED <<program, public, inode, dummy, msg, n, signals, running, private,
                   requests, worker>>

\* Slip: the client only tries again.
OnlySleep(c) ==
    /\ pc[c] = "open" /\ (public = NoFifo \/ ~Read(public))
    /\ pc' = [pc EXCEPT ![c] = "top"]
    /\ UNCHANGED <<program, srvVars, running, private, to, requests, worker>>

\* The open fails: the client starts a server, sleeps and goes round its loop.
StartServer(c) ==
    /\ pc[c] = "open" /\ (public = NoFifo \/ ~Read(public))
    /\ pc' = [pc EXCEPT ![c] = "top"]
    /\ LET free == {s \in Servers : srv[s] = "off"} IN
       srv' = [s \in Servers |-> IF s \in free /\ (\A t \in free : s <= t) THEN "start" ELSE srv[s]]
    /\ UNCHANGED <<program, public, inode, dummy, msg, n, signals, running, private, to,
                   requests, worker>>

\* The request; SIGPIPE if the server has gone.
Write(c) ==
    /\ pc[c] = "write"
    /\ IF Read(to[c])
       THEN /\ pc' = [pc EXCEPT ![c] = "sent"]
            /\ requests' = Append(requests, c) /\ UNCHANGED to
       ELSE /\ pc' = [pc EXCEPT ![c] = "killed"]
            /\ to' = [to EXCEPT ![c] = NoFifo] /\ UNCHANGED requests
    /\ UNCHANGED <<program, srvVars, running, private, worker>>

OpenPrivate(c) ==
    /\ pc[c] = "sent"
    /\ pc' = [pc EXCEPT ![c] = "opening"]
    /\ UNCHANGED <<program, srvVars, running, private, to, requests, worker>>

\* The end of the answer: both FIFOs are closed.
ReadEnd(c) ==
    /\ pc[c] = "reading" /\ worker[c] = "none"
    /\ pc' = [pc EXCEPT ![c] = "top"] /\ to' = [to EXCEPT ![c] = NoFifo]
    /\ UNCHANGED <<program, srvVars, running, private, requests, worker>>

\* SIGINT only clears clientRunning: access, open and read go on.
InterruptClient(c) ==
    /\ running[c] /\ pc[c] \notin {"ended", "killed"}
    /\ running' = [running EXCEPT ![c] = FALSE]
    /\ UNCHANGED <<program, srvVars, pc, private, to, requests, worker>>

-----------------------------------------------------------------------------
(***************************************************************************)
(* The server.                                                             *)
(***************************************************************************)

\* PUBLIC stays, or is made.
NamedOrNew ==
    IF public # NoFifo THEN UNCHANGED public
    ELSE LET Used(i) == Read(i) \/ Written(i) IN
         \E i \in Fifos : ~Used(i) /\ (\A j \in 1 .. i - 1 : Used(j)) /\ public' = i

\* Slip: "mod" goes on if PUBLIC is there, as "test" does.
CreateAnyway(s) ==
    /\ srv[s] = "start"
    /\ srv' = [srv EXCEPT ![s] = "open"]
    /\ NamedOrNew
    /\ UNCHANGED <<program, inode, dummy, msg, n, signals, pc, running, private, to,
                   requests, worker>>

\* mkfifo of "mod" fails if PUBLIC is there, and the server exits; mknod of "test" is
\* not looked at.
Create(s) ==
    /\ srv[s] = "start"
    /\ srv' = [srv EXCEPT ![s] = IF public # NoFifo /\ program = "mod" THEN "off" ELSE "open"]
    /\ NamedOrNew
    /\ UNCHANGED <<program, inode, dummy, msg, n, signals, pc, running, private, to,
                   requests, worker>>

\* Another server may have unlinked PUBLIC.
OpenFifo(s) ==
    /\ srv[s] = "open"
    /\ srv' = [srv EXCEPT ![s] = IF public = NoFifo THEN "off"
                                 ELSE IF Written(public) THEN "dummy" ELSE "opening"]
    /\ inode' = [inode EXCEPT ![s] = public]
    /\ UNCHANGED <<program, public, dummy, msg, n, signals, pc, running, private, to,
                   requests, worker>>

\* The second open, by name, without blocking: it fails, or gets another FIFO, if
\* PUBLIC has changed since the first one.
OpenDummy(s) ==
    /\ srv[s] = "dummy"
    /\ LET opens == public # NoFifo /\ Read(public) IN
       /\ srv' = IF opens THEN [Awake EXCEPT ![s] = "reading"] ELSE [srv EXCEPT ![s] = "off"]
       /\ inode' = [inode EXCEPT ![s] = IF opens THEN @ ELSE NoFifo]
       /\ dummy' = [dummy EXCEPT ![s] = IF opens THEN public ELSE NoFifo]
    /\ UNCHANGED <<program, public, msg, n, signals, pc, running, private, to, requests, worker>>

\* "mod" begins to answer, with an n that has no value; "test" forks, and does
\* not see it when fork fails.
ReadRequest(s) ==
    /\ srv[s] = "reading" /\ Pending(s) # << >>
    /\ LET c == Head(Pending(s)) IN
       /\ requests' = SelectSeq(requests, LAMBDA d : d # c)
       /\ IF program = "mod"
          THEN /\ srv' = [srv EXCEPT ![s] = "try"] /\ msg' = [msg EXCEPT ![s] = c]
               /\ \E k \in 0 .. TRIES - 1 : n' = [n EXCEPT ![s] = k]
               /\ worker' = [worker EXCEPT ![c] = "try"]
          ELSE /\ UNCHANGED <<srv, msg, n>>
               /\ \E w \in {"try", "none"} : worker' = [worker EXCEPT ![c] = w]
    /\ UNCHANGED <<program, public, inode, dummy, signals, pc, running, private, to>>

\* read returns 0: nobody writes to the FIFO, the server itself neither.
ReadNothing(s) ==
    /\ srv[s] = "reading" /\ Pending(s) = << >> /\ ~Written(inode[s])
    /\ srv' = [srv EXCEPT ![s] = "off"]
    /\ inode' = [inode EXCEPT ![s] = NoFifo] /\ dummy' = [dummy EXCEPT ![s] = NoFifo]
    /\ public' = IF program = "mod" THEN NoFifo ELSE public
    /\ UNCHANGED <<program, msg, n, signals, pc, running, private, to, requests, worker>>

\* The open of the private FIFO, without blocking, succeeds if the client is in its
\* open.  A server in "mod" tries again or gives up, a child in "test" tries once.
Meets(c) == pc[c] = "opening"

Try(s) ==
    /\ srv[s] = "try"
    /\ LET c == msg[s]
           again == n[s] + 1 < TRIES
       IN /\ pc' = IF Meets(c) THEN [pc EXCEPT ![c] = "reading"] ELSE pc
          /\ srv' = [srv EXCEPT ![s] = IF Meets(c) THEN "answering"
                                       ELSE IF again THEN "try" ELSE "reading"]
          /\ n' = [n EXCEPT ![s] = IF Meets(c) \/ ~again THEN 0 ELSE @ + 1]
          /\ worker' = [worker EXCEPT ![c] = IF Meets(c) THEN "writing"
                                             ELSE IF again THEN @ ELSE "none"]
    /\ UNCHANGED <<program, public, inode, dummy, msg, signals, running, private, to, requests>>

\* Slip: the private FIFO is not closed.
AnswerUnclosed(s) ==
    /\ srv[s] = "answering"
    /\ srv' = [srv EXCEPT ![s] = "reading"]
    /\ UNCHANGED <<program, public, inode, dummy, msg, n, signals, pc, running, private, to,
                   requests, worker>>

Answer(s) ==
    /\ srv[s] = "answering"
    /\ srv' = [srv EXCEPT ![s] = "reading"] /\ worker' = [worker EXCEPT ![msg[s]] = "none"]
    /\ UNCHANGED <<program, public, inode, dummy, msg, n, signals, pc, running, private, to,
                   requests>>

ChildTry(c) ==
    /\ program = "test" /\ worker[c] = "try"
    /\ pc' = IF Meets(c) THEN [pc EXCEPT ![c] = "reading"] ELSE pc
    /\ worker' = [worker EXCEPT ![c] = IF Meets(c) THEN "writing" ELSE "sleep"]
    /\ UNCHANGED <<program, srvVars, running, private, to, requests>>

ChildEnds(c) ==
    /\ program = "test" /\ worker[c] \in {"sleep", "writing"}
    /\ worker' = [worker EXCEPT ![c] = "none"]
    /\ UNCHANGED <<program, srvVars, pc, running, private, to, requests>>

\* SIGINT: "mod" unlinks another name than PUBLIC, "test" unlinks PUBLIC, whichever
\* FIFO that is by now.
InterruptServer(s) ==
    /\ srv[s] # "off" /\ signals < MaxSignals /\ signals' = signals + 1
    /\ srv' = [srv EXCEPT ![s] = "off"]
    /\ inode' = [inode EXCEPT ![s] = NoFifo] /\ dummy' = [dummy EXCEPT ![s] = NoFifo]
    /\ public' \in IF program = "mod" THEN {public}
                   ELSE IF srv[s] = "start" THEN {public, NoFifo} ELSE {NoFifo}
    /\ worker' = IF srv[s] \in {"try", "answering"}
                 THEN [worker EXCEPT ![msg[s]] = "none"] ELSE worker
    /\ UNCHANGED <<program, msg, n, pc, running, private, to, requests>>

\* A child that has not reset SIGINT yet behaves as its parent would.
InterruptChild(c) ==
    /\ program = "test" /\ worker[c] # "none" /\ signals < MaxSignals /\ signals' = signals + 1
    /\ worker' = [worker EXCEPT ![c] = "none"]
    /\ public' \in {public} \cup (IF worker[c] = "try" THEN {NoFifo} ELSE {})
    /\ UNCHANGED <<program, srv, inode, dummy, msg, n, pc, running, private, to, requests>>

-----------------------------------------------------------------------------
Client(c) ==
    \/ Top(c) \/ Access(c) \/ OpenPublic(c) \/ StartServer(c) \/ Write(c)
    \/ OpenPrivate(c) \/ ReadEnd(c)

Server(s) ==
    \/ Create(s) \/ OpenFifo(s) \/ OpenDummy(s) \/ ReadRequest(s) \/ ReadNothing(s)
    \/ Try(s) \/ Answer(s)

Child(c) == ChildTry(c) \/ ChildEnds(c)

Next ==
    \/ \E c \in Clients : \/ Client(c) \/ Child(c) \/ MakeByHand(c)
                          \/ InterruptClient(c) \/ InterruptChild(c)
    \/ \E s \in Servers : Server(s) \/ InterruptServer(s)

Spec == Init /\ [][Next]_vars

\* Every process runs whenever it can; signals and mkfifo by hand need not come.
FairSpec ==
    /\ Spec
    /\ \A c \in Clients : WF_vars(Client(c)) /\ WF_vars(Child(c))
    /\ \A s \in Servers : WF_vars(Server(s))

-----------------------------------------------------------------------------
(***************************************************************************)
(* Properties.                                                             *)
(***************************************************************************)

TypeOK ==
    /\ program \in Programs /\ public \in Fifos \cup {NoFifo} /\ signals \in 0 .. MaxSignals
    /\ srv \in [Servers -> {"off", "start", "open", "opening", "dummy", "reading", "try", "answering"}]
    /\ inode \in [Servers -> Fifos \cup {NoFifo}] /\ dummy \in [Servers -> Fifos \cup {NoFifo}]
    /\ msg \in [Servers -> Clients \cup {NoClient}] /\ n \in [Servers -> 0 .. TRIES - 1]
    /\ pc \in [Clients -> {"top", "access", "open", "write", "sent", "opening", "reading",
                           "ended", "killed"}]
    /\ running \in [Clients -> BOOLEAN] /\ private \in [Clients -> BOOLEAN]
    /\ to \in [Clients -> Fifos \cup {NoFifo}] /\ requests \in Seq(Clients)
    /\ worker \in [Clients -> {"none", "try", "sleep", "writing"}]

\* Two clients that find no server at the same time both start one, and still only
\* one process reads PUBLIC: the other mkfifo fails.  (In "test" several may.)
OneServer ==
    program = "mod" =>
        \A s, t \in Servers : {srv[s], srv[t]} \cap {"off", "start"} = {} => s = t

\* PUBLIC exists and no server has it open: in "mod" none ever will.
Stale == program = "mod" /\ public # NoFifo /\ ~Read(public)

Seeks(c) == private[c] /\ running[c] /\ pc[c] \in {"top", "access", "open"}

\* The bound on servers is reached: every one reads a FIFO that PUBLIC no longer names.
Unnamed == \A s \in Servers : inode[s] \notin {NoFifo, public}

\* A client that finds no server gets one, whichever servers are interrupted when, and
\* whether the FIFO it finds belongs to a server that has gone or not.  In "mod" that is
\* so until a server has been interrupted: PUBLIC stays, and every later server ends at
\* its mkfifo.
ServiceReturns == \A c \in Clients : []<>~Seeks(c) \/ <>[](Stale \/ Unnamed)

\* The client's request has not been read, and no server has the FIFO open; or it has
\* been read, and nobody answers it any more.
Lost(c) ==
    /\ pc[c] = "opening" /\ worker[c] = "none"
    /\ \A k \in 1 .. Len(requests) : requests[k] = c => \A s \in Servers : inode[s] # to[c]

\* SIGINT ends a client, except in two places that do not look at clientRunning: the loop
\* that waits for a private FIFO which nobody makes, and the open that waits for an
\* answer when the request is lost, with a server that was interrupted or an answer that
\* was tried before the client had come to its open.
InterruptedClientEnds ==
    \A c \in Clients :
        []running[c] \/ <>[](\/ pc[c] \in {"ended", "killed"} \/ Lost(c)
                             \/ pc[c] = "access" /\ ~private[c])
=============================================================================
