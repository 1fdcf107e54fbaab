---------------------------- MODULE FifoService ----------------------------
(***************************************************************************)
(* pipe/server-client_pipes: clients send commands through the FIFO PUBLIC *)
(* and read the answers from a private FIFO each.  There are three servers *)
(* for the one pipe_client:                                                *)
(*   "basic"  pipe_server      answers itself, tries five times to open    *)
(*                             the private FIFO without blocking,          *)
(*   "m"      pipe_server_m    forks a child for each request,             *)
(*   "mod"    pipe_server_mod  forks a child and waits for it.             *)
(*                                                                         *)
(* A request is its client, which has one at a time.  An answer is "\n"    *)
(* and Output more parts, part <<k, j>> being the j-th of the k-th answer. *)
(* A FIFO lets the two sides wait for each other in open; the second one   *)
(* that comes lets both go on.  It keeps its contents while a process has  *)
(* it open.                                                                *)
(***************************************************************************)
EXTENDS Integers, Sequences

CONSTANTS
    Clients, NoClient,
    Servers,   \* the servers that are considered
    Output,    \* parts of the output of a command
    Capacity,  \* parts that a private FIFO holds
    Room,      \* requests that PUBLIC holds
    TRIES,     \* 5: attempts to open the private FIFO
    MaxCmds    \* bound: commands of a client

ASSUME ConstantsAssumption ==
    /\ NoClient \notin Clients
    /\ Servers \subseteq {"basic", "m", "mod"}
    /\ Output \in Nat /\ Capacity \in Nat \ {0} /\ Room \in Nat \ {0}
    /\ TRIES \in Nat \ {0} /\ MaxCmds \in Nat

VARIABLES
    program,  \* the server that runs
    fifo,     \* PUBLIC has been made
    public,   \* the requests in PUBLIC
    server,   \* "start", "opening", "reading", "got" (a request), "answering",
              \* "waiting" (for the child) or "dead"
    msg,      \* the server's local msg
    n,        \* the server's local n: attempts so far
    pc,       \* of a client: "start", "opening" PUBLIC, "prompt", "sent", "waiting"
              \* (in open of its FIFO), "reading", "done", "failed" or "killed"
    sent,     \* commands that a client has sent
    private,  \* the parts in the private FIFO of a client
    writer,   \* who answers a client: "none", "opening" its FIFO or "writing"
    written,  \* parts of the answer that the writer is done with
    got,      \* parts that the client has read for its last command
    dropped   \* clients whose request a server reported as not answered, or
              \* had read when it was killed

srvVars == <<program, fifo, server, msg, n, dropped>>
vars == <<srvVars, public, pc, sent, private, writer, written, got>>

Init ==
    /\ program \in Servers
    /\ fifo = FALSE /\ public = << >>
    /\ server = "start" /\ msg = NoClient /\ n = 0
    /\ pc = [c \in Clients |-> "start"] /\ sent = [c \in Clients |-> 0]
    /\ private = [c \in Clients |-> << >>]
    /\ writer = [c \in Clients |-> "none"] /\ written = [c \in Clients |-> 0]
    /\ got = [c \in Clients |-> << >>] /\ dropped = {}

Answer(k) == [j \in 1 .. Output + 1 |-> <<k, j>>]

\* c has its private FIFO open for reading, or waits in open.
Reads(c) == pc[c] \in {"waiting", "reading"}

\* The server has PUBLIC open for reading, or waits in open.
ServerReads == server \notin {"start", "dead"}

\* Client c has PUBLIC open.
HasPublic(c) == pc[c] \in {"prompt", "sent", "waiting", "reading"}

\* What is in PUBLIC when client c has closed it.  A client that waits in open
\* keeps the contents; one that is about to call open does not.
ClosePublic(c) ==
    IF ServerReads \/ \E d \in Clients \ {c} : HasPublic(d)
    THEN UNCHANGED public
    ELSE \/ public' = << >>
         \/ UNCHANGED public /\ \E d \in Clients : pc[d] = "opening"

\* The same when the server has closed it: nobody waits in open.
ServerClosesPublic == public' = IF \E c \in Clients : HasPublic(c) THEN public ELSE << >>

-----------------------------------------------------------------------------
(***************************************************************************)
(* The client.                                                             *)
(***************************************************************************)

\* mknod of the private FIFO, then open of PUBLIC.
MakePrivate(c) ==
    /\ pc[c] = "start"
    /\ pc' = [pc EXCEPT ![c] = "opening"]
    /\ UNCHANGED <<srvVars, public, sent, private, writer, written, got>>

\* mknod fails, or there is no PUBLIC: exit.
ClientFails(c) ==
    /\ pc[c] = "start" \/ (pc[c] = "opening" /\ ~fifo)
    /\ pc' = [pc EXCEPT ![c] = "failed"]
    /\ UNCHANGED <<srvVars, public, sent, private, writer, written, got>>

\* The client's open lets the server's open return.
OpenPublic(c) ==
    /\ pc[c] = "opening" /\ ServerReads
    /\ pc' = [pc EXCEPT ![c] = "prompt"]
    /\ server' = IF server = "opening" THEN "reading" ELSE server
    /\ UNCHANGED <<program, fifo, msg, n, dropped, public, sent, private, writer,
                   written, got>>

\* A command, or an empty input, which is not "quit" to strncmp.
SendCommand(c) ==
    /\ pc[c] = "prompt" /\ sent[c] < MaxCmds
    /\ ServerReads /\ Len(public) < Room
    /\ public' = Append(public, c)
    /\ sent' = [sent EXCEPT ![c] = @ + 1]
    /\ got' = [got EXCEPT ![c] = << >>]
    /\ pc' = [pc EXCEPT ![c] = "sent"]
    /\ UNCHANGED <<srvVars, private, writer, written>>

OpenPrivate(c) ==
    /\ pc[c] = "sent"
    /\ pc' = [pc EXCEPT ![c] = "waiting"]
    /\ UNCHANGED <<srvVars, public, sent, private, writer, written, got>>

\* Nobody reads PUBLIC any more: SIGPIPE.
SendKills(c) ==
    /\ pc[c] = "prompt" /\ ~ServerReads
    /\ pc' = [pc EXCEPT ![c] = "killed"]
    /\ ClosePublic(c)
    /\ UNCHANGED <<srvVars, sent, private, writer, written, got>>

\* "quit", or any beginning of it.
Quit(c) ==
    /\ pc[c] = "prompt"
    /\ pc' = [pc EXCEPT ![c] = "done"]
    /\ ClosePublic(c)
    /\ UNCHANGED <<srvVars, sent, private, writer, written, got>>

ReadPart(c) ==
    /\ pc[c] = "reading" /\ private[c] # << >>
    /\ got' = [got EXCEPT ![c] = Append(@, Head(private[c]))]
    /\ private' = [private EXCEPT ![c] = Tail(@)]
    /\ UNCHANGED <<srvVars, public, pc, sent, writer, written>>

\* The writer has closed the FIFO.
ReadEnd(c) ==
    /\ pc[c] = "reading" /\ private[c] = << >> /\ writer[c] # "writing"
    /\ pc' = [pc EXCEPT ![c] = "prompt"]
    /\ UNCHANGED <<srvVars, public, sent, private, writer, written, got>>

\* What was in its FIFO is lost; the FIFO stays in the file system.
KillClient(c) ==
    /\ HasPublic(c)
    /\ pc' = [pc EXCEPT ![c] = "killed"]
    /\ ClosePublic(c)
    /\ private' = [private EXCEPT ![c] = << >>]
    /\ UNCHANGED <<srvVars, sent, writer, written, got>>

-----------------------------------------------------------------------------
(***************************************************************************)
(* Whoever answers client c: the server itself in "basic", else a child.   *)
(***************************************************************************)

\* The open of the private FIFO returns on both sides.
Meet(c) ==
    /\ writer' = [writer EXCEPT ![c] = "writing"]
    /\ written' = [written EXCEPT ![c] = 0]
    /\ pc' = [pc EXCEPT ![c] = "reading"]

\* A child waits in open until the client is there.
ChildOpens(c) ==
    /\ writer[c] = "opening" /\ Reads(c)
    /\ Meet(c)
    /\ UNCHANGED <<srvVars, public, sent, private, got>>

\* Slip: the child opens without waiting for room, as the server of "basic".
WritePartNoWait(c) ==
    /\ writer[c] = "writing" /\ written[c] <= Output /\ Reads(c)
    /\ private' = [private EXCEPT ![c] =
                     IF Len(@) < Capacity THEN Append(@, <<sent[c], written[c] + 1>>) ELSE @]
    /\ written' = [written EXCEPT ![c] = @ + 1]
    /\ UNCHANGED <<srvVars, public, pc, sent, writer, got>>

\* A part; a write without blocking to a full FIFO loses it.
WritePart(c) ==
    /\ writer[c] = "writing" /\ written[c] <= Output /\ Reads(c)
    /\ program = "basic" \/ Len(private[c]) < Capacity
    /\ private' = [private EXCEPT ![c] =
                     IF Len(@) < Capacity THEN Append(@, <<sent[c], written[c] + 1>>) ELSE @]
    /\ written' = [written EXCEPT ![c] = @ + 1]
    /\ UNCHANGED <<srvVars, public, pc, sent, writer, got>>

\* pclose and close; the server of "basic" goes back to PUBLIC.
CloseWriter(c) ==
    /\ writer[c] = "writing" /\ written[c] > Output
    /\ writer' = [writer EXCEPT ![c] = "none"]
    /\ server' = IF server = "answering" THEN "reading" ELSE server
    /\ UNCHANGED <<program, fifo, msg, n, dropped, public, pc, sent, private, written, got>>

\* The client is gone: SIGPIPE ends the writer.
WriterKilled(c) ==
    /\ writer[c] = "writing" /\ written[c] <= Output /\ ~Reads(c)
    /\ writer' = [writer EXCEPT ![c] = "none"]
    /\ IF server = "answering" THEN server' = "dead" /\ ServerClosesPublic
                               ELSE UNCHANGED <<server, public>>
    /\ UNCHANGED <<program, fifo, msg, n, dropped, pc, sent, private, written, got>>

-----------------------------------------------------------------------------
(***************************************************************************)
(* The server.                                                             *)
(***************************************************************************)

\* mknod, whether PUBLIC exists or not, then open: it waits for a client, unless
\* one has been left by a server that died.
ServerStarts ==
    /\ server = "start"
    /\ fifo' = TRUE
    /\ server' = IF \E c \in Clients : HasPublic(c) THEN "reading" ELSE "opening"
    /\ UNCHANGED <<program, msg, n, dropped, public, pc, sent, private, writer, written, got>>

\* "basic" has PUBLIC open for writing itself and waits in read; the others read
\* nothing again and again while there is no client.
ReadRequest ==
    /\ server = "reading" /\ public # << >>
    /\ msg' = Head(public) /\ public' = Tail(public)
    /\ n' = 0
    /\ server' = "got"
    /\ UNCHANGED <<program, fifo, dropped, pc, sent, private, writer, written, got>>

\* Slip: the request is dropped when the first open fails.
TryOnce ==
    /\ program = "basic" /\ server = "got"
    /\ IF Reads(msg)
       THEN Meet(msg) /\ server' = "answering" /\ UNCHANGED n
       ELSE server' = "reading" /\ UNCHANGED <<n, writer, written, pc>>
    /\ UNCHANGED <<program, fifo, msg, dropped, public, sent, private, got>>

\* One turn of the do loop: open without blocking succeeds if the client has
\* come to its open.  After the last turn the server prints a note.
Try ==
    /\ program = "basic" /\ server = "got"
    /\ IF Reads(msg)
       THEN Meet(msg) /\ server' = "answering" /\ UNCHANGED <<n, dropped>>
       ELSE /\ n' = n + 1
            /\ IF n + 1 < TRIES THEN UNCHANGED <<server, dropped>>
               ELSE server' = "reading" /\ dropped' = dropped \cup {msg}
            /\ UNCHANGED <<writer, written, pc>>
    /\ UNCHANGED <<program, fifo, msg, public, sent, private, got>>

\* Slip: pipe_server_m waits as well.
ForkWaiting ==
    /\ program # "basic" /\ server = "got"
    /\ writer' = [writer EXCEPT ![msg] = "opening"]
    /\ server' = "waiting"
    /\ UNCHANGED <<program, fifo, msg, n, dropped, public, pc, sent, private, written, got>>

Fork ==
    /\ program # "basic" /\ server = "got"
    /\ writer' = [writer EXCEPT ![msg] = "opening"]
    /\ server' = IF program = "mod" THEN "waiting" ELSE "reading"
    /\ UNCHANGED <<program, fifo, msg, n, dropped, public, pc, sent, private, written, got>>

\* perror, and the next request.
ForkFails ==
    /\ program # "basic" /\ server = "got"
    /\ server' = "reading" /\ dropped' = dropped \cup {msg}
    /\ UNCHANGED <<program, fifo, msg, n, public, pc, sent, private, writer, written, got>>

\* waitpid in pipe_server_mod.
ChildReaped ==
    /\ server = "waiting" /\ writer[msg] = "none"
    /\ server' = "reading"
    /\ UNCHANGED <<program, fifo, msg, n, dropped, public, pc, sent, private, writer,
                   written, got>>

\* Children live on.
KillServer ==
    /\ server \notin {"start", "dead"}
    /\ server' = "dead"
    /\ dropped' = IF server = "got" THEN dropped \cup {msg} ELSE dropped
    /\ ServerClosesPublic
    /\ writer' = IF server = "answering" THEN [writer EXCEPT ![msg] = "none"] ELSE writer
    /\ UNCHANGED <<program, fifo, msg, n, pc, sent, private, written, got>>

Restart ==
    /\ server = "dead"
    /\ server' = "start"
    /\ UNCHANGED <<program, fifo, msg, n, dropped, public, pc, sent, private, writer,
                   written, got>>

-----------------------------------------------------------------------------
ServerStep == ServerStarts \/ ReadRequest \/ Try \/ Fork \/ ChildReaped

WriterStep(c) == ChildOpens(c) \/ WritePart(c) \/ CloseWriter(c) \/ WriterKilled(c)

Next ==
    \/ ServerStep \/ ForkFails \/ KillServer \/ Restart
    \/ \E c \in Clients :
         \/ WriterStep(c)
         \/ MakePrivate(c) \/ ClientFails(c) \/ OpenPublic(c) \/ SendCommand(c)
         \/ OpenPrivate(c) \/ SendKills(c) \/ Quit(c) \/ ReadPart(c) \/ ReadEnd(c) \/ KillClient(c)

Spec == Init /\ [][Next]_vars

\* Servers, children and reading clients run whenever they can; what people type
\* is up to them.
FairSpec ==
    /\ Spec /\ WF_vars(ServerStep)
    /\ \A c \in Clients : WF_vars(WriterStep(c)) /\ WF_vars(OpenPrivate(c) \/ ReadPart(c) \/ ReadEnd(c))

-----------------------------------------------------------------------------
(***************************************************************************)
(* Properties.                                                             *)
(***************************************************************************)

TypeOK ==
    /\ program \in Servers /\ fifo \in BOOLEAN
    /\ public \in Seq(Clients) /\ Len(public) <= Room
    /\ server \in {"start", "opening", "reading", "got", "answering", "waiting", "dead"}
    /\ msg \in Clients \cup {NoClient} /\ n \in 0 .. TRIES
    /\ pc \in [Clients -> {"start", "opening", "prompt", "sent", "waiting", "reading",
                           "done", "failed", "killed"}]
    /\ sent \in [Clients -> 0 .. MaxCmds]
    /\ \A c \in Clients : private[c] \in Seq(Nat \X Nat) /\ Len(private[c]) <= Capacity
    /\ writer \in [Clients -> {"none", "opening", "writing"}]
    /\ written \in [Clients -> 0 .. Output + 1]
    /\ dropped \subseteq Clients

\* What a client of pipe_server_m or pipe_server_mod has read when it prompts
\* again is the whole answer to the command it sent, and nothing of an earlier
\* one or of another client's.
AnswerWhole ==
    \A c \in Clients :
        program # "basic" /\ pc[c] = "prompt" /\ sent[c] > 0 => got[c] = Answer(sent[c])

\* The request of a client that waits for its answer is somewhere: in PUBLIC, also
\* from one server to the next, with the server or with a child.  Or a server has
\* reported it, or was killed with it.
RequestAccounted ==
    \A c \in Clients : pc[c] \in {"sent", "waiting"} =>
        \/ \E k \in 1 .. Len(public) : public[k] = c
        \/ server = "got" /\ msg = c
        \/ writer[c] = "opening"
        \/ c \in dropped

\* Clients do not hold each other up: every request is answered unless a server
\* drops it or is dead.  There is one exception: pipe_server_mod waits for its child,
\* and the child for a client that was killed between its request and its open.
Served ==
    \A c \in Clients :
        pc[c] = "sent" ~>
            \/ pc[c] \notin {"sent", "waiting"} \/ c \in dropped \/ server = "dead"
            \/ /\ program = "mod" /\ server = "waiting"
               /\ writer[msg] = "opening" /\ pc[msg] = "killed"
=============================================================================
