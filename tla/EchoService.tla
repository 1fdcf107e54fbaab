---------------------------- MODULE EchoService ----------------------------
(***************************************************************************)
(* the_sockets: three servers that send back what their clients send.      *)
(*   "echo"     echo_server, one client after the other,                   *)
(*   "threads"  mod_echo_server, a thread for each client,                 *)
(*   "forks"    sock_c_i_srv, a child for each client, over TCP.           *)
(* The first two have echo_client as their client and a UNIX socket, on    *)
(* which a line of at most 99 characters arrives in one piece.  The third  *)
(* has sock_c_i_clt; TCP may cut what is written anywhere.  A line that    *)
(* begins with '.' ends a session of the third server.                     *)
(*                                                                         *)
(* The n-th byte that client c sends is <<c, n>>; upper and lower case are *)
(* not told apart.  The kernel's part is modelled from how the programs    *)
(* use it.  One server runs at a time.                                     *)
(***************************************************************************)
EXTENDS Integers, Sequences, FiniteSets

CONSTANTS
    Clients, NoClient,
    Servers,   \* the servers that are considered
    Backlog,   \* connections that may wait for accept
    MaxLines,  \* bound: for each client the lines that a person types
    MaxBytes   \* bound: bytes of a line

ASSUME ConstantsAssumption ==
    /\ NoClient \notin Clients
    /\ Servers \subseteq {"echo", "threads", "forks"}
    /\ Backlog \in Nat \ {0} /\ MaxLines \in [Clients -> Nat] /\ MaxBytes \in Nat

VARIABLES
    program,  \* the server that is used
    server,   \* "down", "accept", "got" (a connection) or "busy" (as the handler)
    backlog,  \* connections not accepted yet
    new,      \* new_sock or client_socket: the client accepted last
    handler,  \* of each connection: "none", "pending" (a thread that has not begun),
              \* "reading", "sending" or "closed"
    chunk,    \* what the handler has read
    up, down, \* bytes on the way to the handler and to the client
    pc,       \* of each client: "start", "prompt", "waiting" (in read), "spinning",
              \* "done" or "failed"
    lines,    \* lines typed
    typed,    \* bytes typed
    dots,     \* numbers of the bytes that are a '.' at the beginning of a line
    ends,     \* buf[0] of the client is '.'
    asked,    \* bytes that the client asks read for
    got       \* bytes that the client has read

srvVars == <<program, server, backlog, new, handler, chunk>>
cltVars == <<pc, lines, typed, dots, ends, asked, got>>
vars == <<srvVars, up, down, cltVars>>

Init ==
    /\ program \in Servers
    /\ server = "down" /\ backlog = << >> /\ new = NoClient
    /\ handler = [c \in Clients |-> "none"] /\ chunk = [c \in Clients |-> << >>]
    /\ up = [c \in Clients |-> << >>] /\ down = [c \in Clients |-> << >>]
    /\ pc = [c \in Clients |-> "start"]
    /\ lines = [c \in Clients |-> 0] /\ typed = [c \in Clients |-> 0]
    /\ dots = [c \in Clients |-> {}] /\ ends = [c \in Clients |-> FALSE]
    /\ asked = [c \in Clients |-> 0] /\ got = [c \in Clients |-> << >>]

Tcp == program = "forks"

Present(c) == pc[c] \in {"prompt", "waiting", "spinning"}
Active(c)  == handler[c] \in {"pending", "reading", "sending"}

\* Children of sock_c_i_srv do not close orig_sock: while one of them lives the
\* port is taken and clients can connect, also when nobody accepts.
Listening == server # "down" \/ (Tcp /\ \E c \in Clients : Active(c))

BeginsWithDot(c, bytes) == bytes[1] \in {<<c, n>> : n \in dots[c]}

\* The bytes a call returns: on a UNIX socket what there is, on TCP any part.
Sizes(limit, bytes) ==
    IF Tcp THEN 1 .. (IF limit < Len(bytes) THEN limit ELSE Len(bytes)) ELSE {Len(bytes)}

Drop(n, s) == SubSeq(s, n + 1, Len(s))

-----------------------------------------------------------------------------
(***************************************************************************)
(* The end of processes.                                                   *)
(***************************************************************************)

\* The connections in gone are closed, and with the last process that has the
\* listening socket all that wait in its backlog.
Close(gone, alive) ==
    LET waiting == {backlog[k] : k \in 1 .. Len(backlog)}
        held    == alive \/ (Tcp /\ \E c \in Clients \ gone : Active(c))
        closed  == IF held THEN gone ELSE gone \cup waiting
    IN /\ handler' = [c \in Clients |-> IF c \in closed THEN "closed" ELSE handler[c]]
       /\ backlog' = IF held THEN backlog ELSE << >>

\* The server process ends: its threads with it, its children live on.
ServerDies ==
    /\ server' = "down"
    /\ Close({c \in Clients : Active(c) /\ ~Tcp} \cup
                 (IF server = "got" THEN {new} ELSE {}), FALSE)
    /\ UNCHANGED <<program, new, chunk>>

\* The handler of c ends and closes the connection.
HandlerEnds(c) ==
    /\ Close({c}, server # "down")
    /\ server' = IF server = "busy" THEN "accept" ELSE server
    /\ UNCHANGED <<program, new, chunk>>

-----------------------------------------------------------------------------
(***************************************************************************)
(* The server.                                                             *)
(***************************************************************************)

\* socket, bind, listen.  A UNIX name is unlinked first; bind fails while a
\* child of the server before has the port.
Start ==
    /\ server = "down" /\ ~Listening
    /\ server' = "accept"
    /\ UNCHANGED <<program, backlog, new, handler, chunk, up, down, cltVars>>

Accept ==
    /\ server = "accept" /\ backlog # << >>
    /\ new' = Head(backlog) /\ backlog' = Tail(backlog)
    /\ server' = "got"
    /\ UNCHANGED <<program, handler, chunk, up, down, cltVars>>

Serve(label, state) ==
    /\ server = "got"
    /\ handler' = [handler EXCEPT ![new] = label]
    /\ server' = state
    /\ UNCHANGED <<program, backlog, new, chunk, up, down, cltVars>>

\* echo_server: the loop of recv and send.
ServeItself == program = "echo" /\ Serve("reading", "busy")

\* pthread_create with a ThreadData of its own for the thread.
Spawn == program = "threads" /\ Serve("pending", "accept")

\* fork: the child has new_sock, the parent closes it.
Fork == Tcp /\ Serve("reading", "accept")

\* pthread_create or fork fails: the connection is closed.
SpawnFails == program # "echo" /\ Serve("closed", "accept")

\* Slip: the thread is given &client_socket, which the next accept changes.
ThreadBeginsShared(c) ==
    /\ handler[c] = "pending"
    /\ handler' = [handler EXCEPT ![c] = "none", ![new] = "reading"]
    /\ UNCHANGED <<program, server, backlog, new, chunk, up, down, cltVars>>

\* The thread takes what it needs out of its ThreadData.
ThreadBegins(c) ==
    /\ handler[c] = "pending"
    /\ handler' = [handler EXCEPT ![c] = "reading"]
    /\ UNCHANGED <<program, server, backlog, new, chunk, up, down, cltVars>>

\* Slip: str is static, as buf is in local_c_i.h.
HandlerReadsStatic(c) ==
    /\ handler[c] = "reading" /\ up[c] # << >>
    /\ \E n \in Sizes(Len(up[c]), up[c]) :
         /\ chunk' = [d \in Clients |-> SubSeq(up[c], 1, n)]
         /\ up' = [up EXCEPT ![c] = Drop(n, @)]
    /\ handler' = [handler EXCEPT ![c] = "sending"]
    /\ UNCHANGED <<program, server, backlog, new, down, cltVars>>

HandlerReads(c) ==
    /\ handler[c] = "reading" /\ up[c] # << >>
    /\ \E n \in Sizes(Len(up[c]), up[c]) :
         /\ chunk' = [chunk EXCEPT ![c] = SubSeq(up[c], 1, n)]
         /\ up' = [up EXCEPT ![c] = Drop(n, @)]
    /\ handler' = [handler EXCEPT ![c] = "sending"]
    /\ UNCHANGED <<program, server, backlog, new, down, cltVars>>

\* recv gives 0, or an error, when the client has gone.
HandlerReadsEnd(c) ==
    /\ handler[c] = "reading" /\ up[c] = << >> /\ ~Present(c)
    /\ HandlerEnds(c)
    /\ UNCHANGED <<up, down, cltVars>>

\* A child of sock_c_i_srv ends after a chunk that begins with '.'.
HandlerSends(c) ==
    /\ handler[c] = "sending" /\ Present(c)
    /\ down' = [down EXCEPT ![c] = @ \o chunk[c]]
    /\ IF Tcp /\ BeginsWithDot(c, chunk[c])
       THEN HandlerEnds(c)
       ELSE /\ handler' = [handler EXCEPT ![c] = "reading"]
            /\ UNCHANGED <<program, server, backlog, new, chunk>>
    /\ UNCHANGED <<up, cltVars>>

\* Slip: a child that cannot write ends its whole process group.
SendDiesWithServer(c) ==
    /\ handler[c] = "sending" /\ ~Present(c)
    /\ server' = "down"
    /\ Close({d \in Clients : Active(d)}, FALSE)
    /\ UNCHANGED <<program, new, chunk, up, down, cltVars>>

\* The client has gone: SIGPIPE, before the test of the result of send.  It ends
\* the process, which is the whole server but for sock_c_i_srv.  There the first
\* write may still succeed.
HandlerSendFails(c) ==
    /\ handler[c] = "sending" /\ ~Present(c)
    /\ \/ ~Tcp /\ ServerDies
       \/ Tcp /\ HandlerEnds(c)
       \/ /\ Tcp
          /\ handler' = [handler EXCEPT ![c] = "reading"]
          /\ UNCHANGED <<program, server, backlog, new, chunk>>
    /\ UNCHANGED <<up, down, cltVars>>

\* A signal, or an error of accept.
KillServer ==
    /\ server # "down"
    /\ ServerDies
    /\ UNCHANGED <<up, down, cltVars>>

-----------------------------------------------------------------------------
(***************************************************************************)
(* The clients.                                                            *)
(***************************************************************************)

\* With a full backlog connect waits.
Connect(c) ==
    /\ pc[c] = "start" /\ Listening /\ Len(backlog) < Backlog
    /\ backlog' = Append(backlog, c)
    /\ pc' = [pc EXCEPT ![c] = "prompt"]
    /\ UNCHANGED <<program, server, new, handler, chunk, up, down, lines, typed, dots,
                   ends, asked, got>>

\* Nobody listens, or TCP has waited too long for room in the backlog.
ConnectFails(c) ==
    /\ pc[c] = "start"
    /\ ~Listening \/ (Tcp /\ Len(backlog) = Backlog)
    /\ pc' = [pc EXCEPT ![c] = "failed"]
    /\ UNCHANGED <<srvVars, up, down, lines, typed, dots, ends, asked, got>>

\* A line is typed and sent.  Without a peer the sender gets SIGPIPE, on TCP
\* perhaps only the next time; the connection is then reset.
SendLine(c) ==
    /\ pc[c] = "prompt" /\ lines[c] < MaxLines[c]
    /\ lines' = [lines EXCEPT ![c] = @ + 1]
    /\ \E len \in 1 .. MaxBytes, dot \in {FALSE, Tcp} :
         /\ typed' = [typed EXCEPT ![c] = @ + len]
         /\ dots' = [dots EXCEPT ![c] = IF dot THEN @ \cup {typed[c] + 1} ELSE @]
         /\ ends' = [ends EXCEPT ![c] = dot]
         /\ asked' = [asked EXCEPT ![c] = len]
         /\ \/ /\ handler[c] # "closed" \/ Tcp
               /\ up' = [up EXCEPT ![c] = @ \o [n \in 1 .. len |-> <<c, typed[c] + n>>]]
               /\ pc' = [pc EXCEPT ![c] = "waiting"]
               /\ UNCHANGED down
            \/ /\ handler[c] = "closed"
               /\ pc' = [pc EXCEPT ![c] = "failed"]
               /\ down' = [down EXCEPT ![c] = << >>]
               /\ UNCHANGED up
    /\ UNCHANGED <<srvVars, got>>

\* One read for each line.  What comes is copied to buf, of which sock_c_i_clt
\* then looks at the first character.
ReadEcho(c) ==
    /\ pc[c] = "waiting" /\ down[c] # << >>
    /\ \E n \in Sizes(asked[c], down[c]) :
         /\ got' = [got EXCEPT ![c] = @ \o SubSeq(down[c], 1, n)]
         /\ down' = [down EXCEPT ![c] = Drop(n, @)]
    /\ ends' = [ends EXCEPT ![c] = BeginsWithDot(c, down[c])]
    /\ pc' = [pc EXCEPT ![c] = IF ends'[c] THEN "done" ELSE "prompt"]
    /\ UNCHANGED <<srvVars, up, lines, typed, dots, asked>>

\* The server has closed: echo_client exits, sock_c_i_clt goes by what was typed.
\* A TCP connection closed with unread bytes is reset.
ReadEnd(c) ==
    /\ pc[c] = "waiting" /\ handler[c] = "closed"
    /\ down[c] = << >> \/ (Tcp /\ up[c] # << >>)
    /\ pc' = [pc EXCEPT ![c] = IF ~Tcp THEN "failed" ELSE IF ends[c] THEN "done" ELSE "prompt"]
    /\ UNCHANGED <<srvVars, up, down, lines, typed, dots, ends, asked, got>>

\* End of the input: sock_c_i_clt prompts again and again.
InputEnds(c) ==
    /\ pc[c] = "prompt"
    /\ pc' = [pc EXCEPT ![c] = IF Tcp THEN "spinning" ELSE "done"]
    /\ UNCHANGED <<srvVars, up, down, lines, typed, dots, ends, asked, got>>

KillClient(c) ==
    /\ Present(c)
    /\ pc' = [pc EXCEPT ![c] = "failed"]
    /\ down' = [down EXCEPT ![c] = << >>]
    /\ UNCHANGED <<srvVars, up, lines, typed, dots, ends, asked, got>>

-----------------------------------------------------------------------------
ServerStep == Accept \/ ServeItself \/ Spawn \/ Fork

HandlerStep(c) ==
    ThreadBegins(c) \/ HandlerReads(c) \/ HandlerReadsEnd(c) \/ HandlerSends(c) \/ HandlerSendFails(c)

Next ==
    \/ Start \/ ServerStep \/ SpawnFails \/ KillServer
    \/ \E c \in Clients :
         \/ HandlerStep(c)
         \/ Connect(c) \/ ConnectFails(c) \/ SendLine(c) \/ ReadEcho(c) \/ ReadEnd(c)
         \/ InputEnds(c) \/ KillClient(c)

Spec == Init /\ [][Next]_vars

\* Server, threads, children and reading clients run whenever they can.
FairSpec ==
    /\ Spec /\ WF_vars(ServerStep)
    /\ \A c \in Clients : WF_vars(HandlerStep(c)) /\ WF_vars(ReadEcho(c) \/ ReadEnd(c))

-----------------------------------------------------------------------------
(***************************************************************************)
(* Properties.                                                             *)
(***************************************************************************)

TypeOK ==
    /\ program \in Servers /\ server \in {"down", "accept", "got", "busy"}
    /\ backlog \in Seq(Clients) /\ Len(backlog) <= Backlog
    /\ new \in Clients \cup {NoClient}
    /\ handler \in [Clients -> {"none", "pending", "reading", "sending", "closed"}]
    /\ \A f \in {chunk, up, down, got} : f \in [Clients -> Seq(Clients \X Nat)]
    /\ pc \in [Clients -> {"start", "prompt", "waiting", "spinning", "done", "failed"}]
    /\ \A c \in Clients : /\ lines[c] \in 0 .. MaxLines[c]
                          /\ typed[c] \in 0 .. MaxLines[c] * MaxBytes
                          /\ dots[c] \subseteq 1 .. MaxLines[c] * MaxBytes
    /\ ends \in [Clients -> BOOLEAN] /\ asked \in [Clients -> 0 .. MaxBytes]

\* A client gets back its own bytes in the order in which it sent them, none twice
\* and none of another client's; at the prompt of echo_client that is all it has
\* sent.  (The answers of sock_c_i_srv may lag behind the lines.)
EchoInOrder ==
    \A c \in Clients :
        /\ \A n \in 1 .. Len(got[c]) : got[c][n] = <<c, n>>
        /\ ~Tcp /\ pc[c] = "prompt" => Len(got[c]) = typed[c]

\* A child of sock_c_i_srv serves its client until that client has gone or has
\* sent a '.', whatever other clients do and whether the parent lives or not.
ForkIsolates ==
    [][ \A c \in Clients :
          Tcp /\ Active(c) /\ handler'[c] = "closed" =>
              ~Present(c) \/ (handler[c] = "sending" /\ BeginsWithDot(c, chunk[c])) ]_vars

\* Every line is answered, or the connection closed, as long as the server lives;
\* with echo_server if every client before ends its session some day.
LinesAnswered ==
    (program = "echo" => \A d \in Clients : <>[](pc[d] # "prompt")) =>
        \A c \in Clients :
            pc[c] = "waiting" ~> pc[c] # "waiting" \/ server = "down"
=============================================================================
