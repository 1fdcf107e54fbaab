# A TLA+ model of the laboratory programs of OperationSystemCourse

The repository is a set of small C++ programs (`src/LabFiles`), one directory per
chapter of a course on UNIX processes: pipes, signals, message queues,
semaphores, shared memory, sockets. No program is large. What is hard about them
is between the programs: they share semaphores, segments, queues and FIFOs whose
lifetime is nobody's in particular, they may be started, stopped and killed in
any order from several terminals, and the kernel acts in their name when they
end (SEM_UNDO, closed pipe ends, SIGPIPE). This project models those
interactions, checks them with TLC and proves the central ones with TLAPS.

All line numbers are of files under `src/LabFiles`. `PROJECT.json` names for each
definition the lines it models, and lists runs, hazards, findings and theorems.

## 1. Inventory

| Component | Programs | State | Operations | Modelled |
|---|---|---|---|---|
| Semaphore lock | `the_semaphores/semdemo`, `semdemo_mod`, `create`, `semrm` | one semaphore set under a key: value, `sem_otime`, undo records; locals of each run | make or find the set, initialise, poll, lock, unlock, SETVAL, remove | `SemLock` |
| Semaphore monitors | `monitoring`, `proc_monitor` | none | read GETNCNT | the state function `Waiting` of `SemLock` |
| Shared memory ring | `the_shared_mem/parent`, `producer`, `consumer`, `local.h` | segment with ring, head, tail; two semaphores; three processes | set up, fork, put, get, wait, kill, remove | `ShmBuffer` |
| Pipelines | `pipe/cmdpipe_modified`, `whosortpipe`, `converterpipe`, `cmdpipe` | pipe contents; which process holds which end | pipe, fork, popen, dup2 and close, exec, wait; read, write, SIGPIPE of the commands; the copy loop of `cmdpipe` | `Pipeline` |
| Message queue chat | `the_mess_que/sender`, `mod_sender`, `receiver`, `mod_receiver`, `gener_mq`, `mod_gener` | the queue under a key; locals of each run | msgget, msgsnd, msgrcv by type, removal | `MsgQueue` |
| File buffer | `the_semaphores/sem_prod_con` | two semaphores, the file `./buffer` | choose the producer, write, read, remove | `FileBuffer` |
| FIFO command service | `pipe/server-client_pipes/*` | the FIFO PUBLIC, one private FIFO per client, server, children | open (which waits for the other side), request, answer, fork, kill, restart | `FifoService` |
| FIFO service with signals | `signal/6.7/*`, `pipe/pipe_client` | the name PUBLIC and the FIFOs that had it, servers, children, clients | start a server, open by name, request, answer, SIGINT, unlink | `SignalService` |
| Segments edited by a child | `the_shared_mem/9.7/*`, `attach_shm` | the kernel's table of segments, a FIFO back to the parent | make, replace, edit, report, detach, remove | `Segments` |
| Guessing game | `the_sockets_telnet/server_game` | word, lives, one connection, backlog | accept, guess, judge, answer; leave, reset | `GuessGame` |
| Echo servers | `the_sockets/echo_server`, `mod_echo_server`, `sock_c_i_srv`, `echo_client`, `sock_c_i_clt` | the backlog, connections, threads or children, buffers of both sides | listen, accept, hand over, read, send back, close, kill, restart | `EchoService` |
| Copying over a UNIX socket, socket pairs | `the_sockets/sock_c_u_srv`, `sock_c_u_clt`, `socketpair`, `spair.c` | one connection and who holds which end; the name `my_sock` | bind, connect, take turns, clean up | `Conversations` |
| Signals | `signal/signal_exchange` | who pauses | parent and child signal each other | `Conversations` |
| Shared memory demonstrations | `the_shared_mem/shmdemo`, `gener_shm` | a segment | one access | not planned (`attach_shm` is in `Segments`) |
| Processes, name look-up, single signal programs, generator of semaphores, older copies | `fork_exec_wait/*`, `get_host`, `sigusr`, `sigint`, `signal_catch`, `gener_sem`, `pipe/pipe_server`, ... | none shared | single system calls | not planned |

### How the parts interact, what is hard, and what correctness means

**Semaphore lock.** Everybody uses the key `ftok(".", 'J')`. The first run makes
the set (`semdemo.cpp:36`), and lets others in by a semop that sets `sem_otime`
(line 43); the others poll it (55-64) and give up after `MAX_RETRIES`. Between
semget and semop the creator sits in `getchar()`, so it may well be killed there.
`semrm` removes the set under its users, `create` makes one by SETVAL, which
`initsem` never accepts. Correct means: nobody uses a set without a value; at
most one process is between lock and unlock; SEM_UNDO gives a dead holder's lock
back exactly once; nobody waits for ever for a dead creator or holder.

**Shared memory ring.** The parent makes everything under its pid, forks producer
and consumer, waits for one to end, kills the producer and removes (`parent.cpp`
72 to 78). All semops carry SEM_UNDO, although acquire and release are on
different semaphores, so a death changes both counters. Correct means: never both
at one slot, strings in order and whole, counters that mean what their names say,
and a clean-up after a normal run.

**Pipelines.** A reader sees the end of a pipe only when nobody holds its write
end, so who closes what before exec and before wait decides whether a pipeline
ends. Correct means: output complete, no process that waits for itself, no
command left behind when a fork fails.

**Message queue.** Every sender creates the queue if it is missing and removes it
at the end of its own input (`sender.cpp:48`), under the other senders and
receivers; the demonstrations `gener_mq` and
`mod_gener` do the same. Correct means: each type
is a FIFO, exit codes are true, and a blocked call returns when its queue goes.

**File buffer.** The run that makes the set is the producer. The consumer calls
`semop(semid, &acquire, 2)` with one `sembuf` (`sem_prod_con.cpp:90`), so
what the second operation is depends on the layout that the compiler chose.
Correct means: one producer, strict turns, nothing read before it is there.

**FIFO service.** A client sends its request through PUBLIC and then opens a private
FIFO, where open waits for a writer. Three servers differ in who answers: the
server itself with five tries (`pipe_server.cpp:16-21`), a child
(`pipe_server_m`), a child that the server waits for (`pipe_server_mod.cpp:66`).
Correct means: an answer is whole and is that of the client's own last command, a
request is in one place, no client holds up another one.

**Echo servers.** `echo_server` serves one client after the other; `mod_echo_server`
gives each accepted socket to a thread through a ThreadData of its own (58-69);
`sock_c_i_srv` forks a child per client (line 40), over TCP, where a read may
return any part of what was written, while `sock_c_i_clt` does one read per write
(line 42). A write to a client that has gone raises SIGPIPE, which ends the
process before it can get to `perror("send")` (`echo_server.cpp:62`,
`mod_echo_server.cpp:107`): the whole server in two of the three programs, one
child in the third. Correct means: every client gets its own bytes back in order, a
child of the forking server does not depend on anybody else, and every line is
answered as long as the server lives.

**FIFO service with signals.** The client of `signal/6.7` starts a server when its
open of PUBLIC fails (`pipe_client_mod.cpp:35`), so several clients may start
several servers, and SIGINT handlers unlink names that others use. Nobody makes
the private FIFO for which the client waits in a loop (line 31). The server of
`6.7` unlinks `SERVER_FIFO_NAME`, which is not PUBLIC, and its `mkfifo` fails when
PUBLIC is there (line 21); the server of `6.7/test` does not look at `mknod`,
unlinks PUBLIC, whoever's it is by now, and leaves its handler to its children
until they reset it. Correct means: one server where one was meant, a client that
needs a server gets one, a client that is interrupted ends.

**Segments edited by a child.** Parents make private segments, a child changes one
or all of them, the parent shows and removes them; `main` replaces one while it is
attached. A segment outlives its process, so every error exit leaves some behind.
`byte_changer` waits for its child (line 74) before it opens the FIFO through which
the child reports, and the name of that FIFO is the same for everybody. Correct
means: nothing stays behind a normal end, what is shown after the edit is the
edit, a report comes from one's own child (it never does), runs end.

**Guessing game.** One server serves one player after the other and looks at read
for errors only, so a player that has gone goes on guessing its last letter. What one
read returns is one guess, its first character (`server_game.cpp:101-108`), however much
of a line has come. The word is set letter by letter without its last byte (68-73), and
strcmp and strcpy read what lies behind it (114, 118); the host name of the greeting is
not set at all (79-82). A failing accept ends the program (51-54). Correct means: a
player is judged by what it has typed itself and sees the rest of the word only when it
has lost (118), the end of the server takes no game from a player, its game does not
outlive it, nobody waits for ever.

**Conversations.** `socketpair` closes the ends that it does not use, `spair.c`
none. `sock_c_u_srv` counts ten reads, whatever they return, and unlinks
`my_sock` at its start, at its end and in its error exits. `signal_exchange`
pauses for a signal that may have come before. Correct means: what was sent is
printed, whole and in order; a server that waits is found; calls return.

The list of hazards in `PROJECT.json` names each difficult place with the
properties that cover it.

## 2. Plan

Order: what several processes share for longest comes first.

1. `SemLock` with the abstract `LockService`, and its proofs: done.
2. `ShmBuffer` with the abstract `BoundedFifo`, and its proofs: done.
3. `Pipeline`, with `cmdpipe`, and its proofs: done.
4. `MsgQueue` with the abstract `TypedQueue`, and its proofs: done.
5. `FileBuffer`: done, with its proofs.
6. `FifoService`: done, with its proofs.
7. `SignalService`: done, `OneServer` proved.
8. `Segments`: done, with its proofs.
9. `EchoService`: done, with its proofs.
10. `GuessGame`: done, with its proofs.
11. `Conversations`: done, with its proofs.

Every safety property that a run checks is also a theorem, `semdemo_mod`'s violation aside.
Section 6 says how they are proved and why the liveness properties are not.

`SemLock`, `ShmBuffer` and `FileBuffer` each carry their own few lines of System
V semaphore, because each uses another part of it (one value and removal under
use; two counters and the end of a process; semop with two operations).

## 3. Modules

### SemLock
One process per terminal; a run is a pass from `pc = "idle"` back to it. Each
action is the code between two points at which other processes can act: a system
call with what follows it. `CreateSet`, `CreateExists`, `Open`, `OpenFails`,
`InitSemop`, `PollReady`, `PollAgain`, `PollTimeout` are `initsem`; `SetVal`
is `create`, `Rmid` is `semrm`, `PressEnter` to `Finish` are
`lockResource`, `unlockResource` and `main`. `Terminate` is the end of a run with
SEM_UNDO; `Kill` applies it anywhere. `sem_op` is the field that
`semdemo_mod` forgets to reset. Two unobvious points of the code are kept: the
result of IPC_STAT is not looked at (after a removal the buffer holds what it held
before, or anything when it was never filled), and semop fails with ERANGE above
`SEMVMX`.

`LockService` is the promise: one lock per set, taken when free, released by its
owner. Refinement: the owners of a lock are the processes between lock and unlock.

### ShmBuffer
`ShmGet` to `RemoveSem` are `parent.cpp` from top to bottom; `Exec`, `Attach`,
`OpenSem`, `Sleep` are what producer and consumer share; the `Producer...`,
`Write`, `Consumer...`, `Copy` actions are the loops. A `strcpy` lasts from the
state "write" or "copy" to the end of that action, so that overlapping accesses
are visible. A string is the number of its production. The comparison of the
croaker with the parent's own pid (`parent.cpp:72`) is in `Target`. Nothing
decrements the consumer's `i`.

`BoundedFifo` is the promise; the refinement maps `N_SLOTS` to its capacity.

### Pipeline
`program`, the number of commands `N` and the amount they produce are chosen at the
start. `ends[p]` is the set of pipe ends process p holds; `Fork` copies it, `Exec` keeps
of it what `Kept` says: the close calls of three of the programs
(`cmdpipe_modified.cpp:31-39`, `whosortpipe.cpp:14-26`,
`converterpipe.cpp:26-46`). Commands are external: they produce or copy blocks at
once ("lines"), after the end of input ("sort") or until they like to stop ("head").
In `cmdpipe` each popen leaves one end of a pipe of its own to the parent, which copies
from one to the other (`CopyRead` to `CopyEnd`) and keeps the second command's input open
until the first command has been waited for.

### MsgQueue
One queue at a time has the key; a removed queue fails every call, also one that
is waiting. A message carries its sender, its number and its type.
`Position` is the kernel's choice for msgrcv with type 0, positive or negative.
`TypedQueue` is the promise: a FIFO per type, thrown away at once at a removal; the
refinement gives each type the messages of that type in the queue, in their order
(`OfType`).

### FileBuffer
`SemgetExcl` and `Semget` choose the role; `second` is the operation the build has
behind `acquire`. `OpenToWrite` and `CloseWritten` separate the truncation from
the moment the number gets to the file. `dead` marks sessions in which SEM_UNDO
has interfered.

### FifoService
`program` is the server in use. `Try` is one turn of `pipe_server`'s loop, `Fork`
and `ChildReaped` the forking servers. `Meet` is an open that returns on both
sides. `ClosePublic` keeps what the kernel does to unread requests: they stay as
long as anybody has PUBLIC open.

### EchoService
`program` is the server in use. `Start` to `SpawnFails` are `main` of the three
servers, `handler[c]` is the loop that serves c: the server itself, a thread or a
child. `Sizes` says how much one call returns: on the UNIX socket what there is
(lines are shorter than 100 bytes, and the client waits for the answer), on TCP
any part. `Close` is what the kernel does when the last process with a socket
ends, the connections that nobody has accepted included; `Listening` keeps the
port of `sock_c_i_srv` taken while a child lives, since children do not close
`orig_sock`. `HandlerSendFails` is SIGPIPE. At the end of its input
`sock_c_i_clt` does not leave its loop but prompts for ever ("spinning").

### SignalService
A FIFO has a number, because PUBLIC may be unlinked and made again while
processes still have the old one open: `public` is the FIFO that the name leads to,
`inode` and `dummy` are what a server's two opens have got. `StartServer` is
the failing open of a client with the fork and exec that follow it; `Create`, `OpenFifo` and
`OpenDummy` are the start of a server in the order of its system calls, since other
servers and handlers come between them. `Awake` is what the kernel does to a
server that waits in open. `n` has no value at the first attempt of `6.7`.
`MakeByHand` is the only way to a private FIFO. `InterruptServer` and
`InterruptChild` are SIGINT; that of a client only clears `clientRunning`.

### Segments
`seg` is the kernel's table, `Settle` what it does to a removed segment when
the last process detaches. `run[r]` holds the locals of one parent and its child;
`Get` to `Exit` are what the six programs share, in the order of their calls, and
`AfterGet` says where they differ. `Regrow` is the replacement in `main` (which
then copies a buffer onto itself, `main.cpp:91`, where the comment of line 90
announces the old contents), `RegrowFails` its three error exits (78-89). `modify_segment`, the program that `byte_changer`
executes, is not in the repository: its actions (`Exec`, `ChildLeaves`, the
process `writer` that it may leave behind) are external and do all it could do
with the FIFO.

### GuessGame
`AcceptFails` is the exit with no player. `WriteOut` is each of the three unchecked
writes; before the first one sprintf may run out of `outbuf`, and the server ends.
`Read` with `Judge` is one turn of the game, `Found`, `Left` and `State` are what a
guess makes of the letters, the lives and `game_state`: `ended_word` says whether the byte
behind the word is 0. A lost game sets `part_word` to the whole word (118); when that has
no end the strcpy may crash. What a player types is a stream of characters, of which a read
takes any part and judges the first. `link` is what
the kernel knows of a connection: "closed" by a player that had read
everything, "reset" by one that had not, "broken" when a reset has been seen.

### Conversations
A process is a list of calls (`PairParent`, `SrvCode`, ...), and an action is a call.
`open` says which processes have an end open, which decides between the end of the
data, SIGPIPE and waiting. `Bind` of a second server fails and, by `clean_up`,
unlinks the first one's name; so does `AcceptFails`.

Definitions whose comment begins with "Slip" are not part of the specifications:
each is a plausible mistake in the code next to it, and replaces that definition
to show that a property would notice (`PROJECT.json`, "mutants").

## 4. Runs

| Run | Bounds | Distinct states | Shows |
|---|---|---|---|
| `MCSemLock` | 2 semdemo, 1 create, 1 semrm, 2 sets, 2 polls, SEMVMX 2 | 4,619 | exclusion, initialisation before use, conservation under kills, every wait ends, implements `LockService` |
| `MCSemLockMod` | semdemo and semdemo_mod | | **violation** of `MutualExclusion` |
| `MCShmBuffer` | 2 slots, up to 5 strings, limits 0, 1, -2 | 13,994 | slots exclusive and counted, bounded FIFO, stranded strings, clean-up |
| `MCPipeline` | 2 or 3 commands of all kinds, 1 or 3 blocks, pipes of 2, all four programs | 108,435 | output whole, program and commands end but for two named reasons |
| `MCMsgQueue` | one run of each of the five programs, 2 lines each, queue of 2, 2 queues | 575,854 | FIFO per type, true exit codes, nobody hangs |
| `MCFileBuffer` | 3 runs, 2 sessions, 2 numbers, all four kinds of build | 17,478 | one producer, turns unless the build releases early, nothing early, runs end |
| `MCFifoService` | 2 clients with 2 commands, all servers, 2 tries, answers of 3 parts through FIFOs of 2 | 250,654 | answers whole, requests accounted for, clients served but for one named case |
| `MCSignalService` | 2 clients, 2 servers at a time, 1 SIGINT to a server or child, any to clients, 2 tries | 130,248 | one server, the service comes back, interrupted clients end |
| `MCSegments` | 2 runs of any two of six programs, 2 segments each, a table of 3 | 150,397 | nothing left, the edit is shown, reports, runs end |
| `MCGuessGame` | 2 players, a word of 2 letters and one bad one, 2 lives, 2 characters typed | 108,648 | fair games, no game taken by the end of the server but in two named places, the queue moves |
| `MCConversations` | 2 servers and 2 clients, or a pair, 2 rounds, four programs | 123,559 | output complete, servers found, calls return |
| `MCEchoService` | 2 clients with 2 and 1 lines of up to 2 bytes, all servers, backlog 1 | 260,477 | bytes back in order, children independent, lines answered |

Type invariants are properties of a run only for `Segments`, `GuessGame` and
`Conversations`. All of them are theorems but that of `SignalService`, which documents
the state and is in no run.

Why the bounds are enough to meet the cases. `MCSemLock`: two lockers contend, a
third process removes and a fourth recreates; a second set is needed to see an
old semid used after a removal. `SEMVMX` 2 and 3 stand for 32767 and are above the
1 that a correct lock reaches. `MCShmBuffer`: with 2 slots and 5 strings the ring
wraps twice and is full and empty; `TIMES` 3 stands for 20, and the
limits cover a remainder 0, a positive and a negative argument. `MCPipeline`: an
output longer than a pipe, so that writers block, one that fits, and a third command, which is
where ends are left open. `MCMsgQueue`: two senders
against one queue, a queue that fills up, and a second queue after a removal;
the types asked for are a plain one and a negative one, 0 being the plain
receiver's. `MCFileBuffer`: two consumers against one producer, and a run left over
from the first session in the second. `MCFifoService`: `TRIES` 2 stands for 5 (one
that is repeated and one that is last); an answer is longer than a FIFO; PUBLIC
holds one request so that a second client waits in write. `MCEchoService`: the
backlog is full with one waiting client (5 in the code); a line of two bytes is the
shortest one that TCP can cut, and one client has a second line for an answer
that lags. `MCSignalService`: two servers are started by two clients at once;
one SIGINT may hit a server at any place, or a child that then unlinks the
PUBLIC of its parent. With no third server a client could be left alone only because
the model has run out of them: `ServiceReturns` excuses the states in which both servers
read FIFOs that PUBLIC no longer names (`Unnamed`). `MCSegments`: two runs compete for
a table one place too small, and share the name of the FIFO. `MCGuessGame`: more
players and characters repeat what two do; the guess that a gone player repeats uses up any
number of lives. `MCConversations`: two servers for one name, two clients for one accept.

Deadlock is not checked anywhere: all these programs end, or wait for a user. That
they do not stop where they should go on is what the liveness properties say.

**Fairness.** A process that can go on does (weak fairness of its steps): the
scheduler's promise, and no more. What people do has none: typing, pressing
Enter, starting and killing programs, as well as errors. `Lock` in `SemLock` has
strong fairness, because the kernel gives a semaphore to blocked processes in the
order in which they came. `WaitsEnd` further assumes that no user sits on the
lock for ever. `Served` excuses a client whose request a server has reported as
dropped, and all clients while the server is dead, and those behind a killed client for
whom `pipe_server_mod` waits. `LinesAnswered` excuses all
clients while the server is down, and assumes for `echo_server` that no client sits
at its prompt for ever. `GuessGame` has strong fairness for `ResetArrives`: the
network answers a write to a player that has gone at some time, also while the
server goes round its loop, in which the reset is possible again and again.
In `SignalService` nothing makes a person create private FIFOs or send signals.

## 5. What the models show of the code

One run ends with a counterexample to a statement of the repository:

- `semdemo_mod.cpp:75`: `sem_op` stays 1 after the first unlock, the next "lock"
  adds a unit, and two processes hold the lock (`MCSemLockMod`).

Other weak places are named as the exceptions of properties that otherwise
hold, so that the property says both where the program goes wrong and that it does
so nowhere else:

| Place | What happens | Exception in |
|---|---|---|
| `cmdpipe_modified.cpp:31` | with three commands the third one keeps the write end of the first pipe, whose reader never sees its end | `ShellReturns` |
| `converterpipe.cpp:51` | no standard input is connected; an output longer than a pipe blocks its command and the parent | `ShellReturns` |
| `sem_prod_con.cpp:90` | two operations are taken from one `sembuf`; where `release` lies behind it the producer overwrites numbers nobody has read | `Alternates` |
| `pipe_server_mod.cpp:66` | a killed client stops the server, which waits for the child | `Served` |
| `signal/6.7/pipe_server_mod.cpp:9`, `21` | after SIGINT PUBLIC stays, and no server can be started any more | `ServiceReturns` |
| `signal/6.7/pipe_client_mod.cpp:31` | nobody makes the private FIFO; SIGINT does not end the wait for it | `InterruptedClientEnds` |
| `signal/6.7/test/pipe_server_mod.cpp:43` | the child answers before the client listens, or is interrupted: the client waits for ever | `InterruptedClientEnds` |
| `9.7/byte_changer.cpp:74` | parent and child wait for each other; a report is only ever read from a process left behind | `RunsEnd`, `ReportFromOutside` |
| `spair.c:33` | a read that the reader itself keeps from ending | `CallsReturn` |
| `signal_exchange.cpp:52` | the signal comes before pause | `CallsReturn` |
| `sock_c_u_srv.cpp:68` | a server takes away the name of another one | `ListenerIsFound` |
| `server_game.cpp:114`, `118` | nothing ends the word, so strcmp may find it different from the letters although all are guessed: the player is asked for another guess with `game_state` at 'I' ("Incomplete", line 77), and can only lose; and strcpy may end the server when the loser is shown the word | `JudgedFairly`, `NobodyDropped` |
| `server_game.cpp:82` | the host name that nobody has set may end the server in its greeting | `NobodyDropped` |
| `server_game.cpp:102`, `121` | a player that has left, by a reset, ends the server | `NobodyDropped`, `QueueMoves` |
| `pipe_server.cpp:25` | the FIFO is open without blocking; what does not fit is missing from the answer | `AnswerWhole` |

Facts stated as properties that hold: the end of the producer strands the strings
still in the ring (`StrandedAfterProducer`), because its undo takes `TO_CONSUME`
back; a server killed between read and fork loses a request (`dropped` in
`RequestAccounted`); `create_segments` leaves all its segments (`NothingLeft`).

## 6. Proofs

`tlapm` checks every leaf. The only assumptions are the named `ASSUME`s about the
constants (`ConstantsAssumption`, `SegmentsAssumption`, `GuessGameAssumption`,
`ConversationsAssumption`), which TLC evaluates in each run. Where a theorem names a property
of a run, the run shows it on the bounds of section 4, the theorem for every value of the
constants. Each component has one inductive invariant (`SemLock` and `FifoService` two, one
on top of the other), one lemma per action or group of actions, and lemmas about the
operators that the actions are made of.

Three components share the proof module of another one, as instances: `SignalService` is `S`
in `FifoServiceProofs`, `MsgQueue` is `M` in `ShmBufferProofs`, `Conversations` is `C` in
`SemLockProofs`. A variable or constant that both components declare (`pc` of `MsgQueue`,
several of `SignalService`) is one symbol there and stands for that of the instance behind
the INSTANCE line. Their theorems are about `S!Spec`, `M!Spec` and `C!Spec` alone and do not
mention the other component. The assumptions of `MsgQueue` and `Conversations` appear in
them as the hypotheses `M!ConstantsOK` and `C!ConstantsOK`; `SignalService` needs none, nor
those of `FifoService`. The properties proved in this way are `OneServer`,
`CleanExitMeansAccepted`, `ImplementsTypedQueue`, `EndsComplete`, `ListenerIsFound` and the
types of `MsgQueue` and `Conversations`.

**SemLockProofs** (`KernelInv`, `LockInv`). `KernelInv` holds for any mix of
programs: types; the program of a run fits its place; semids are numbered in
order, and a set that no semop has reached has nothing to undo; one process
initialises a set, and until then its value is 0; whoever uses a set that exists
finds it initialised. From it follow `TypeCorrect` and `InitialisedBeforeUse`.
`ReadyMeansInitialised` alone is not inductive, as nothing in it prevents the undo of
another run or a second initialiser from acting on the new set.
`LockInv` adds, under the hypothesis `DemoMod = {}`, that `sem_op` is -1 before
the unlock, that the undo record of a process on the live set is exactly the
lock it holds, and that the value is 1 minus the number of holders. It yields
`LockExcludes`, `LockIsConserved` and the refinement `LockRefines`. The hypothesis
is needed: the run `MCSemLockMod` shows what happens without it.

**ShmBufferProofs** (`Inv`). While both children live, the semaphores count free
and filled slots (`Counted`), and the undo records are the operations made so far
(`Undo`). When the producer dies, `TO_CONSUME` falls to 0 (`ProducerDead`); when the
consumer dies, `AVAIL_SLOTS` only gets smaller (`ConsumerDead`). So a writer has a
free slot and a reader a filled one (`Room`), and the cells from head on hold the
next strings in order (`Ring`). It yields `ShmTypeCorrect`, `SlotsNeverShared`,
`SlotsCounted`, `StrandedStrings` and the refinement `ShmRefines`, for any
number of slots, any arguments and any deaths.

**PipelineProofs** (`Inv`). `NothingTruncated` speaks of what is printed and of commands
that are done; the data in between is nowhere in it, so it is far from inductive. `Inv` says
that there are numbers `W`, what each process has written so far, which fit together
(`Stream`): from the terminal back to the first command, what is printed, what a command
still has to write and what is in each pipe are the next blocks of the data without a gap;
and a command that has seen the end of its input has had all the data, unless one before it
has failed or could not be forked. For the second half an end of the input must not come too
early, and that is a matter of who holds which ends: `Shape` says that whoever may still
write to a pipe holds its write end, program by program (`PlainEnds`, `ConverterEnds`,
`PopenEnds` with the places of `cmdpipe`'s loop in `PopenLoop`), that a command that has not
begun has read and written nothing (`Fresh`), and that one that is done has seen the end and
kept nothing back (`Started`). It yields `PipelineTypeCorrect` and `OutputWhole`, for
pipelines of any number of commands of any kind, any amount of data and any size of a pipe.

**MsgQueue**, in `ShmBufferProofs` (`ChatInv`). `CleanExitMeansAccepted` alone is not
inductive: it says nothing of a sender that has met an error and not yet ended. `RefusedOK`
adds that the queue of such a sender does not have the key again, so that the removal at its
end fails; queue ids only grow. It yields `ChatTypeCorrect` and `SendersExitTruly`. For the
refinement `ChatRefines`, msgsnd must append to what `OfType` gives for one type, and msgrcv,
which takes a message out of the middle of the queue, must take the first one of its type and
leave the other types alone (`OfTypeAppend`, `OfTypeRemoveFirst`, `OfTypeRemoveOther`). `OfType`
recurs over the positions of the queue. What it gives is first stated of any function with the
same recursion (`Filters`) and then proved for every length with `SetInduction`: a set of
numbers that has 0 and with n also n + 1 has all of them, which follows from the
well-foundedness of < on the natural numbers.

**FileBufferProofs** (`Inv`). `Sessions` has the types and says who is in which session:
a producer's set always has the key, because only the producer removes it, and a run
that has not attached has nothing to undo. It yields `BufferTypeCorrect` and
`ProducerAlone`. `First` says that before the first number `MADE` is 0 and no attached
run has an undo for it; without the second half the undo of a dead run could let a
consumer in. `Turns` holds while nobody has died and the build does not release early:
one unit goes from `READ` to `MADE` and back, and is with the producer or with exactly
one consumer in between, which fixes how long the list of numbers is at each
place of the producer. From the three follows `TurnsAlternate`, for any number of runs,
sessions, numbers and deaths.

**FifoServiceProofs** (`Counted`, `Whole`). `Typed` gives `FifoTypeCorrect`: no FIFO
overflows and `basic` makes at most `TRIES` attempts. `Counted` says where the request of
a client that waits is: in PUBLIC, with the server, with a child, or reported as
dropped; it needs that only `basic` answers itself, and yields `RequestsNotLost`.
`AnswerWhole` says nothing of the state between the request and the prompt, so it is far
from inductive. `Whole` fills the gap for the two servers with children: a request is in one
place at most (`Once`), as long as it is there no part of an answer is on its way, and
afterwards what the client has read, what is in its FIFO and what the child still has to
write are together the answer to its last command (`Piece`). It yields `AnswersWhole`, for
any number of clients, commands and parts, any capacity and any kills.

**SignalService**, in `FifoServiceProofs` (`ModInv`). `OneServer` alone is not inductive: a server that
reads nothing unlinks PUBLIC, and the next one would make it again beside a third.
`NamedOK` excludes that: from its mkfifo on a server of `6.7` keeps the name, the name
stays that of the FIFO it has open, and it has that FIFO open for writing too as soon as
it reads, so that its read never returns 0. It yields `ServerAlone`.

**SegmentsProofs** (`Inv`). The runs touch only their own segments, so the invariant is a
conjunction over the runs (`RunOK`), and one general lemma says that a step of one run
keeps what is said of the others. For each place of a run it says which segments it has not
made yet (`Unmade`), which ones it has marked for removal (`Gone`), and what its child can be
doing (`ChildOK`): the child of `changer` has ended when the parent goes on to show,
whoever may open the FIFO does so while its run has the name, and the answer is never the
child's. `NothingLeft` alone is not inductive, because it speaks only of the last place and
not of the loop that gets there. It yields `SegTypeCorrect`, `NothingStays`, `NeverTheChild` and
`PrintedAfterTheChild`, for any number of runs, segments and places in the table.

**GuessGameProofs** (`Inv`). The server knows of a player only what it has read. So the
letters shown before a loss and the lives lost are measured by the characters taken from the
connection (`JudgedBy`), which are what was typed without what is still on the wire
(`WireOK`). That is stronger than `JudgedFairly`, which counts all characters typed and is not
inductive: a bad one still on the wire is counted there, and costs a life only when it comes.
`GameOK` ties the lives, the letters and the state of the game to the place of the server,
which `JudgedFairly` needs for a win with a life left: a game that is not over although its
letters are complete has a word without an end, so a bad guess never wins.
`NobodyDropped` is not inductive either: that the server has no guess before the first read,
and no player while it accepts, is in `GameOK`. The invariant yields
`GuessTypeCorrect`, `PlayersJudgedFairly` and `NobodyIsDropped`, for any word, letters, players
and lives.

**EchoServiceProofs** (`Inv`). The bytes of a connection that is alive at both ends are in
`got`, `down`, the handler's chunk and `up`, and put one behind the other they are the bytes
typed, none missing and none twice (`StreamOK`). `EchoInOrder` speaks of `got` alone. That each
connection has one handler, begun once, is `QueueOK`: who waits in the backlog, or has just
been accepted, has none, and nobody waits twice. That at the prompt of `echo_client`
everything has come back needs `TurnOK`: on the UNIX socket the line is in one place at a
time and is never cut. It yields `EchoTypeCorrect`, `BytesEchoedInOrder` and, as an action property,
`ChildrenLeftAlone` (`ForkIsolates`): the end of the parent closes only connections that have no
child, and the end of a child only its own and those that nobody has accepted. The
number of clients, lines and bytes and the length of the backlog are arbitrary.

**Conversations**, in `SemLockProofs` (`Inv`). A process is a list of calls, so its place in
the list says what it has sent and printed and what state it can be in (`Placed`; `CallAt`
and `Last` are the lists by their places, for any number of rounds). `Paired` and `Linked`
say who talks to whom: a pair has one connection, a client of `sock_c_u` waits in one
backlog, once, or is with one server, or has not connected and left no trace. `Streams` is
the heart: what a process has printed and what waits at its end are together what its partner
has sent, in order, unless the partner was killed. `EndsComplete` is that at the last place,
where by `Placed` as much has been printed as can have been sent. It needs that nobody
prints the end of the data as if it were a message, and that comes from `Ends`: whoever is still
to write holds the end to write to, so only a killed partner's data ends early. `ListenerIsFound`
speaks of the server in accept only, although the name may be lost at any place before or
taken away at its end by another one; `Named` says it of all places from accept to the removal,
for a server that is the only one ever started. It yields
`ConversationsTypeCorrect`, `PartnersHeard` and `WaitingServerFound`, for any number of
servers, clients and rounds, and any kills.

Only model-checked:

- All liveness properties (`WaitsEnd`, `ShellReturns`, `NobodyHangs`, `SessionEnds`, `Served`,
  `LinesAnswered`, `RunsEnd`, `CallsReturn`, `QueueMoves`, `ServiceReturns`,
  `InterruptedClientEnds`, `NormalRunCleansUp`): the prover has no ENABLED, hence no fairness.
- The types of `SignalService` (in no run): the requests in a FIFO are filtered with
  `SelectSeq`, of which the provers know no definition.

## 7. What is abstracted or left out

- Contents: strings, lines, answers and numbers are identified by their origin
  and order. A line longer than 199 characters is several messages.
- Time: `sleep` only separates steps; `sleep(5)` in `sem_prod_con` may be too short.
- The system's limits on segments, sets and queues appear as failing calls.
- In `FileBuffer` "padding behind acquire" and the other layouts are those a
  compiler can produce for the three static variables of `sem_prod_con.cpp`.
- Semids, queue ids and pids are not reused.
- In `EchoService` upper and lower case are the same, and a client connects once.
- `mod_gener`: its private segment and semaphore are not state; failing to make them
  is a failure of its start.
- `SignalService`: SIGINT goes to a client, a server or a child, one at a time; a
  client's child between its fork and its exec is not a process of its own.
- `Segments`: sizes are one unit; texts are what was done to them ("filled",
  "changed", ...), "mixed" in the middle of an edit.
- `Conversations`: every read asks for as much as one write gives; a signal that
  stops a process is left out.
- `GuessGame`: the characters that a read takes behind the first one are not looked at, as
  in the code; a read takes at most what has come, and the limit of 80 characters is left
  out. Overruns of an array end the server or overwrite nothing that is used.
- Hazards without a property: the error exits of `parent.cpp` (line 63), which leave
  the segment and the semaphores behind, are actions of `ShmBuffer` about which nothing is
  promised; a line longer than 199 characters (`mod_sender.cpp:38`) comes in pieces,
  the later of which get the type of their own first character.
- Not modelled: programs that make single calls
  without a shared state, programs that do not compile (`get_serv.cpp`,
  `signal_alarm.cpp`, `rlimit.cpp`, the older `pipe/pipe_server.cpp`), and the
  preprocessor output `pipe/cmdpipe_modified.exe`.
