----------------------------- MODULE Pipeline ------------------------------
(***************************************************************************)
(* The programs of pipe/ that connect commands with pipes:                 *)
(*   "cmdpipe_modified"  cmd1 | cmd2 | ... with all pipes made first,      *)
(*   "whosortpipe"       who | sort, the reader forked first,              *)
(*   "converterpipe"     a pipe per command, made in the forking loop,     *)
(*   "cmdpipe"           two popens, and a loop that copies between them.  *)
(* What they decide is who holds which pipe end: a reader sees end of file *)
(* only when no process holds the write end any more, and a writer gets    *)
(* SIGPIPE when no process holds the read end.                             *)
(*                                                                         *)
(* The commands are other programs.  A command produces some blocks, or    *)
(* copies its standard input; "lines" does so block by block, "sort" after *)
(* the end of its input, "head" may stop at any time.                      *)
(***************************************************************************)
EXTENDS Integers, Sequences

CONSTANTS
    Programs,  \* the programs that are considered
    MaxCmds,   \* bound: commands of a pipeline
    Amounts,   \* what a command without a pipe as input may produce, in blocks
    Capacity,  \* blocks that a pipe holds
    Kinds      \* behaviours of commands that are considered

ASSUME ConstantsAssumption ==
    /\ Programs \subseteq {"cmdpipe_modified", "whosortpipe", "converterpipe", "cmdpipe"}
    /\ MaxCmds \in Nat \ {0, 1} /\ Amounts \subseteq Nat /\ Capacity \in Nat \ {0}
    /\ Kinds \subseteq {"lines", "sort", "head"}

VARIABLES
    program,  \* which program runs
    N,        \* num_cmds; 2 for whosortpipe and cmdpipe
    amount,   \* the blocks that a command without a pipe as input produces
    pipe,     \* pipe[k]: the blocks in pipe k
    ends,     \* ends[p]: the pipe ends <<k, "r">>, <<k, "w">> that p holds
    kind,     \* behaviour of each command
    todo,     \* blocks a command, or the copying shell, has and has not written yet
    eof,      \* the command has seen the end of its input
    pc,       \* "none", "forked", "run", "done" or "failed"
    reaped,   \* children whose end the shell has seen, or that it never had
    next,     \* i of the forking loop of the shell
    shell,    \* "fork", "copy", "wait", "done" or "failed"
    printed   \* what has come to the terminal: <<printing command, block>>

given == <<program, N, amount>>
vars == <<given, pipe, ends, kind, todo, eof, pc, reaped, next, shell, printed>>

Cmds   == 0 .. N - 1
Shell  == N                \* the program itself, parent of the commands
Procs  == Cmds \cup {Shell}
Pipes  == 0 .. N - 1       \* N - 1 only in converterpipe and cmdpipe
NoPipe == N

Converter == program = "converterpipe"

Popen == program = "cmdpipe"

Blocks(i) == [b \in 1 .. amount |-> <<i, b>>]

\* The pipes that are standard input and output of a running command: dup2 has
\* connected them if their end was there.  converterpipe never connects a
\* standard input; the second command of cmdpipe has a pipe of its own.
In(i) ==
    IF Popen /\ <<i, "r">> \in ends[i] THEN i
    ELSE IF ~Converter /\ <<i - 1, "r">> \in ends[i] THEN i - 1 ELSE NoPipe
Out(i) == IF <<i, "w">> \in ends[i] THEN i ELSE NoPipe

Held(k, e) == \E p \in Procs : <<k, e>> \in ends[p]

\* The i-th child is command i; whosortpipe starts with the reader.
Child(i) == IF program = "whosortpipe" THEN N - 1 - i ELSE i

\* Two of the programs make all their pipes before they fork.
Init ==
    /\ program \in Programs /\ amount \in Amounts
    /\ N \in IF program \in {"whosortpipe", "cmdpipe"} THEN {2} ELSE 2 .. MaxCmds
    /\ pipe = [k \in Pipes |-> << >>]
    /\ ends = [p \in Procs |->
                 IF p = Shell /\ ~Converter /\ ~Popen THEN (0 .. N - 2) \X {"r", "w"} ELSE {}]
    /\ kind \in [Cmds -> Kinds]
    /\ todo = [p \in Procs |-> << >>]
    /\ eof  = [i \in Cmds |-> FALSE]
    /\ pc   = [i \in Cmds |-> "none"]
    /\ reaped = {} /\ next = 0 /\ shell = "fork" /\ printed = << >>

-----------------------------------------------------------------------------
(***************************************************************************)
(* The shell.                                                              *)
(***************************************************************************)

\* Slip: the parent closes both ends of a pipe as soon as one child has it.
StartChildAndClose ==
    /\ ends' = [ends EXCEPT ![Child(next)] = ends[Shell],
                            ![Shell] = ends[Shell] \ ({next} \X {"r", "w"})]
    /\ pc' = [pc EXCEPT ![Child(next)] = "forked"]
    /\ next' = next + 1
    /\ UNCHANGED <<given, pipe, kind, todo, eof, reaped, shell, printed>>

\* fork: the child gets every end that the parent has.  converterpipe makes the
\* command's pipe first and closes its write end in the parent afterwards.  popen
\* makes a pipe and leaves one end to the child and the other one to the parent.
StartChild ==
    /\ LET own == ends[Shell] \cup
                    (IF Converter THEN {<<next, "r">>, <<next, "w">>} ELSE {})
           far == IF next = 0 THEN "r" ELSE "w"
           near == IF next = 0 THEN "w" ELSE "r"
       IN ends' = IF Popen
                  THEN [ends EXCEPT ![next] = {<<next, near>>}, ![Shell] = @ \cup {<<next, far>>}]
                  ELSE [ends EXCEPT ![Child(next)] = own,
                                    ![Shell] = own \ (IF Converter THEN {<<next, "w">>} ELSE {})]
    /\ pc' = [pc EXCEPT ![Child(next)] = "forked"]
    /\ next' = next + 1
    /\ UNCHANGED <<given, pipe, kind, todo, eof, reaped, shell, printed>>

Fork == shell = "fork" /\ next < N /\ StartChild

\* fork fails: whosortpipe and cmdpipe do not see it and go on without that child, the
\* others exit(1) and the commands they have started run on.
ForkFails ==
    /\ shell = "fork" /\ next < N
    /\ IF program = "whosortpipe" \/ Popen
       THEN /\ next' = next + 1
            /\ reaped' = reaped \cup {Child(next)}
            /\ UNCHANGED <<ends, shell>>
       ELSE /\ shell' = "failed"
            /\ ends' = [ends EXCEPT ![Shell] = {}]
            /\ UNCHANGED <<next, reaped>>
    /\ UNCHANGED <<given, pipe, kind, todo, eof, pc, printed>>

\* Slip: the parent keeps the pipes while it waits.
CloseNothing ==
    /\ shell = "fork" /\ next = N
    /\ shell' = "wait"
    /\ UNCHANGED <<given, pipe, ends, kind, todo, eof, pc, reaped, next, printed>>

\* cmdpipe_modified closes all pipes before it waits, converterpipe afterwards.
\* cmdpipe crashes in fileno if a popen has failed.
Close ==
    /\ shell = "fork" /\ next = N
    /\ shell' = IF ~Popen THEN "wait" ELSE IF reaped = {} THEN "copy" ELSE "failed"
    /\ ends' = IF Converter \/ shell' = "copy" THEN ends ELSE [ends EXCEPT ![Shell] = {}]
    /\ UNCHANGED <<given, pipe, kind, todo, eof, pc, reaped, next, printed>>

\* The loop of cmdpipe.
CopyRead ==
    /\ shell = "copy" /\ todo[Shell] = << >> /\ pipe[0] # << >>
    /\ todo' = [todo EXCEPT ![Shell] = <<Head(pipe[0])>>]
    /\ pipe' = [pipe EXCEPT ![0] = Tail(@)]
    /\ UNCHANGED <<given, ends, kind, eof, pc, reaped, next, shell, printed>>

CopyWrite ==
    /\ shell = "copy" /\ todo[Shell] # << >> /\ Held(1, "r") /\ Len(pipe[1]) < Capacity
    /\ pipe' = [pipe EXCEPT ![1] = Append(@, Head(todo[Shell]))]
    /\ todo' = [todo EXCEPT ![Shell] = << >>]
    /\ UNCHANGED <<given, ends, kind, eof, pc, reaped, next, shell, printed>>

CopySigPipe ==
    /\ shell = "copy" /\ todo[Shell] # << >> /\ ~Held(1, "r")
    /\ shell' = "failed" /\ ends' = [ends EXCEPT ![Shell] = {}]
    /\ UNCHANGED <<given, pipe, kind, todo, eof, pc, reaped, next, printed>>

\* The end of the first command's output: its pclose closes the read end.
CopyEnd ==
    /\ shell = "copy" /\ todo[Shell] = << >> /\ pipe[0] = << >> /\ ~Held(0, "w")
    /\ shell' = "wait" /\ ends' = [ends EXCEPT ![Shell] = @ \ {<<0, "r">>}]
    /\ UNCHANGED <<given, pipe, kind, todo, eof, pc, reaped, next, printed>>

\* wait returns for one child after the other, and at once when there is none.  pclose
\* waits for its own: cmdpipe keeps the second command's input open until the first
\* one has ended.
Reap ==
    /\ shell = "wait"
    /\ \E i \in Cmds \ reaped :
         /\ pc[i] \in {"done", "failed"} /\ reaped' = reaped \cup {i}
         /\ Popen => 0 \in reaped'
    /\ ends' = IF Popen THEN [ends EXCEPT ![Shell] = {}] ELSE ends
    /\ UNCHANGED <<given, pipe, kind, todo, eof, pc, next, shell, printed>>

AllReaped ==
    /\ shell = "wait" /\ reaped = Cmds
    /\ shell' = "done"
    /\ ends' = [ends EXCEPT ![Shell] = {}]
    /\ UNCHANGED <<given, pipe, kind, todo, eof, pc, reaped, next, printed>>

-----------------------------------------------------------------------------
(***************************************************************************)
(* A child before exec: dup2 and close.  The originals of the duplicated   *)
(* ends and the ends of all other pipes stay open, in converterpipe the    *)
(* read ends that the parent has collected.                                *)
(***************************************************************************)

Kept(i) ==
    ends[i] \ (IF Popen THEN {} ELSE IF Converter
               THEN {<<i, "r">>} \cup (IF i < N - 1 THEN {} ELSE {<<i, "w">>})
               ELSE (IF i > 0 THEN {<<i - 1, "w">>} ELSE {})
                    \cup (IF i < N - 1 THEN {<<i, "r">>} ELSE {}))

Exec(i) ==
    /\ pc[i] = "forked"
    /\ ends' = [ends EXCEPT ![i] = Kept(i)]
    /\ pc' = [pc EXCEPT ![i] = "run"]
    /\ eof' = [eof EXCEPT ![i] = In(i) = NoPipe]
    /\ todo' = [todo EXCEPT ![i] = IF In(i) = NoPipe THEN Blocks(i) ELSE << >>]
    /\ UNCHANGED <<given, pipe, kind, reaped, next, shell, printed>>

\* A process ends and with it all that it holds.
End(i, how) ==
    /\ pc' = [pc EXCEPT ![i] = how]
    /\ ends' = [ends EXCEPT ![i] = {}]
    /\ UNCHANGED <<given, pipe, kind, todo, eof, reaped, next, shell, printed>>

\* execlp: no such command; exit(1), or the end of main in whosortpipe.
ExecFails(i) == pc[i] = "forked" /\ End(i, "failed")

(***************************************************************************)
(* The commands.                                                           *)
(***************************************************************************)

Read(i) ==
    /\ pc[i] = "run" /\ ~eof[i] /\ pipe[In(i)] # << >>
    /\ kind[i] # "sort" => todo[i] = << >>
    /\ todo' = [todo EXCEPT ![i] = Append(@, Head(pipe[In(i)]))]
    /\ pipe' = [pipe EXCEPT ![In(i)] = Tail(@)]
    /\ UNCHANGED <<given, ends, kind, eof, pc, reaped, next, shell, printed>>

ReadEof(i) ==
    /\ pc[i] = "run" /\ ~eof[i]
    /\ pipe[In(i)] = << >> /\ ~Held(In(i), "w")
    /\ eof' = [eof EXCEPT ![i] = TRUE]
    /\ UNCHANGED <<given, pipe, ends, kind, todo, pc, reaped, next, shell, printed>>

MayWrite(i) ==
    pc[i] = "run" /\ todo[i] # << >> /\ (kind[i] = "sort" => eof[i])

WritePipe(i) ==
    /\ MayWrite(i) /\ Out(i) # NoPipe
    /\ Held(Out(i), "r") /\ Len(pipe[Out(i)]) < Capacity
    /\ pipe' = [pipe EXCEPT ![Out(i)] = Append(@, Head(todo[i]))]
    /\ todo' = [todo EXCEPT ![i] = Tail(@)]
    /\ UNCHANGED <<given, ends, kind, eof, pc, reaped, next, shell, printed>>

SigPipe(i) ==
    /\ MayWrite(i) /\ Out(i) # NoPipe /\ ~Held(Out(i), "r")
    /\ End(i, "failed")

WriteTerminal(i) ==
    /\ MayWrite(i) /\ Out(i) = NoPipe
    /\ printed' = Append(printed, <<i, Head(todo[i])>>)
    /\ todo' = [todo EXCEPT ![i] = Tail(@)]
    /\ UNCHANGED <<given, pipe, ends, kind, eof, pc, reaped, next, shell>>

Finish(i) ==
    /\ pc[i] = "run"
    /\ eof[i] /\ todo[i] = << >>
    /\ End(i, "done")

Quit(i) == pc[i] = "run" /\ kind[i] = "head" /\ End(i, "failed")

Command(i) ==
    \/ Exec(i) \/ Read(i) \/ ReadEof(i)
    \/ WritePipe(i) \/ SigPipe(i) \/ WriteTerminal(i) \/ Finish(i)

ShellStep ==
    \/ Fork \/ Close \/ Reap \/ AllReaped
    \/ CopyRead \/ CopyWrite \/ CopySigPipe \/ CopyEnd

Next ==
    \/ ShellStep \/ ForkFails
    \/ \E i \in Cmds : Command(i) \/ ExecFails(i) \/ Quit(i)

Spec == Init /\ [][Next]_vars

\* Each process runs whenever it can.
Fairness ==
    /\ WF_vars(ShellStep)
    /\ \A i \in 0 .. MaxCmds - 1 : WF_vars(i \in Cmds /\ Command(i))

FairSpec == Spec /\ Fairness

-----------------------------------------------------------------------------
(***************************************************************************)
(* Properties.                                                             *)
(***************************************************************************)

TypeOK ==
    /\ program \in Programs /\ amount \in Amounts /\ N \in 2 .. MaxCmds
    /\ pipe \in [Pipes -> Seq(Cmds \X (1 .. amount))]
    /\ \A k \in Pipes : Len(pipe[k]) <= Capacity
    /\ \A p \in Procs : ends[p] \subseteq Pipes \X {"r", "w"}
    /\ kind \in [Cmds -> Kinds]
    /\ todo \in [Procs -> Seq(Cmds \X (1 .. amount))] /\ eof \in [Cmds -> BOOLEAN]
    /\ reaped \subseteq Cmds
    /\ pc \in [Cmds -> {"none", "forked", "run", "done", "failed"}]
    /\ next \in 0 .. N /\ shell \in {"fork", "copy", "wait", "done", "failed"}
    /\ printed \in Seq(Cmds \X (Cmds \X (1 .. amount)))

\* What comes to the terminal is what the first command produced and the last
\* one printed: a beginning of it, without gaps, when a command fails, quits or
\* is killed by SIGPIPE, and all of it when every command has ended by itself, so
\* that no command has taken an early end of its input for the end of the data.
\* In converterpipe, where nothing is connected, it is the last command's own output.
NothingTruncated ==
    LET source == IF Converter THEN N - 1 ELSE 0 IN
    /\ \A n \in 1 .. Len(printed) : printed[n] = <<N - 1, <<source, n>>>>
    /\ (\A i \in Cmds : pc[i] = "done") => Len(printed) = amount

\* The program returns from its waits, and every command it has started comes to its
\* end, also when the program fails half-way: no reader waits for data that only it or
\* the shell could still write, no writer for room that only it could make.  Two things
\* can keep them waiting for ever.  A later command of cmdpipe_modified runs with the
\* write end of a pipe that it does not write to, so that the reader of that pipe never
\* sees its end.  And the parent in converterpipe keeps a read end that nobody reads: a
\* command whose output is more than a pipe holds stops in its write.
ShellReturns ==
    <>[]( \/ shell \in {"done", "failed"} /\ \A i \in Cmds : pc[i] \notin {"forked", "run"}
          \/ /\ program = "cmdpipe_modified"
             /\ \E i \in Cmds : pc[i] = "run" /\ \E k \in 0 .. i - 2 : <<k, "w">> \in ends[i]
          \/ /\ Converter
             /\ \E i \in Cmds : pc[i] = "run" /\ todo[i] # << >> /\ Len(pipe[i]) = Capacity )
=============================================================================
