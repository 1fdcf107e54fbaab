-------------------------- MODULE PipelineProofs ---------------------------
(***************************************************************************)
(* Proofs about Pipeline, for any number of commands of any kind, any      *)
(* amount of data and any size of a pipe: types, and that what is printed  *)
(* is a beginning of the data, and all of it when no command has failed    *)
(* (NothingTruncated).                                                     *)
(***************************************************************************)
EXTENDS Pipeline, TLAPS

Plain == ~Converter /\ ~Popen

Ends == Pipes \X {"r", "w"}

\* The ends that the first two programs have made before they fork.
AllEnds == (0 .. N - 2) \X {"r", "w"}

Block == Cmds \X (1 .. amount)

\* What is chosen at the start.
Chosen ==
    /\ program \in Programs /\ amount \in Amounts /\ N \in 2 .. MaxCmds
    /\ program \in {"whosortpipe", "cmdpipe"} => N = 2

\* The types of what the processes do and hold, and of the data.
ControlTyped ==
    /\ ends \in [Procs -> SUBSET Ends]
    /\ kind \in [Cmds -> Kinds] /\ eof \in [Cmds -> BOOLEAN] /\ reaped \subseteq Cmds
    /\ pc \in [Cmds -> {"none", "forked", "run", "done", "failed"}]
    /\ next \in 0 .. N /\ shell \in {"fork", "copy", "wait", "done", "failed"}

DataTyped ==
    /\ pipe \in [Pipes -> Seq(Block)] /\ todo \in [Procs -> Seq(Block)]
    /\ \A k \in Pipes : Len(pipe[k]) <= Capacity
    /\ printed \in Seq(Cmds \X Block)

Alive(i) == pc[i] \in {"forked", "run"}

\* A command that has not been started, or not yet been replaced by exec, has nothing.
Fresh ==
    /\ shell = "fork" => \A n \in next .. N - 1 : pc[Child(n)] = "none"
    /\ \A i \in Cmds : pc[i] \in {"none", "forked"} => todo[i] = << >> /\ ~eof[i]

\* A command that runs has its input if it has one, and has used it up when it is done.
Started ==
    \A i \in Cmds :
        /\ pc[i] = "run" /\ (i = 0 \/ Converter) => eof[i]
        /\ pc[i] = "done" => eof[i] /\ todo[i] = << >>

\* Who holds which ends: each command those of its input and its output as long as it
\* lives, and the program all of them as long as it forks.
PlainEnds ==
    /\ \A p \in Procs : ends[p] \subseteq AllEnds
    /\ shell = "fork" => ends[Shell] = AllEnds
    /\ \A i \in Cmds : Alive(i) => /\ i > 0 => <<i - 1, "r">> \in ends[i]
                                   /\ i < N - 1 => <<i, "w">> \in ends[i]

ConverterEnds ==
    \A i \in Cmds :
        /\ Alive(i) /\ i < N - 1 => <<i, "w">> \in ends[i]
        /\ pc[i] = "run" /\ i = N - 1 => <<i, "w">> \notin ends[i]

PopenEnds ==
    /\ ends[0] = IF Alive(0) THEN {<<0, "w">>} ELSE {}
    /\ ends[1] = IF Alive(1) THEN {<<1, "r">>} ELSE {}
    /\ pc[1] # "none" /\ shell \in {"fork", "copy"} => <<1, "w">> \in ends[Shell]

\* How far the loop of cmdpipe has come: it ends when the first command has ended and
\* all that it wrote has been copied.
PopenLoop ==
    /\ shell = "fork" => \A i \in Cmds : i \in reaped <=> i < next /\ pc[i] = "none"
    /\ shell \in {"copy", "wait", "done"} => pc[0] # "none" /\ pc[1] # "none"
    /\ shell \in {"wait", "done"} => ~Alive(0) /\ pipe[0] = << >> /\ todo[Shell] = << >>
    /\ Len(todo[Shell]) <= 1
    /\ shell = "failed" => \/ pc[0] = "none" \/ pc[1] = "none"
                           \/ pc[1] \in {"done", "failed"}

Shape ==
    /\ Chosen /\ ControlTyped /\ DataTyped /\ Fresh /\ Started
    /\ Plain => PlainEnds /\ shell # "copy"
    /\ Converter => ConverterEnds /\ shell # "copy"
    /\ Popen => PopenEnds /\ PopenLoop

-----------------------------------------------------------------------------
(***************************************************************************)
(* The data.  W[p] is what process p has written so far, in blocks.        *)
(***************************************************************************)

\* The command whose output is printed in the end, and who passes it on.
Source   == IF Converter THEN N - 1 ELSE 0
Carriers == IF Converter THEN {N - 1} ELSE Procs

\* The pipes that data goes through, who writes to them and who reads from them.
Links     == IF Converter THEN {} ELSE IF Popen THEN {0, 1} ELSE 0 .. N - 2
Writer(k) == IF Popen /\ k = 1 THEN Shell ELSE k
Reader(k) == IF ~Popen THEN k + 1 ELSE IF k = 0 THEN Shell ELSE 1

\* s holds the blocks of the source from number n + 1 on, as many as it has.
From(s, n) == \A j \in 1 .. Len(s) : s[j] = <<Source, n + j>>

\* What process p has read.
Had(W, p) == W[p] + Len(todo[p])

\* Command k will not write any more, and has not written all that there was.
Lost(k) == pc[k] = "failed" \/ (pc[k] = "none" /\ shell # "fork")

\* What is on its way, from the terminal back to the source, without gaps; and a command
\* that has seen the end of its input has all the data, or somebody before it is lost.
Stream(W) ==
    /\ \A p \in Carriers : From(todo[p], W[p])
    /\ \A k \in Links : /\ From(pipe[k], Had(W, Reader(k)))
                        /\ Had(W, Reader(k)) + Len(pipe[k]) = W[Writer(k)]
    /\ Len(printed) = W[N - 1]
    /\ \A n \in 1 .. Len(printed) : printed[n] = <<N - 1, <<Source, n>>>>
    /\ Had(W, Source) = IF eof[Source] THEN amount ELSE 0
    /\ ~Converter =>
         \A i \in Cmds : eof[i] =>
             \/ \E k \in 0 .. i - 1 : Lost(k)
             \/ Had(W, i) = amount /\ \A k \in 0 .. i - 1 : pc[k] = "done"

Inv == Shape /\ \E W \in [Procs -> Nat] : Stream(W)

-----------------------------------------------------------------------------
(***************************************************************************)
(* Sequences and numbers.                                                  *)
(***************************************************************************)

\* What Append, Head and Tail do to a sequence.
LEMMA AppendFacts ==
    ASSUME NEW S, NEW s \in Seq(S), NEW x \in S
    PROVE  /\ Append(s, x) \in Seq(S)
           /\ Len(Append(s, x)) = Len(s) + 1
           /\ \A j \in 1 .. Len(s) : Append(s, x)[j] = s[j]
           /\ Append(s, x)[Len(s) + 1] = x
OBVIOUS

LEMMA TailFacts ==
    ASSUME NEW S, NEW s \in Seq(S), s # << >>
    PROVE  /\ Tail(s) \in Seq(S) /\ Head(s) \in S
           /\ Len(s) >= 1 /\ Len(Tail(s)) = Len(s) - 1
           /\ Head(s) = s[1]
           /\ \A j \in 1 .. Len(Tail(s)) : Tail(s)[j] = s[j + 1]
OBVIOUS

LEMMA EmptyFacts ==
    ASSUME NEW S
    PROVE  << >> \in Seq(S) /\ Len(<< >>) = 0
           /\ \A s \in Seq(S) : Len(s) \in Nat /\ (s = << >> <=> Len(s) = 0)
OBVIOUS

\* A sequence of one element has nothing behind it.
LEMMA OneLeft ==
    ASSUME NEW S, NEW s \in Seq(S), s # << >>, Len(s) <= 1
    PROVE  Tail(s) = << >>
<1>1. Tail(s) \in Seq(S) /\ Len(s) \in Nat /\ Len(s) >= 1 /\ Len(Tail(s)) = Len(s) - 1
  BY TailFacts, EmptyFacts
<1>2. Len(Tail(s)) = 0
  BY <1>1
<1> QED BY <1>1, <1>2, EmptyFacts

\* The blocks of a command that makes them itself.
LEMMA BlocksFacts ==
    ASSUME NEW i \in Cmds, amount \in Nat
    PROVE  /\ Blocks(i) \in Seq(Block) /\ Len(Blocks(i)) = amount
           /\ \A j \in 1 .. amount : Blocks(i)[j] = <<i, j>>
<1>1. Blocks(i) \in [1 .. amount -> Block]
  BY DEF Blocks, Block
<1> QED BY <1>1 DEF Blocks

-----------------------------------------------------------------------------
(***************************************************************************)
(* Types, and who holds what.                                              *)
(***************************************************************************)

\* The types are those of TypeOK.
LEMMA ShapeTypes == Shape => TypeOK
<1> SUFFICES ASSUME Shape PROVE TypeOK
  OBVIOUS
<1>1. Chosen /\ ControlTyped /\ DataTyped
  BY DEF Shape
<1>2. \A p \in Procs : ends[p] \subseteq Pipes \X {"r", "w"}
  BY <1>1 DEF ControlTyped, Ends
<1> QED BY <1>1, <1>2 DEF TypeOK, Chosen, ControlTyped, DataTyped, Block

\* What is chosen at the start stays.
Same ==
    /\ program' = program /\ N' = N /\ amount' = amount
    /\ Cmds' = Cmds /\ Shell' = Shell /\ Procs' = Procs /\ Pipes' = Pipes
    /\ Converter' = Converter /\ Popen' = Popen /\ Plain' = Plain
    /\ Ends' = Ends /\ AllEnds' = AllEnds /\ Block' = Block
    /\ Source' = Source /\ Carriers' = Carriers /\ Links' = Links
    /\ \A k : Child(k)' = Child(k) /\ Writer(k)' = Writer(k) /\ Reader(k)' = Reader(k)

LEMMA Fixed == UNCHANGED given => Same
BY DEF given, Same, Cmds, Shell, Procs, Pipes, Converter, Popen, Plain, Ends, AllEnds,
       Block, Source, Carriers, Links, Child, Writer, Reader

\* Numbers of commands and processes.
Sets ==
    /\ N \in Nat /\ N >= 2 /\ Cmds = 0 .. N - 1 /\ Shell = N /\ Pipes = 0 .. N - 1
    /\ amount \in Nat
    /\ Procs = 0 .. N /\ Cmds \subseteq Procs /\ Shell \in Procs /\ Shell \notin Cmds
    /\ Popen => N = 2 /\ ~Converter

LEMMA Numbers == ConstantsAssumption /\ Chosen => Sets
<1> SUFFICES ASSUME ConstantsAssumption, Chosen PROVE Sets
  OBVIOUS
<1>1. N \in Nat /\ N >= 2 /\ amount \in Nat
  BY DEF ConstantsAssumption, Chosen
<1>2. Procs = 0 .. N
  BY <1>1 DEF Procs, Cmds, Shell
<1> QED BY <1>1, <1>2 DEF Sets, Chosen, Cmds, Shell, Pipes, Popen, Converter

\* Each command is one child.
LEMMA Children ==
    ASSUME Sets, Chosen
    PROVE  /\ \A k \in Cmds : Child(k) \in Cmds
           /\ \A j, k \in Cmds : Child(j) = Child(k) => j = k
           /\ Popen => \A k : Child(k) = k
BY DEF Sets, Chosen, Child, Popen

\* The initial states.
LEMMA ShapeInit == ConstantsAssumption /\ Init => Shape
<1> SUFFICES ASSUME ConstantsAssumption, Init PROVE Shape
  OBVIOUS
<1>1. N \in 2 .. MaxCmds /\ N \in Nat /\ (program \in {"whosortpipe", "cmdpipe"} => N = 2)
  BY DEF Init, ConstantsAssumption
<1>2. ends \in [Procs -> SUBSET Ends]
  BY <1>1 DEF Init, Procs, Cmds, Shell, Ends, Pipes
<1>3. ControlTyped
  BY <1>1, <1>2 DEF Init, ControlTyped, Cmds
<1>4. DataTyped
  BY DEF Init, DataTyped, ConstantsAssumption
<1>c. Chosen
  BY <1>1 DEF Init, Chosen
<1>5. \A k \in Cmds : Child(k) \in Cmds
  BY <1>c, Numbers, Children
<1>6. Fresh /\ Started
  BY <1>1, <1>5 DEF Init, Fresh, Started, Cmds, Procs
<1>7. Plain => PlainEnds
  BY <1>1 DEF Init, PlainEnds, Plain, AllEnds, Alive, Cmds, Procs, Shell, Converter, Popen
<1>8. ConverterEnds
  BY DEF Init, ConverterEnds, Alive
<1>9. Popen => PopenEnds /\ PopenLoop
  BY <1>1 DEF Init, Popen, PopenEnds, PopenLoop, Alive, Cmds, Procs, Shell
<1> QED BY <1>c, <1>3, <1>4, <1>6, <1>7, <1>8, <1>9 DEF Shape, Init

\* Fork: the child and the program share what the program holds.
LEMMA ShapeFork ==
    ASSUME ConstantsAssumption, Shape, Fork
    PROVE  Shape'
<1> DEFINE c == Child(next)
<1>s. Same
  BY Fixed DEF Fork, StartChild
<1>n. Sets
  BY Numbers DEF Shape
<1>c. next \in Cmds /\ c \in Cmds /\ pc[c] = "none" /\ shell = "fork"
  <2>1. next \in 0 .. N - 1 /\ shell = "fork"
    BY <1>n DEF Fork, Shape, ControlTyped, Sets
  <2>2. next \in Cmds /\ next \in next .. N - 1
    BY <1>n, <2>1 DEF Sets
  <2> QED BY <1>n, <2>1, <2>2, Children DEF Shape, Fresh
<1>p. pc' = [pc EXCEPT ![c] = "forked"] /\ next' = next + 1
      /\ UNCHANGED <<shell, todo, eof, pipe, reaped, kind, printed>>
  BY DEF Fork, StartChild
<1>e. /\ Plain => ends' = [ends EXCEPT ![c] = ends[Shell]]
      /\ Converter => ends' = [ends EXCEPT
                        ![c] = ends[Shell] \cup {<<next, "r">>, <<next, "w">>},
                        ![Shell] = (ends[Shell] \cup {<<next, "r">>, <<next, "w">>})
                                   \ {<<next, "w">>}]
      /\ Popen => ends' = [ends EXCEPT
                              ![next] = {<<next, IF next = 0 THEN "w" ELSE "r">>},
                              ![Shell] = @ \cup {<<next, IF next = 0 THEN "r" ELSE "w">>}]
  <2>1. Converter => ~Popen
    BY DEF Converter, Popen
  <2> QED BY <2>1 DEF Fork, StartChild, Plain
<1>1. ends' \in [Procs -> SUBSET Ends]
  <2>1. /\ <<next, "r">> \in Ends /\ <<next, "w">> \in Ends
        /\ ends \in [Procs -> SUBSET Ends] /\ Shell \in Procs /\ c \in Procs /\ next \in Procs
    <3>1. next \in Pipes /\ next \in Procs /\ c \in Procs /\ Shell \in Procs
      BY <1>n, <1>c DEF Sets
    <3> QED BY <3>1 DEF Shape, ControlTyped, Ends
  <2>2. Plain \/ Converter \/ Popen
    BY DEF Plain
  <2> HIDE DEF c
  <2>3. CASE Plain
    BY <1>e, <2>1, <2>3
  <2>4. CASE Converter
    BY <1>e, <2>1, <2>4
  <2>5. CASE Popen
    BY <1>e, <2>1, <2>5
  <2> QED BY <2>2, <2>3, <2>4, <2>5
<1>2. Chosen' /\ ControlTyped'
  BY <1>s, <1>n, <1>c, <1>p, <1>1 DEF Shape, Chosen, ControlTyped, Same, Sets
<1>3. DataTyped'
  BY <1>s, <1>p DEF Shape, DataTyped, Same
<1>4. Fresh' /\ Started'
  <2>1. ASSUME NEW m \in next + 1 .. N - 1 PROVE pc'[Child(m)] = "none"
    <3>1. m \in Cmds /\ m \in next .. N - 1 /\ m # next
      BY <1>n, <1>c DEF Sets
    <3>2. Child(m) \in Cmds /\ Child(m) # c /\ pc[Child(m)] = "none"
      BY <1>n, <1>c, <3>1, Children DEF Shape, Fresh
    <3> QED BY <1>p, <3>2 DEF Shape, ControlTyped
  <2>2. ASSUME NEW i \in Cmds, pc'[i] \in {"none", "forked"} PROVE pc[i] \in {"none", "forked"}
    BY <1>c, <1>p, <2>2 DEF Shape, ControlTyped
  <2>3. ASSUME NEW i \in Cmds, pc'[i] \in {"run", "done"} PROVE pc[i] = pc'[i]
    BY <1>c, <1>p, <2>3 DEF Shape, ControlTyped
  <2> QED BY <1>s, <1>p, <2>1, <2>2, <2>3 DEF Shape, Fresh, Started, Same
<1>5. Plain => PlainEnds'
  <2> SUFFICES ASSUME Plain PROVE PlainEnds'
    OBVIOUS
  <2>1. PlainEnds /\ ends' = [ends EXCEPT ![c] = ends[Shell]] /\ ends[Shell] = AllEnds
    BY <1>c, <1>e DEF Shape, PlainEnds
  <2>2. \A i \in Cmds : (i > 0 => <<i - 1, "r">> \in AllEnds) /\ (i < N - 1 => <<i, "w">> \in AllEnds)
    <3>1. N \in Nat /\ Cmds = 0 .. N - 1
      BY <1>n DEF Sets
    <3>2. \A i \in Cmds : (i > 0 => i - 1 \in 0 .. N - 2) /\ (i < N - 1 => i \in 0 .. N - 2)
      BY <3>1
    <3> QED BY <3>2 DEF AllEnds
  <2>3. c \in Procs /\ c # Shell /\ Shell \in Procs /\ \A i \in Cmds : i \in Procs /\ i # Shell
    BY <1>n, <1>c DEF Sets
  <2>4. /\ pc' \in [Cmds -> {"none", "forked", "run", "done", "failed"}]
        /\ \A i \in Cmds : i # c => pc'[i] = pc[i] /\ ends'[i] = ends[i]
        /\ ends'[c] = AllEnds /\ ends'[Shell] = AllEnds
        /\ \A p \in Procs : ends'[p] = ends[p] \/ ends'[p] = AllEnds
    BY <1>c, <1>p, <2>1, <2>3 DEF Shape, ControlTyped
  <2> QED
    BY <1>s, <2>1, <2>2, <2>4 DEF PlainEnds, Alive, Same
<1>6. Converter => ConverterEnds'
  <2> SUFFICES ASSUME Converter PROVE ConverterEnds'
    OBVIOUS
  <2>1. c = next
    BY DEF Converter, Child
  <2>2. c \in Procs /\ Shell \in Procs /\ \A i \in Cmds : i \in Procs /\ i # Shell
    BY <1>n, <1>c DEF Sets
  <2>3. /\ pc'[c] = "forked" /\ <<c, "w">> \in ends'[c]
        /\ \A i \in Cmds : i # c => pc'[i] = pc[i] /\ ends'[i] = ends[i]
    BY <1>c, <1>p, <1>e, <2>1, <2>2 DEF Shape, ControlTyped
  <2> QED BY <1>s, <2>3 DEF Shape, ConverterEnds, Alive, Same
<1>7. Popen => PopenEnds' /\ PopenLoop'
  <2> SUFFICES ASSUME Popen PROVE PopenEnds' /\ PopenLoop'
    OBVIOUS
  <2>1. N = 2 /\ Cmds = 0 .. 1 /\ Shell = 2 /\ c = next /\ next \in {0, 1}
    <3>1. Child(next) = next
      BY <1>n, Children DEF Shape
    <3> QED BY <1>n, <1>c, <3>1 DEF Sets
  <2>2. Procs = 0 .. 2
    BY <1>n, <2>1 DEF Sets
  <2>3. /\ pc'[c] = "forked" /\ ends'[c] = {<<c, IF c = 0 THEN "w" ELSE "r">>}
        /\ \A i \in Cmds : i # c => pc'[i] = pc[i] /\ ends'[i] = ends[i]
        /\ ends[Shell] \subseteq ends'[Shell]
        /\ c = 1 => <<1, "w">> \in ends'[Shell]
    BY <1>c, <1>p, <1>e, <2>1, <2>2 DEF Shape, ControlTyped
  <2>4. PopenEnds'
    <3>1. CASE c = 0
      <4>1. ends'[0] = {<<0, "w">>} /\ pc'[0] = "forked" /\ pc'[1] = pc[1] /\ ends'[1] = ends[1]
        BY <2>1, <2>3, <3>1
      <4>2. PopenEnds
        BY DEF Shape
      <4>3. Alive(0)' /\ (Alive(1)' <=> Alive(1)) /\ Shell' = Shell
        BY <1>s, <4>1 DEF Alive, Same
      <4> QED BY <1>p, <2>3, <4>1, <4>2, <4>3 DEF PopenEnds
    <3>2. CASE c = 1
      BY SMTT(30), <1>s, <1>p, <1>c, <2>1, <2>3, <3>2 DEF Shape, PopenEnds, Alive, Same
    <3> QED BY <2>1, <3>1, <3>2
  <2>5. PopenLoop'
    BY <1>s, <1>p, <1>c, <2>1, <2>3 DEF Shape, PopenLoop, Same
  <2> QED BY <2>4, <2>5
<1> QED BY <1>s, <1>p, <1>2, <1>3, <1>4, <1>5, <1>6, <1>7, <1>c DEF Shape, Same

\* A fork that fails, and the end of the loop.
LEMMA ShapeForkFails ==
    ASSUME ConstantsAssumption, Shape, ForkFails
    PROVE  Shape'
<1> DEFINE c == Child(next)
<1>s. Same
  BY Fixed DEF ForkFails
<1>n. Sets
  BY Numbers DEF Shape
<1>c. next \in Cmds /\ c \in Cmds /\ pc[c] = "none" /\ shell = "fork"
  <2>1. next \in 0 .. N - 1 /\ shell = "fork"
    BY <1>n DEF ForkFails, Shape, ControlTyped, Sets
  <2>2. next \in Cmds /\ next \in next .. N - 1
    BY <1>n, <2>1 DEF Sets
  <2> QED BY <1>n, <2>1, <2>2, Children DEF Shape, Fresh
<1>p. UNCHANGED <<pipe, kind, todo, eof, pc, printed>>
  BY DEF ForkFails
<1>1. CASE program = "whosortpipe" \/ Popen
  <2>1. /\ next' = next + 1 /\ reaped' = reaped \cup {c} /\ UNCHANGED <<ends, shell>>
        /\ ~Converter
    BY <1>1 DEF ForkFails, Popen, Converter
  <2>2. Chosen' /\ ControlTyped' /\ DataTyped'
    <3>1. next + 1 \in 0 .. N
      BY <1>n, <1>c DEF Sets
    <3>2. reaped \cup {c} \subseteq Cmds
      BY <1>c DEF Shape, ControlTyped
    <3>3. ControlTyped'
      BY <1>s, <1>p, <2>1, <3>1, <3>2 DEF Shape, ControlTyped, Same
    <3> QED BY <1>s, <1>p, <3>3 DEF Shape, Chosen, DataTyped, Same
  <2>3. Fresh' /\ Started'
    <3>1. \A m \in next + 1 .. N - 1 : m \in next .. N - 1
      BY <1>n, <1>c DEF Sets
    <3> QED BY <1>s, <1>p, <2>1, <3>1 DEF Shape, Fresh, Started, Same
  <2>4. Plain => PlainEnds'
    BY <1>s, <1>p, <2>1 DEF Shape, PlainEnds, Alive, Same
  <2>5. Popen => PopenEnds' /\ PopenLoop'
    <3> SUFFICES ASSUME Popen PROVE PopenEnds' /\ PopenLoop'
      OBVIOUS
    <3>1. c = next /\ Cmds = 0 .. 1
      BY <1>n, Children DEF Shape, Sets
    <3>2. PopenEnds'
      BY <1>s, <1>p, <2>1 DEF Shape, PopenEnds, Alive, Same
    <3>3. PopenLoop'
      BY <1>s, <1>p, <1>c, <2>1, <3>1 DEF Shape, PopenLoop, Same
    <3> QED BY <3>2, <3>3
  <2> QED BY <1>s, <1>c, <2>1, <2>2, <2>3, <2>4, <2>5 DEF Shape, Same
<1>2. CASE ~(program = "whosortpipe" \/ Popen)
  <2>1. /\ shell' = "failed" /\ ends' = [ends EXCEPT ![Shell] = {}]
        /\ UNCHANGED <<next, reaped>> /\ ~Popen
    BY <1>2 DEF ForkFails
  <2>2. Chosen' /\ ControlTyped' /\ DataTyped'
    BY <1>s, <1>n, <1>p, <2>1 DEF Shape, Chosen, ControlTyped, DataTyped, Same, Sets
  <2>3. Fresh' /\ Started'
    BY <1>s, <1>p, <2>1 DEF Shape, Fresh, Started, Same
  <2>4. \A i \in Cmds : ends'[i] = ends[i]
    BY <1>n, <2>1 DEF Shape, ControlTyped, Sets
  <2>5. \A p \in Procs : ends'[p] \subseteq ends[p]
    BY <1>n, <2>1 DEF Shape, ControlTyped, Sets
  <2>6. Plain => PlainEnds'
    BY <1>s, <1>p, <2>1, <2>4, <2>5 DEF Shape, PlainEnds, Alive, Same
  <2>7. Converter => ConverterEnds'
    BY <1>s, <1>p, <2>4 DEF Shape, ConverterEnds, Alive, Same
  <2> QED BY <1>s, <2>1, <2>2, <2>3, <2>6, <2>7 DEF Shape, Same
<1> QED BY <1>1, <1>2

\* Steps of the shell after the forks change only its own place and its own ends.
LEMMA ShapeLater ==
    ASSUME ConstantsAssumption, Shape, Close \/ CopySigPipe \/ CopyEnd \/ Reap \/ AllReaped
    PROVE  Shape'
<1>s. Same
  BY Fixed DEF Close, CopySigPipe, CopyEnd, Reap, AllReaped
<1>n. Sets
  BY Numbers DEF Shape
<1>p. /\ UNCHANGED <<pipe, kind, todo, eof, pc, next, printed>>
      /\ shell' # "fork" /\ shell' \in {"fork", "copy", "wait", "done", "failed"}
      /\ ~Popen => shell' # "copy"
      /\ reaped' \subseteq Cmds
  BY DEF Close, CopySigPipe, CopyEnd, Reap, AllReaped, Shape, ControlTyped
<1>e. \E e \in SUBSET ends[Shell] : ends' = [ends EXCEPT ![Shell] = e]
  <2>1. ends = [ends EXCEPT ![Shell] = ends[Shell]]
    BY <1>n DEF Shape, ControlTyped, Sets
  <2>2. \/ ends' = ends \/ ends' = [ends EXCEPT ![Shell] = {}]
        \/ ends' = [ends EXCEPT ![Shell] = ends[Shell] \ {<<0, "r">>}]
    BY DEF Close, CopySigPipe, CopyEnd, Reap, AllReaped
  <2> QED BY <2>1, <2>2
<1>1. /\ ends' \in [Procs -> SUBSET Ends] /\ \A i \in Cmds : ends'[i] = ends[i]
      /\ \A p \in Procs : ends'[p] \subseteq ends[p]
  BY <1>n, <1>e DEF Shape, ControlTyped, Sets
<1>2. Chosen' /\ ControlTyped' /\ DataTyped'
  BY <1>s, <1>p, <1>1 DEF Shape, Chosen, ControlTyped, DataTyped, Same
<1>3. Fresh' /\ Started'
  BY <1>s, <1>p DEF Shape, Fresh, Started, Same
<1>4. Plain => PlainEnds'
  BY <1>s, <1>p, <1>1 DEF Shape, PlainEnds, Alive, Same
<1>5. Converter => ConverterEnds'
  BY <1>s, <1>p, <1>1 DEF Shape, ConverterEnds, Alive, Same
<1>6. Popen => PopenEnds' /\ PopenLoop'
  <2> SUFFICES ASSUME Popen PROVE PopenEnds' /\ PopenLoop'
    OBVIOUS
  <2>1. Cmds = {0, 1} /\ Procs = {0, 1, 2} /\ Shell = 2 /\ N = 2
    BY <1>n DEF Sets
  <2>2. ends'[0] = ends[0] /\ ends'[1] = ends[1]
    BY <1>1, <2>1
  <2>3. shell' = "copy" => ends' = ends
    BY DEF Close, CopySigPipe, CopyEnd, Reap, AllReaped
  <2>4. pc[1] # "none" /\ shell' = "copy" => <<1, "w">> \in ends'[Shell]
    <3>1. shell' = "copy" => shell \in {"fork", "copy"}
      BY DEF Close, CopySigPipe, CopyEnd, Reap, AllReaped
    <3> QED BY <2>3, <3>1 DEF Shape, PopenEnds
  <2>5. PopenEnds'
    BY <1>s, <1>p, <2>2, <2>4 DEF Shape, PopenEnds, Alive, Same
  <2>6. CASE Close
    <3>1. reaped' = reaped /\ next = 2 /\ shell = "fork"
          /\ shell' = IF reaped = {} THEN "copy" ELSE "failed"
      BY <2>1, <2>6 DEF Close
    <3>2. \A i \in {0, 1} : i \in reaped <=> pc[i] = "none"
      BY <2>1, <3>1 DEF Shape, PopenLoop
    <3>3. reaped # {} => 0 \in reaped \/ 1 \in reaped
      <4>1. reaped \subseteq {0, 1}
        BY <2>1 DEF Shape, ControlTyped
      <4> QED BY <4>1
    <3> QED BY <1>p, <1>s, <2>5, <3>1, <3>2, <3>3 DEF PopenLoop, Shape, Same
  <2>7. CASE CopySigPipe
    <3>1. ~Alive(1)
      BY <2>1, <2>7 DEF CopySigPipe, Held, Shape, PopenEnds
    <3>2. pc[1] \in {"none", "done", "failed"}
      BY <2>1, <3>1 DEF Shape, ControlTyped, Alive
    <3> QED BY <1>p, <1>s, <2>5, <2>7, <3>2 DEF CopySigPipe, PopenLoop, Shape, Same
  <2>8. CASE CopyEnd
    <3>1. ~Alive(0)
      BY <2>1, <2>8 DEF CopyEnd, Held, Shape, PopenEnds
    <3> QED BY <1>p, <1>s, <2>5, <2>8, <3>1 DEF CopyEnd, PopenLoop, Shape, Alive, Same
  <2>9. CASE Reap \/ AllReaped
    BY <1>p, <1>s, <2>5, <2>9 DEF Reap, AllReaped, PopenLoop, Shape, Alive, Same
  <2> QED BY <2>5, <2>6, <2>7, <2>8, <2>9
<1> QED BY <1>s, <1>n, <1>p, <1>2, <1>3, <1>4, <1>5, <1>6 DEF Shape, Same, Sets, Plain

\* The input and the output of a command that lives.
LEMMA InOut ==
    ASSUME Sets, Shape, NEW i \in Cmds, Alive(i)
    PROVE  /\ i = 0 \/ Converter => In(i) = NoPipe
           /\ i # 0 /\ ~Converter => /\ In(i) # NoPipe /\ In(i) \in Pipes
                                     /\ In(i) \in Links /\ Reader(In(i)) = i
           /\ pc[i] = "run" => (Out(i) = NoPipe <=> i = N - 1)
           /\ Out(i) # NoPipe => Out(i) = i /\ i \in Pipes
           /\ i # N - 1 /\ ~Converter => i \in Links /\ Writer(i) = i
<1>1. N \in Nat /\ N >= 2 /\ i \in 0 .. N - 1 /\ NoPipe = N /\ Pipes = 0 .. N - 1
  BY DEF Sets, NoPipe
<1>2. Out(i) # NoPipe => Out(i) = i /\ i \in Pipes
  BY <1>1 DEF Out
<1>3. CASE Converter
  <2>1. ~Popen
    BY <1>3 DEF Popen, Converter
  <2>2. In(i) = NoPipe
    BY <1>3, <2>1 DEF In
  <2>3. pc[i] = "run" => (Out(i) = NoPipe <=> i = N - 1)
    BY <1>1, <1>3 DEF Shape, ConverterEnds, Out, Alive
  <2> QED BY <1>2, <1>3, <2>2, <2>3
<1>4. CASE Plain
  <2>1. PlainEnds /\ ~Popen /\ ~Converter /\ i \in Procs
    BY <1>4 DEF Shape, Plain, Sets
  <2>2. /\ \A k, e : <<k, e>> \in AllEnds => k \in 0 .. N - 2
        /\ ends[i] \subseteq AllEnds
        /\ i > 0 => <<i - 1, "r">> \in ends[i]
        /\ i < N - 1 => <<i, "w">> \in ends[i]
    BY <2>1 DEF PlainEnds, AllEnds
  <2>3. In(i) = IF i = 0 THEN NoPipe ELSE i - 1
    <3>1. i = 0 => <<i - 1, "r">> \notin ends[i]
      BY <1>1, <2>2
    <3> QED BY <1>1, <2>1, <2>2, <3>1 DEF In
  <2>4. Out(i) = NoPipe <=> i = N - 1
    <3>1. i = N - 1 => <<i, "w">> \notin ends[i]
      BY <1>1, <2>2
    <3> QED BY <1>1, <2>2, <3>1 DEF Out
  <2>5. Links = 0 .. N - 2 /\ Reader(i - 1) = i /\ Writer(i) = i
    BY <1>1, <2>1 DEF Links, Reader, Writer
  <2> QED BY <1>1, <1>2, <2>1, <2>3, <2>4, <2>5
<1>5. CASE Popen
  <2>1. N = 2 /\ i \in {0, 1} /\ ~Converter
    BY <1>1, <1>5 DEF Sets
  <2>2. ends[i] = {<<i, IF i = 0 THEN "w" ELSE "r">>}
    BY <1>5, <2>1 DEF Shape, PopenEnds
  <2>3. In(i) = IF i = 0 THEN NoPipe ELSE 1
    BY <1>1, <1>5, <2>1, <2>2 DEF In
  <2>4. Out(i) = NoPipe <=> i = 1
    BY <1>1, <2>1, <2>2 DEF Out
  <2>5. Links = {0, 1} /\ Reader(1) = 1 /\ Writer(0) = 0
    BY <1>5, <2>1 DEF Links, Reader, Writer
  <2> QED BY <1>1, <1>2, <2>1, <2>3, <2>4, <2>5
<1> QED BY <1>3, <1>4, <1>5 DEF Plain

\* What has been said of the ends holds after a step of a command that leaves the others
\* alone, and holds what it needs or has ended.
LEMMA EndsKept ==
    ASSUME ConstantsAssumption, Shape, NEW i \in Cmds, Same,
           NEW E, ends' = [ends EXCEPT ![i] = E], E \subseteq ends[i],
           \A j \in Cmds : j # i => pc'[j] = pc[j],
           \/ Alive(i)' /\ Alive(i) /\ pc'[i] = "run"
              /\ (Plain => (i > 0 => <<i - 1, "r">> \in E) /\ (i < N - 1 => <<i, "w">> \in E))
              /\ (Converter => (<<i, "w">> \in E <=> i < N - 1))
              /\ (Popen => E = ends[i])
           \/ pc'[i] \in {"done", "failed"} /\ E = {} /\ Alive(i),
           UNCHANGED <<shell, reaped, next>>,
           pipe'[0] = pipe[0], todo'[Shell] = todo[Shell]
    PROVE  /\ ends' \in [Procs -> SUBSET Ends]
           /\ Plain => PlainEnds'
           /\ Converter => ConverterEnds'
           /\ Popen => PopenEnds' /\ PopenLoop'
<1>n. Sets
  BY Numbers DEF Shape
<1>1. /\ i \in Procs /\ i # Shell
      /\ ends'[i] = E /\ ends' \in [Procs -> SUBSET Ends]
      /\ \A p \in Procs : p # i => ends'[p] = ends[p]
      /\ \A p \in Procs : ends'[p] \subseteq ends[p]
      /\ \A j \in Cmds : j \in Procs
  BY <1>n DEF Shape, ControlTyped, Sets
<1>a. Alive(i)' => pc'[i] = "run" /\ Alive(i)
  BY DEF Alive
<1>2. Plain => PlainEnds'
  <2> SUFFICES ASSUME Plain PROVE PlainEnds'
    OBVIOUS
  <2>1. PlainEnds
    BY DEF Shape
  <2>2. \A p \in Procs : ends'[p] \subseteq AllEnds
    BY <1>1, <2>1 DEF PlainEnds
  <2>3. shell' = "fork" => ends'[Shell] = AllEnds
    BY <1>n, <1>1, <2>1 DEF PlainEnds, Sets
  <2>4. ASSUME NEW j \in Cmds, pc'[j] \in {"forked", "run"}
        PROVE  /\ j > 0 => <<j - 1, "r">> \in ends'[j]
               /\ j < N - 1 => <<j, "w">> \in ends'[j]
    <3>1. CASE j = i
      BY <1>1, <2>4, <3>1
    <3>2. CASE j # i
      BY <1>1, <2>1, <2>4, <3>2 DEF PlainEnds, Alive
    <3> QED BY <3>1, <3>2
  <2> QED BY <2>2, <2>3, <2>4 DEF PlainEnds, Alive, Same
<1>3. Converter => ConverterEnds'
  <2> SUFFICES ASSUME Converter PROVE ConverterEnds'
    OBVIOUS
  <2>1. ASSUME NEW j \in Cmds
        PROVE  /\ pc'[j] \in {"forked", "run"} /\ j < N - 1 => <<j, "w">> \in ends'[j]
               /\ pc'[j] = "run" /\ j = N - 1 => <<j, "w">> \notin ends'[j]
    <3>1. CASE j = i
      BY <1>n, <1>1, <3>1 DEF Sets
    <3>2. CASE j # i
      BY <1>1, <3>2 DEF Shape, ConverterEnds, Alive
    <3> QED BY <3>1, <3>2
  <2> QED BY <2>1 DEF ConverterEnds, Alive, Same
<1>4. Popen => PopenEnds' /\ PopenLoop'
  <2> SUFFICES ASSUME Popen PROVE PopenEnds' /\ PopenLoop'
    OBVIOUS
  <2>1. Cmds = {0, 1} /\ Procs = {0, 1, 2} /\ Shell = 2 /\ N = 2 /\ i \in {0, 1}
    BY <1>n DEF Sets
  <2>2. \A j \in {0, 1} : /\ pc'[j] = "none" <=> pc[j] = "none"
                          /\ ends'[j] = IF Alive(j)' THEN ends[j] ELSE {}
                          /\ ~Alive(j) => ~Alive(j)'
                          /\ pc[j] \in {"done", "failed"} => pc'[j] \in {"done", "failed"}
    <3>1. ASSUME NEW j \in {0, 1}, j # i
          PROVE  pc'[j] = pc[j] /\ ends'[j] = ends[j] /\ (~Alive(j) => ends[j] = {})
      BY <1>1, <2>1, <3>1 DEF Shape, PopenEnds
    <3>2. pc'[i] # "none" /\ pc[i] # "none" /\ pc[i] \notin {"done", "failed"}
      BY DEF Alive
    <3>3. ends'[i] = IF Alive(i)' THEN ends[i] ELSE {}
      BY <1>1, <1>a, <2>1 DEF Alive
    <3> QED BY <1>a, <3>1, <3>2, <3>3 DEF Alive
  <2>3. PopenEnds'
    BY <1>1, <2>1, <2>2 DEF Shape, PopenEnds, Same
  <2>4. PopenLoop'
    BY <2>1, <2>2 DEF Shape, PopenLoop, Same
  <2> QED BY <2>3, <2>4
<1> QED BY <1>1, <1>2, <1>3, <1>4

\* exec: the command has its input and its output, or makes its data.
LEMMA ShapeExec ==
    ASSUME ConstantsAssumption, Shape, NEW i \in Cmds, Exec(i)
    PROVE  Shape'
<1>s. Same
  BY Fixed DEF Exec
<1>n. Sets
  BY Numbers DEF Shape
<1>p. /\ pc[i] = "forked" /\ pc' = [pc EXCEPT ![i] = "run"]
      /\ ends' = [ends EXCEPT ![i] = Kept(i)]
      /\ eof' = [eof EXCEPT ![i] = In(i) = NoPipe]
      /\ todo' = [todo EXCEPT ![i] = IF In(i) = NoPipe THEN Blocks(i) ELSE << >>]
      /\ UNCHANGED <<pipe, kind, reaped, next, shell, printed>>
  BY DEF Exec
<1>a. Alive(i) /\ i \in Procs /\ i # Shell /\ i \in 0 .. N - 1
  BY <1>n, <1>p DEF Alive, Sets
<1>1. pc'[i] = "run" /\ \A j \in Cmds : j # i => pc'[j] = pc[j] /\ eof'[j] = eof[j]
  BY <1>p DEF Shape, ControlTyped
<1>2. Chosen'
  BY <1>s DEF Shape, Chosen, Same
<1>3. eof' \in [Cmds -> BOOLEAN] /\ pc' \in [Cmds -> {"none", "forked", "run", "done", "failed"}]
  BY <1>p DEF Shape, ControlTyped
<1>4. DataTyped'
  <2>1. Blocks(i) \in Seq(Block) /\ << >> \in Seq(Block)
    BY <1>n, BlocksFacts DEF Sets
  <2>2. todo' \in [Procs -> Seq(Block)]
    BY <1>p, <1>a, <2>1 DEF Shape, DataTyped
  <2> QED BY <1>s, <1>p, <2>2 DEF Shape, DataTyped, Same
<1>5. /\ ends' \in [Procs -> SUBSET Ends]
      /\ Plain => PlainEnds'
      /\ Converter => ConverterEnds'
      /\ Popen => PopenEnds' /\ PopenLoop'
  <2>1. Kept(i) \subseteq ends[i]
    BY DEF Kept
  <2>2. ASSUME Plain
        PROVE  (i > 0 => <<i - 1, "r">> \in Kept(i)) /\ (i < N - 1 => <<i, "w">> \in Kept(i))
    <3>1. (i > 0 => <<i - 1, "r">> \in ends[i]) /\ (i < N - 1 => <<i, "w">> \in ends[i])
      BY <1>a, <2>2 DEF Shape, PlainEnds
    <3>2. <<i - 1, "r">> \notin {<<i - 1, "w">>} \cup {<<i, "r">>}
      BY <1>n, <1>a DEF Sets
    <3>3. <<i, "w">> \notin {<<i - 1, "w">>} \cup {<<i, "r">>}
      BY <1>n, <1>a DEF Sets
    <3> QED BY <2>2, <3>1, <3>2, <3>3 DEF Kept, Plain
  <2>3. ASSUME Converter PROVE <<i, "w">> \in Kept(i) <=> i < N - 1
    <3>1. i < N - 1 => <<i, "w">> \in ends[i]
      BY <1>a, <2>3 DEF Shape, ConverterEnds
    <3>2. ~Popen /\ <<i, "w">> # <<i, "r">>
      BY <2>3 DEF Popen, Converter
    <3> QED BY <2>3, <3>1, <3>2 DEF Kept
  <2>4. Popen => Kept(i) = ends[i]
    BY DEF Kept
  <2>5. Alive(i)'
    BY <1>1 DEF Alive
  <2>6. todo'[Shell] = todo[Shell]
    BY <1>n, <1>p, <1>a DEF Shape, DataTyped, Sets
  <2> HIDE DEF Kept
  <2> QED
    BY <1>s, <1>p, <1>a, <1>1, <2>1, <2>2, <2>3, <2>4, <2>5, <2>6, EndsKept
<1>6. ControlTyped'
  BY <1>s, <1>p, <1>3, <1>5 DEF Shape, ControlTyped, Same
<1>7. Fresh' /\ Started'
  <2>1. \A j \in Cmds : j # i => todo'[j] = todo[j]
    BY <1>n, <1>p DEF Shape, DataTyped, Sets
  <2>2. i = 0 \/ Converter => eof'[i]
    BY <1>n, <1>p, <1>a, InOut DEF Shape, ControlTyped
  <2>3. ASSUME NEW m \in next .. N - 1, shell = "fork" PROVE pc'[Child(m)] = "none"
    <3>1. pc[Child(m)] = "none" /\ m \in Cmds
      BY <1>n, <2>3 DEF Shape, Fresh, ControlTyped, Sets
    <3> QED BY <1>n, <1>p, <1>1, <3>1, Children DEF Shape
  <2> QED BY <1>s, <1>p, <1>1, <2>1, <2>2, <2>3 DEF Shape, Fresh, Started, Same
<1> QED BY <1>s, <1>p, <1>2, <1>4, <1>5, <1>6, <1>7 DEF Shape, Same

\* A command that ends: nothing is left of its ends.
LEMMA ShapeEnd ==
    ASSUME ConstantsAssumption, Shape, NEW i \in Cmds,
           ExecFails(i) \/ SigPipe(i) \/ Finish(i) \/ Quit(i)
    PROVE  Shape' /\ todo' = todo /\ pipe' = pipe /\ Alive(i)
<1>s. Same
  BY Fixed DEF ExecFails, SigPipe, Finish, Quit, End
<1>n. Sets
  BY Numbers DEF Shape
<1>p. \E how \in {"done", "failed"} :
        /\ pc' = [pc EXCEPT ![i] = how] /\ ends' = [ends EXCEPT ![i] = {}]
        /\ how = "done" => eof[i] /\ todo[i] = << >>
        /\ UNCHANGED <<pipe, kind, todo, eof, reaped, next, shell, printed>>
  BY DEF ExecFails, SigPipe, Finish, Quit, End
<1>a. Alive(i)
  BY DEF ExecFails, SigPipe, Finish, Quit, MayWrite, Alive
<1>1. /\ pc'[i] \in {"done", "failed"} /\ (pc'[i] = "done" => eof[i] /\ todo[i] = << >>)
      /\ \A j \in Cmds : j # i => pc'[j] = pc[j]
      /\ pc' \in [Cmds -> {"none", "forked", "run", "done", "failed"}]
  BY <1>p DEF Shape, ControlTyped
<1>2. /\ ends' \in [Procs -> SUBSET Ends]
      /\ Plain => PlainEnds'
      /\ Converter => ConverterEnds'
      /\ Popen => PopenEnds' /\ PopenLoop'
  <2>1. /\ ends' = [ends EXCEPT ![i] = {}] /\ {} \subseteq ends[i]
        /\ UNCHANGED <<shell, reaped, next, pipe, todo>>
    BY <1>p
  <2>2. /\ \A j \in Cmds : j # i => pc'[j] = pc[j]
        /\ pipe'[0] = pipe[0] /\ todo'[Shell] = todo[Shell]
        /\ pc'[i] \in {"done", "failed"} /\ Alive(i)
    BY <1>a, <1>1, <2>1
  <2> DEFINE E == {}
  <2>3. ends' = [ends EXCEPT ![i] = E] /\ E = {} /\ E \subseteq ends[i]
    BY <2>1
  <2> HIDE DEF E
  <2> QED BY <1>s, <2>1, <2>2, <2>3, EndsKept
<1>3. Chosen' /\ ControlTyped' /\ DataTyped'
  BY <1>s, <1>p, <1>1, <1>2 DEF Shape, Chosen, ControlTyped, DataTyped, Same
<1>4. Fresh' /\ Started'
  <2>1. ASSUME NEW m \in next .. N - 1, shell = "fork" PROVE pc'[Child(m)] = "none"
    <3>1. pc[Child(m)] = "none" /\ m \in Cmds
      BY <1>n, <2>1 DEF Shape, Fresh, ControlTyped, Sets
    <3> QED BY <1>n, <1>a, <1>1, <3>1, Children DEF Shape, Alive
  <2> QED BY <1>s, <1>p, <1>1, <2>1 DEF Shape, Fresh, Started, Same
<1> QED BY <1>s, <1>p, <1>a, <1>2, <1>3, <1>4 DEF Shape, Same

\* The end of the input.
LEMMA ShapeEof ==
    ASSUME ConstantsAssumption, Shape, NEW i \in Cmds, ReadEof(i)
    PROVE  Shape'
<1>s. Same
  BY Fixed DEF ReadEof
<1>p. /\ eof' = [eof EXCEPT ![i] = TRUE] /\ pc[i] = "run"
      /\ UNCHANGED <<pipe, ends, kind, todo, pc, reaped, next, shell, printed>>
  BY DEF ReadEof
<1>1. Chosen' /\ ControlTyped' /\ DataTyped'
  BY <1>s, <1>p DEF Shape, Chosen, ControlTyped, DataTyped, Same
<1>2. \A j \in Cmds : (j # i => eof'[j] = eof[j]) /\ eof'[i]
  BY <1>p DEF Shape, ControlTyped
<1>3. Fresh' /\ Started'
  BY <1>s, <1>p, <1>2 DEF Shape, Fresh, Started, Same
<1>4. /\ Plain => PlainEnds'
      /\ Converter => ConverterEnds'
      /\ Popen => PopenEnds' /\ PopenLoop'
  BY <1>s, <1>p DEF Shape, PlainEnds, ConverterEnds, PopenEnds, PopenLoop, Alive, Same
<1> QED BY <1>s, <1>p, <1>1, <1>3, <1>4 DEF Shape, Same

\* A step that moves a block changes nobody's ends.
LEMMA ShapeMove ==
    ASSUME ConstantsAssumption, Shape, Same, DataTyped',
           UNCHANGED <<ends, kind, eof, pc, reaped, next, shell>>,
           NEW p \in Procs, p \in Cmds => pc[p] = "run",
           \A q \in Procs : q # p => todo'[q] = todo[q],
           p = Shell => shell = "copy" /\ Len(todo'[Shell]) <= 1,
           Popen => pipe'[0] = pipe[0] \/ p = Shell \/ p = 0
    PROVE  Shape'
<1>n. Sets
  BY Numbers DEF Shape
<1>1. Chosen' /\ ControlTyped'
  BY DEF Shape, Chosen, ControlTyped, Same
<1>2. Fresh' /\ Started'
  BY <1>n DEF Shape, Fresh, Started, Same, Sets
<1>3. /\ Plain => PlainEnds'
      /\ Converter => ConverterEnds'
      /\ Popen => PopenEnds'
  BY DEF Shape, PlainEnds, ConverterEnds, PopenEnds, Alive, Same
<1>4. Popen => PopenLoop'
  <2>1. ASSUME Popen, shell \in {"wait", "done"}
        PROVE  pipe'[0] = pipe[0] /\ todo'[Shell] = todo[Shell]
    <3>1. p # Shell /\ Shell \in Procs /\ 0 \in Cmds
      BY <1>n, <2>1 DEF Sets
    <3>2. pc[0] # "run"
      BY <2>1 DEF Shape, PopenLoop, Alive
    <3> QED BY <2>1, <3>1, <3>2
  <2>2. Popen => Len(todo'[Shell]) <= 1
    BY <1>n DEF Shape, PopenLoop, Sets
  <2> QED BY <2>1, <2>2 DEF Shape, PopenLoop, Alive, Same
<1> QED BY <1>1, <1>2, <1>3, <1>4 DEF Shape, Same

\* What process p takes from pipe k, puts into it or prints is typed.
LEMMA TypedTake ==
    ASSUME ConstantsAssumption, Shape, NEW p \in Procs, NEW k \in Pipes, pipe[k] # << >>, Same,
           todo' = [todo EXCEPT ![p] = Append(@, Head(pipe[k]))],
           pipe' = [pipe EXCEPT ![k] = Tail(@)], UNCHANGED printed
    PROVE  DataTyped'
<1>1. pipe[k] \in Seq(Block) /\ todo[p] \in Seq(Block) /\ Len(pipe[k]) <= Capacity
  BY DEF Shape, DataTyped
<1>2. Tail(pipe[k]) \in Seq(Block) /\ Head(pipe[k]) \in Block
      /\ Len(Tail(pipe[k])) = Len(pipe[k]) - 1 /\ Len(pipe[k]) \in Nat
  BY <1>1, TailFacts, EmptyFacts
<1>3. Append(todo[p], Head(pipe[k])) \in Seq(Block)
  BY <1>1, <1>2, AppendFacts
<1>4. Len(Tail(pipe[k])) <= Capacity
  BY <1>1, <1>2 DEF ConstantsAssumption
<1> QED BY <1>2, <1>3, <1>4 DEF Shape, DataTyped, Same

LEMMA TypedPut ==
    ASSUME ConstantsAssumption, Shape, NEW p \in Procs, NEW k \in Pipes, todo[p] # << >>, Same,
           Len(pipe[k]) < Capacity,
           pipe' = [pipe EXCEPT ![k] = Append(@, Head(todo[p]))],
           todo' = [todo EXCEPT ![p] = Tail(@)], UNCHANGED printed
    PROVE  DataTyped'
<1>1. pipe[k] \in Seq(Block) /\ todo[p] \in Seq(Block)
  BY DEF Shape, DataTyped
<1>2. Tail(todo[p]) \in Seq(Block) /\ Head(todo[p]) \in Block /\ Len(pipe[k]) \in Nat
  BY <1>1, TailFacts, EmptyFacts
<1>3. Append(pipe[k], Head(todo[p])) \in Seq(Block)
      /\ Len(Append(pipe[k], Head(todo[p]))) = Len(pipe[k]) + 1
  BY <1>1, <1>2, AppendFacts
<1>4. Len(Append(pipe[k], Head(todo[p]))) <= Capacity
  BY <1>2, <1>3 DEF ConstantsAssumption
<1> QED BY <1>2, <1>3, <1>4 DEF Shape, DataTyped, Same

LEMMA TypedPrint ==
    ASSUME ConstantsAssumption, Shape, NEW i \in Cmds, todo[i] # << >>, Same,
           printed' = Append(printed, <<i, Head(todo[i])>>),
           todo' = [todo EXCEPT ![i] = Tail(@)], UNCHANGED pipe
    PROVE  DataTyped'
<1>1. todo[i] \in Seq(Block) /\ printed \in Seq(Cmds \X Block) /\ i \in Procs
  BY Numbers DEF Shape, DataTyped, Sets
<1>2. Tail(todo[i]) \in Seq(Block) /\ <<i, Head(todo[i])>> \in Cmds \X Block
  BY <1>1, TailFacts
<1>3. Append(printed, <<i, Head(todo[i])>>) \in Seq(Cmds \X Block)
  BY <1>1, <1>2, AppendFacts
<1> QED BY <1>2, <1>3 DEF Shape, DataTyped, Same

\* No step disturbs who holds what.
LEMMA ShapeStep == ConstantsAssumption /\ Shape /\ [Next]_vars => Shape'
<1> SUFFICES ASSUME ConstantsAssumption, Shape, [Next]_vars PROVE Shape'
  OBVIOUS
<1>n. Sets
  BY Numbers DEF Shape
<1>1. CASE UNCHANGED vars
  <2>1. Same
    BY <1>1, Fixed DEF vars
  <2>2. DataTyped' /\ UNCHANGED <<ends, kind, eof, pc, reaped, next, shell, pipe, todo>>
    BY <1>1, <2>1 DEF vars, Shape, DataTyped, Same
  <2> QED
    BY <2>1, <2>2
    DEF Shape, Chosen, ControlTyped, Fresh, Started, PlainEnds, ConverterEnds, PopenEnds,
        PopenLoop, Alive, Same
<1>2. CASE Fork
  BY <1>2, ShapeFork
<1>3. CASE ForkFails
  BY <1>3, ShapeForkFails
<1>4. CASE Close \/ CopySigPipe \/ CopyEnd \/ Reap \/ AllReaped
  BY <1>4, ShapeLater
<1>5. CASE CopyRead
  <2>1. Same
    BY <1>5, Fixed DEF CopyRead
  <2>2. Shell \in Procs /\ Shell \notin Cmds /\ 0 \in Pipes /\ todo[Shell] = << >>
    BY <1>n, <1>5 DEF Sets, CopyRead
  <2>3. pipe[0] \in Seq(Block) /\ pipe[0] # << >>
    BY <1>5, <2>2 DEF CopyRead, Shape, DataTyped
  <2>4. <<Head(pipe[0])>> = Append(todo[Shell], Head(pipe[0]))
    BY <2>2
  <2>5. todo' = [todo EXCEPT ![Shell] = Append(@, Head(pipe[0]))]
    BY <1>5, <2>4 DEF CopyRead
  <2>6. DataTyped'
    BY <1>5, <2>1, <2>2, <2>3, <2>5, TypedTake DEF CopyRead
  <2>7. (\A q \in Procs : q # Shell => todo'[q] = todo[q]) /\ Len(todo'[Shell]) <= 1
    BY <1>5, <2>2 DEF CopyRead, Shape, DataTyped
  <2> QED BY <1>5, <2>1, <2>2, <2>6, <2>7, ShapeMove DEF CopyRead
<1>6. CASE CopyWrite
  <2>1. Same
    BY <1>6, Fixed DEF CopyWrite
  <2>2. Shell \in Procs /\ Shell \notin Cmds
    BY <1>n DEF Sets
  <2>3. Popen /\ 1 \in Pipes
    BY <1>n, <1>6 DEF CopyWrite, Shape, Plain, Sets
  <2>4. todo[Shell] \in Seq(Block) /\ todo[Shell] # << >> /\ Len(todo[Shell]) <= 1
    BY <1>6, <2>2, <2>3 DEF CopyWrite, Shape, DataTyped, PopenLoop
  <2>5. Tail(todo[Shell]) = << >>
    BY <2>4, OneLeft
  <2>6. DataTyped'
    BY <1>6, <2>1, <2>2, <2>3, <2>4, <2>5, TypedPut DEF CopyWrite
  <2>7. (\A q \in Procs : q # Shell => todo'[q] = todo[q]) /\ Len(todo'[Shell]) <= 1
    BY <1>6, <2>2 DEF CopyWrite, Shape, DataTyped
  <2> QED BY <1>6, <2>1, <2>2, <2>6, <2>7, ShapeMove DEF CopyWrite
<1>7. ASSUME NEW i \in Cmds, Exec(i) PROVE Shape'
  BY <1>7, ShapeExec
<1>8. ASSUME NEW i \in Cmds, ExecFails(i) \/ SigPipe(i) \/ Finish(i) \/ Quit(i) PROVE Shape'
  BY <1>8, ShapeEnd
<1>9. ASSUME NEW i \in Cmds, ReadEof(i) PROVE Shape'
  BY <1>9, ShapeEof
<1>10. ASSUME NEW i \in Cmds, Read(i) PROVE Shape'
  <2>1. Same /\ i \in Procs /\ i # Shell /\ Alive(i) /\ pc[i] = "run"
    BY <1>n, <1>10, Fixed DEF Read, Sets, Alive
  <2>2. i # 0 /\ ~Converter
    BY <1>10, <2>1 DEF Read, Shape, Started
  <2>3. In(i) \in Pipes /\ In(i) \in Links /\ Reader(In(i)) = i
    BY <1>n, <2>1, <2>2, InOut
  <2>4. DataTyped'
    BY <1>10, <2>1, <2>3, TypedTake DEF Read
  <2>5. \A q \in Procs : q # i => todo'[q] = todo[q]
    BY <1>10 DEF Read, Shape, DataTyped
  <2>6. UNCHANGED <<ends, kind, eof, pc, reaped, next, shell>>
    BY <1>10 DEF Read
  <2>7. Popen => pipe'[0] = pipe[0]
    <3>1. Popen => In(i) # 0
      BY <2>1, <2>3 DEF Reader
    <3> QED BY <1>10, <2>3, <3>1 DEF Read, Shape, DataTyped
  <2> QED BY <2>1, <2>4, <2>5, <2>6, <2>7, ShapeMove
<1>11. ASSUME NEW i \in Cmds, WritePipe(i) PROVE Shape'
  <2>1. Same /\ i \in Procs /\ i # Shell /\ Alive(i) /\ pc[i] = "run"
    BY <1>n, <1>11, Fixed DEF WritePipe, MayWrite, Sets, Alive
  <2>2. Out(i) = i /\ i \in Pipes
    BY <1>n, <1>11, <2>1, InOut DEF WritePipe
  <2>3. DataTyped'
    BY <1>11, <2>1, <2>2, TypedPut DEF WritePipe, MayWrite
  <2>4. \A q \in Procs : q # i => todo'[q] = todo[q]
    BY <1>11 DEF WritePipe, Shape, DataTyped
  <2>5. UNCHANGED <<ends, kind, eof, pc, reaped, next, shell>>
    BY <1>11 DEF WritePipe
  <2>6. pipe'[0] = pipe[0] \/ i = 0
    BY <1>11, <2>2 DEF WritePipe, Shape, DataTyped
  <2> QED BY <2>1, <2>3, <2>4, <2>5, <2>6, ShapeMove
<1>12. ASSUME NEW i \in Cmds, WriteTerminal(i) PROVE Shape'
  <2>1. Same /\ i \in Procs /\ i # Shell /\ pc[i] = "run"
    BY <1>n, <1>12, Fixed DEF WriteTerminal, MayWrite, Sets
  <2>2. DataTyped'
    BY <1>12, <2>1, TypedPrint DEF WriteTerminal, MayWrite
  <2>3. \A q \in Procs : q # i => todo'[q] = todo[q]
    BY <1>12 DEF WriteTerminal, Shape, DataTyped
  <2>4. UNCHANGED <<pipe, ends, kind, eof, pc, reaped, next, shell>>
    BY <1>12 DEF WriteTerminal
  <2> QED BY <2>1, <2>2, <2>3, <2>4, ShapeMove
<1> QED
  BY <1>1, <1>2, <1>3, <1>4, <1>5, <1>6, <1>7, <1>8, <1>9, <1>10, <1>11, <1>12
  DEF Next, ShellStep, Command

\* Every state has the types that TypeOK says, and each pipe only the ends that Shape
\* says, for any number of commands (cmdpipe_modified.cpp:22-50, whosortpipe.cpp:10-31,
\* converterpipe.cpp:20-60, cmdpipe.cpp:8-23).
THEOREM PipelineTypeCorrect == Spec => []TypeOK
<1>1. ConstantsAssumption
  BY ConstantsAssumption
<1> QED BY <1>1, ShapeInit, ShapeStep, ShapeTypes, PTL DEF Spec

-----------------------------------------------------------------------------
(***************************************************************************)
(* The data.                                                               *)
(***************************************************************************)

\* Each pipe has one writer and one reader; the source reads none, and the last command
\* writes to none.
LEMMA LinkFacts ==
    ASSUME Sets, NEW k \in Links
    PROVE  /\ k \in Pipes /\ ~Converter
           /\ Reader(k) \in Procs /\ Writer(k) \in Procs
           /\ Reader(k) # Source /\ Writer(k) # N - 1 /\ Reader(k) # Writer(k)
           /\ \A j \in Links : (Reader(j) = Reader(k) => j = k) /\ (Writer(j) = Writer(k) => j = k)
<1>1. N \in Nat /\ N >= 2 /\ Procs = 0 .. N /\ Pipes = 0 .. N - 1 /\ Shell = N
  BY DEF Sets
<1>2. CASE Popen
  <2>1. N = 2 /\ ~Converter
    BY <1>2 DEF Sets
  <2>2. Links = {0, 1} /\ Source = 0 /\ Reader(0) = 2 /\ Reader(1) = 1 /\ Writer(0) = 0
        /\ Writer(1) = 2
    BY <1>1, <1>2, <2>1 DEF Links, Source, Reader, Writer
  <2> QED BY <1>1, <2>1, <2>2
<1>3. CASE ~Popen
  BY <1>1, <1>3 DEF Links, Source, Reader, Writer
<1> QED BY <1>2, <1>3

\* Taking the first block, and putting the next one behind.
LEMMA FromTail ==
    ASSUME NEW s \in Seq(Block), s # << >>, NEW n \in Nat, From(s, n)
    PROVE  Head(s) = <<Source, n + 1>> /\ From(Tail(s), n + 1)
<1>1. /\ Len(s) \in Nat /\ Len(s) >= 1 /\ Len(Tail(s)) = Len(s) - 1 /\ Head(s) = s[1]
      /\ \A j \in 1 .. Len(Tail(s)) : Tail(s)[j] = s[j + 1]
  BY TailFacts, EmptyFacts
<1>2. Head(s) = <<Source, n + 1>>
  BY <1>1 DEF From
<1>3. ASSUME NEW j \in 1 .. Len(Tail(s)) PROVE Tail(s)[j] = <<Source, (n + 1) + j>>
  <2>1. j + 1 \in 1 .. Len(s) /\ Tail(s)[j] = s[j + 1] /\ j \in Nat
    BY <1>1
  <2>2. s[j + 1] = <<Source, n + (j + 1)>>
    BY <2>1 DEF From
  <2>3. n + (j + 1) = (n + 1) + j
    BY <2>1
  <2> QED BY <2>1, <2>2, <2>3
<1> QED BY <1>2, <1>3 DEF From

LEMMA FromAppend ==
    ASSUME NEW s \in Seq(Block), NEW x \in Block, NEW n \in Nat, From(s, n),
           x = <<Source, n + Len(s) + 1>>
    PROVE  From(Append(s, x), n)
<1>1. /\ Len(s) \in Nat /\ Len(Append(s, x)) = Len(s) + 1
      /\ \A j \in 1 .. Len(s) : Append(s, x)[j] = s[j]
      /\ Append(s, x)[Len(s) + 1] = x
  BY AppendFacts, EmptyFacts
<1>2. ASSUME NEW j \in 1 .. Len(Append(s, x)) PROVE Append(s, x)[j] = <<Source, n + j>>
  <2>1. j \in 1 .. Len(s) \/ j = Len(s) + 1
    BY <1>1
  <2>2. n + (Len(s) + 1) = n + Len(s) + 1
    BY <1>1
  <2> QED BY <1>1, <2>1, <2>2 DEF From
<1> QED BY <1>2 DEF From

\* Numbers of what has been read and written.
LEMMA HadTyped ==
    ASSUME Sets, DataTyped, NEW W \in [Procs -> Nat], NEW p \in Procs
    PROVE  Had(W, p) \in Nat /\ W[p] \in Nat /\ Len(todo[p]) \in Nat /\ Had(W, p) = W[p] + Len(todo[p])
<1>1. todo[p] \in Seq(Block)
  BY DEF DataTyped
<1>2. Len(todo[p]) \in Nat
  BY <1>1, EmptyFacts
<1> QED BY <1>2 DEF Had

LEMMA StreamInit == ConstantsAssumption /\ Init => \E W \in [Procs -> Nat] : Stream(W)
<1> SUFFICES ASSUME ConstantsAssumption, Init PROVE \E W \in [Procs -> Nat] : Stream(W)
  OBVIOUS
<1>1. Shape /\ Sets
  BY ShapeInit, Numbers DEF Shape
<1> DEFINE W == [p \in Procs |-> 0]
<1>2. /\ \A p \in Procs : todo[p] = << >> /\ Had(W, p) = 0
      /\ \A k \in Pipes : pipe[k] = << >>
      /\ Len(printed) = 0 /\ \A i \in Cmds : ~eof[i]
      /\ Len(<< >>) = 0
  BY DEF Init, Had
<1>3. Source \in Procs /\ Source \in Cmds /\ Carriers \subseteq Procs /\ N - 1 \in Procs
  BY <1>1 DEF Source, Carriers, Sets
<1>4. \A k \in Links : k \in Pipes /\ Reader(k) \in Procs /\ Writer(k) \in Procs
  BY <1>1, LinkFacts
<1>5. \A n : From(<< >>, n)
  BY <1>2 DEF From
<1>6. Stream(W)
  BY <1>2, <1>3, <1>4, <1>5 DEF Stream
<1> QED BY <1>6

\* A step that moves no data, loses nobody's data and ends nobody that is done.
LEMMA StreamFrame ==
    ASSUME Same, NEW W, Stream(W), UNCHANGED <<pipe, todo, eof, printed>>,
           \A k \in Cmds : Lost(k) => Lost(k)',
           \A k \in Cmds : pc[k] = "done" => pc'[k] = "done",
           Sets
    PROVE  Stream(W)'
<1>1. \A i \in Cmds : \A k \in 0 .. i - 1 : k \in Cmds
  BY DEF Sets
<1>2. Source \in Cmds
  BY DEF Sets, Source
<1>3. \A p : Had(W, p)' = Had(W, p)
  BY DEF Had
<1>4. \A s, n : From(s, n)' = From(s, n)
  BY DEF From, Same
<1> QED BY <1>1, <1>2, <1>3 DEF Stream, Same, From

\* The next state in terms of the numbers V: the steps that move a block end with this.
LEMMA StreamNext ==
    ASSUME Sets, Same, NEW W, Stream(W), NEW V, UNCHANGED <<eof, pc, shell>>,
           \A q \in Carriers : From(todo'[q], V[q]),
           \A j \in Links :
               /\ From(pipe'[j], V[Reader(j)] + Len(todo'[Reader(j)]))
               /\ V[Reader(j)] + Len(todo'[Reader(j)]) + Len(pipe'[j]) = V[Writer(j)],
           Len(printed') = V[N - 1],
           \A n \in 1 .. Len(printed') : printed'[n] = <<N - 1, <<Source, n>>>>,
           \A q \in Cmds : q = Source \/ (~Converter /\ eof[q]) =>
               V[q] + Len(todo'[q]) = Had(W, q)
    PROVE  Stream(V)'
<1>1. \A q \in Carriers' : From(todo[q], V[q])'
  BY DEF Same, From
<1>2. \A j \in Links' : /\ From(pipe[j], Had(V, Reader(j)))'
                        /\ (Had(V, Reader(j)) + Len(pipe[j]) = V[Writer(j)])'
  BY DEF Same, From, Had
<1>3. (Had(V, Source) = IF eof[Source] THEN amount ELSE 0)'
  <2>1. Source \in Cmds
    BY DEF Sets, Source
  <2>2. V[Source] + Len(todo'[Source]) = IF eof[Source] THEN amount ELSE 0
    BY <2>1 DEF Stream
  <2> QED BY <2>2 DEF Same, Had
<1>4. ASSUME NEW i \in Cmds, eof'[i], ~Converter
      PROVE  \/ \E m \in 0 .. i - 1 : Lost(m)'
             \/ Had(V, i)' = amount /\ \A m \in 0 .. i - 1 : pc'[m] = "done"
  <2>1. \/ \E m \in 0 .. i - 1 : Lost(m)
        \/ Had(W, i) = amount /\ \A m \in 0 .. i - 1 : pc[m] = "done"
    BY <1>4 DEF Stream
  <2>2. Had(V, i)' = Had(W, i)
    BY <1>4 DEF Had
  <2>3. \A m : Lost(m)' <=> Lost(m)
    BY DEF Lost
  <2> QED BY <2>1, <2>2, <2>3
<1>5. Len(printed)' = V[N' - 1]
      /\ \A n \in 1 .. Len(printed') : printed'[n] = <<N' - 1, <<Source', n>>>>
  BY DEF Same
<1> QED BY <1>1, <1>2, <1>3, <1>4, <1>5 DEF Stream, Same

\* Process p, which reads pipe k, takes a block from it.
LEMMA StreamTake ==
    ASSUME Sets, Shape, Same, NEW W \in [Procs -> Nat], Stream(W),
           NEW k \in Links, pipe[k] # << >>, NEW p, p = Reader(k),
           todo' = [todo EXCEPT ![p] = Append(@, Head(pipe[k]))],
           pipe' = [pipe EXCEPT ![k] = Tail(@)],
           UNCHANGED <<eof, pc, shell, printed>>,
           p \in Cmds => ~eof[p]
    PROVE  Stream(W)'
<1>1. /\ k \in Pipes /\ ~Converter /\ p \in Procs /\ p # Source /\ Source \in Cmds
      /\ Writer(k) \in Procs /\ p # Writer(k) /\ Carriers = Procs /\ Cmds \subseteq Procs
      /\ \A j \in Links : j \in Pipes /\ Reader(j) \in Procs /\ (Reader(j) = p => j = k)
  BY LinkFacts DEF Carriers, Sets, Source
<1>2. DataTyped
  BY DEF Shape
<1>3. pipe[k] \in Seq(Block) /\ todo[p] \in Seq(Block)
  BY <1>1, <1>2 DEF DataTyped
<1>4. Had(W, p) \in Nat /\ W[p] \in Nat /\ Len(todo[p]) \in Nat /\ Had(W, p) = W[p] + Len(todo[p])
  BY <1>1, <1>2, HadTyped
<1>5. From(todo[p], W[p]) /\ From(pipe[k], Had(W, p))
      /\ Had(W, p) + Len(pipe[k]) = W[Writer(k)]
  BY <1>1 DEF Stream
<1>6. Head(pipe[k]) = <<Source, Had(W, p) + 1>> /\ From(Tail(pipe[k]), Had(W, p) + 1)
  BY <1>3, <1>4, <1>5, FromTail
<1>7. /\ Head(pipe[k]) \in Block /\ Len(pipe[k]) \in Nat
      /\ Len(Tail(pipe[k])) = Len(pipe[k]) - 1
  BY <1>3, TailFacts, EmptyFacts
<1>8. From(Append(todo[p], Head(pipe[k])), W[p])
  BY <1>3, <1>4, <1>5, <1>6, <1>7, FromAppend
<1>9. Len(Append(todo[p], Head(pipe[k]))) = Len(todo[p]) + 1
  BY <1>3, <1>7, AppendFacts
<1>10. /\ todo'[p] = Append(todo[p], Head(pipe[k])) /\ pipe'[k] = Tail(pipe[k])
       /\ \A q \in Procs : q # p => todo'[q] = todo[q]
       /\ \A j \in Pipes : j # k => pipe'[j] = pipe[j]
  BY <1>1, <1>2 DEF DataTyped
<1> DEFINE H(q) == W[q] + Len(todo'[q])
<1>11. H(p) = Had(W, p) + 1 /\ \A q \in Procs : q # p => H(q) = Had(W, q)
  <2>1. \A x, y \in Nat : x + (y + 1) = (x + y) + 1
    OBVIOUS
  <2>2. H(p) = W[p] + (Len(todo[p]) + 1)
    BY <1>9, <1>10
  <2>3. H(p) = Had(W, p) + 1
    BY <1>4, <2>1, <2>2
  <2> QED BY <1>10, <2>3 DEF Had
<1>12. H(p) + Len(pipe'[k]) = W[Writer(k)]
  <2>1. \A x, y \in Nat : (x + 1) + (y - 1) = x + y
    OBVIOUS
  <2>2. Len(pipe'[k]) = Len(pipe[k]) - 1
    BY <1>7, <1>10
  <2>3. H(p) = Had(W, p) + 1
    BY <1>11
  <2> HIDE DEF H
  <2>4. H(p) + Len(pipe'[k]) = (Had(W, p) + 1) + (Len(pipe[k]) - 1)
    BY <2>2, <2>3
  <2>5. (Had(W, p) + 1) + (Len(pipe[k]) - 1) = Had(W, p) + Len(pipe[k])
    BY <1>4, <1>7, <2>1
  <2> QED BY <1>5, <2>4, <2>5
<1> HIDE DEF H
<1>13. \A q \in Procs : From(todo'[q], W[q])
  BY <1>1, <1>8, <1>10 DEF Stream
<1>14. ASSUME NEW j \in Links
       PROVE  /\ From(pipe'[j], H(Reader(j)))
              /\ H(Reader(j)) + Len(pipe'[j]) = W[Writer(j)]
  <2>1. CASE j = k
    BY <1>6, <1>10, <1>11, <1>12, <2>1
  <2>2. CASE j # k
    <3>1. Reader(j) # p /\ Reader(j) \in Procs /\ j \in Pipes
      BY <1>1, <2>2
    <3>2. H(Reader(j)) = Had(W, Reader(j)) /\ pipe'[j] = pipe[j]
      BY <1>10, <1>11, <2>2, <3>1
    <3> QED BY <3>2 DEF Stream
  <2> QED BY <2>1, <2>2
<1>15. ASSUME NEW q \in Cmds, q = Source \/ (~Converter /\ eof[q])
       PROVE  W[q] + Len(todo'[q]) = Had(W, q)
  BY <1>1, <1>11, <1>15 DEF H
<1>16. Len(printed') = W[N - 1]
       /\ \A n \in 1 .. Len(printed') : printed'[n] = <<N - 1, <<Source, n>>>>
  BY DEF Stream
<1>17. \A j \in Links : H(Reader(j)) = W[Reader(j)] + Len(todo'[Reader(j)])
  BY DEF H
<1> QED BY SMTT(30), <1>1, <1>13, <1>14, <1>15, <1>16, <1>17, StreamNext

\* Process p, which writes to pipe k, puts its first block there.
LEMMA StreamPut ==
    ASSUME Sets, Shape, Same, NEW W \in [Procs -> Nat], Stream(W),
           NEW k \in Links, NEW p, p = Writer(k), todo[p] # << >>,
           pipe' = [pipe EXCEPT ![k] = Append(@, Head(todo[p]))],
           todo' = [todo EXCEPT ![p] = Tail(@)],
           UNCHANGED <<eof, pc, shell, printed>>
    PROVE  \E V \in [Procs -> Nat] : Stream(V)'
<1> DEFINE V == [W EXCEPT ![p] = @ + 1]
<1>1. /\ k \in Pipes /\ ~Converter /\ p \in Procs /\ p # N - 1 /\ N - 1 \in Procs
      /\ Reader(k) \in Procs /\ p # Reader(k) /\ Carriers = Procs /\ Cmds \subseteq Procs
      /\ \A j \in Links : /\ j \in Pipes /\ Reader(j) \in Procs /\ Writer(j) \in Procs
                          /\ (Writer(j) = p => j = k)
  BY LinkFacts DEF Carriers, Sets
<1>2. DataTyped
  BY DEF Shape
<1>3. pipe[k] \in Seq(Block) /\ todo[p] \in Seq(Block)
  BY <1>1, <1>2 DEF DataTyped
<1>4. W[p] \in Nat /\ Len(todo[p]) \in Nat /\ Had(W, Reader(k)) \in Nat
  BY <1>1, <1>2, HadTyped
<1>5. From(todo[p], W[p]) /\ From(pipe[k], Had(W, Reader(k)))
      /\ Had(W, Reader(k)) + Len(pipe[k]) = W[p]
  BY <1>1 DEF Stream
<1>6. Head(todo[p]) = <<Source, W[p] + 1>> /\ From(Tail(todo[p]), W[p] + 1)
  BY <1>3, <1>4, <1>5, FromTail
<1>7. /\ Head(todo[p]) \in Block /\ Len(Tail(todo[p])) = Len(todo[p]) - 1
      /\ Len(pipe[k]) \in Nat
  BY <1>3, TailFacts, EmptyFacts
<1>8. From(Append(pipe[k], Head(todo[p])), Had(W, Reader(k)))
      /\ Len(Append(pipe[k], Head(todo[p]))) = Len(pipe[k]) + 1
  <2>1. Head(todo[p]) = <<Source, Had(W, Reader(k)) + Len(pipe[k]) + 1>>
    BY <1>5, <1>6
  <2>2. From(Append(pipe[k], Head(todo[p])), Had(W, Reader(k)))
    BY <1>3, <1>4, <1>5, <1>7, <2>1, FromAppend
  <2> QED BY <1>3, <1>7, <2>2, AppendFacts
<1>9. /\ pipe'[k] = Append(pipe[k], Head(todo[p])) /\ todo'[p] = Tail(todo[p])
      /\ \A q \in Procs : q # p => todo'[q] = todo[q]
      /\ \A j \in Pipes : j # k => pipe'[j] = pipe[j]
  BY <1>1, <1>2 DEF DataTyped
<1>10. /\ V \in [Procs -> Nat] /\ V[p] = W[p] + 1
       /\ \A q \in Procs : q # p => V[q] = W[q]
  BY <1>1, <1>4
<1> HIDE DEF V
<1>11. ASSUME NEW q \in Procs PROVE V[q] + Len(todo'[q]) = Had(W, q)
  <2>1. CASE q = p
    <3>1. \A x, y \in Nat : (x + 1) + (y - 1) = x + y
      OBVIOUS
    <3>2. (W[p] + 1) + (Len(todo[p]) - 1) = W[p] + Len(todo[p])
      BY <1>4, <3>1
    <3> QED BY <1>7, <1>9, <1>10, <2>1, <3>2 DEF Had
  <2>2. CASE q # p
    BY <1>9, <1>10, <2>2 DEF Had
  <2> QED BY <2>1, <2>2
<1>12. \A q \in Procs : From(todo'[q], V[q])
  BY <1>1, <1>6, <1>9, <1>10 DEF Stream
<1>13. ASSUME NEW j \in Links
       PROVE  /\ From(pipe'[j], Had(W, Reader(j)))
              /\ Had(W, Reader(j)) + Len(pipe'[j]) = V[Writer(j)]
  <2>1. CASE j = k
    <3>1. \A x, y, z \in Nat : x + y = z => x + (y + 1) = z + 1
      OBVIOUS
    <3>2. Had(W, Reader(k)) + (Len(pipe[k]) + 1) = W[p] + 1
      BY <1>4, <1>5, <1>7, <3>1
    <3> QED BY <1>8, <1>9, <1>10, <2>1, <3>2
  <2>2. CASE j # k
    BY <1>1, <1>9, <1>10, <2>2 DEF Stream
  <2> QED BY <2>1, <2>2
<1>14. \A j \in Links : V[Reader(j)] + Len(todo'[Reader(j)]) = Had(W, Reader(j))
  BY <1>1, <1>11
<1>15. Len(printed') = V[N - 1]
       /\ \A n \in 1 .. Len(printed') : printed'[n] = <<N - 1, <<Source, n>>>>
  BY <1>1, <1>10 DEF Stream
<1>16. Stream(V)'
  BY <1>1, <1>11, <1>12, <1>13, <1>14, <1>15, StreamNext
<1> QED BY <1>10, <1>16

\* The last command prints its first block.
LEMMA StreamPrint ==
    ASSUME Sets, Shape, Same, NEW W \in [Procs -> Nat], Stream(W),
           NEW p, p = N - 1, todo[p] # << >>,
           printed' = Append(printed, <<p, Head(todo[p])>>),
           todo' = [todo EXCEPT ![p] = Tail(@)],
           UNCHANGED <<eof, pc, shell, pipe>>
    PROVE  \E V \in [Procs -> Nat] : Stream(V)'
<1> DEFINE V == [W EXCEPT ![p] = @ + 1]
<1>1. /\ p \in Procs /\ p \in Cmds /\ p \in Carriers /\ Cmds \subseteq Procs
      /\ Carriers \subseteq Procs
      /\ \A j \in Links : Reader(j) \in Procs /\ Writer(j) \in Procs /\ Writer(j) # p
  BY LinkFacts DEF Carriers, Sets
<1>2. DataTyped
  BY DEF Shape
<1>3. printed \in Seq(Cmds \X Block) /\ todo[p] \in Seq(Block)
  BY <1>1, <1>2 DEF DataTyped
<1>4. W[p] \in Nat /\ Len(todo[p]) \in Nat
  BY <1>1, <1>2, HadTyped
<1>5. From(todo[p], W[p]) /\ Len(printed) = W[p]
      /\ \A n \in 1 .. Len(printed) : printed[n] = <<p, <<Source, n>>>>
  BY <1>1 DEF Stream
<1>6. Head(todo[p]) = <<Source, W[p] + 1>> /\ From(Tail(todo[p]), W[p] + 1)
  BY <1>3, <1>4, <1>5, FromTail
<1>7. /\ Head(todo[p]) \in Block /\ Len(Tail(todo[p])) = Len(todo[p]) - 1
      /\ <<p, Head(todo[p])>> \in Cmds \X Block
  BY <1>1, <1>3, TailFacts
<1>8. /\ Len(printed') = Len(printed) + 1
      /\ \A n \in 1 .. Len(printed) : printed'[n] = printed[n]
      /\ printed'[Len(printed) + 1] = <<p, Head(todo[p])>>
  BY <1>3, <1>7, AppendFacts
<1>9. /\ todo'[p] = Tail(todo[p])
      /\ \A q \in Procs : q # p => todo'[q] = todo[q]
  BY <1>1, <1>2 DEF DataTyped
<1>10. /\ V \in [Procs -> Nat] /\ V[p] = W[p] + 1
       /\ \A q \in Procs : q # p => V[q] = W[q]
  BY <1>1, <1>4
<1> HIDE DEF V
<1>11. ASSUME NEW q \in Procs PROVE V[q] + Len(todo'[q]) = Had(W, q)
  <2>1. CASE q = p
    <3>1. \A x, y \in Nat : (x + 1) + (y - 1) = x + y
      OBVIOUS
    <3>2. (W[p] + 1) + (Len(todo[p]) - 1) = W[p] + Len(todo[p])
      BY <1>4, <3>1
    <3> QED BY <1>7, <1>9, <1>10, <2>1, <3>2 DEF Had
  <2>2. CASE q # p
    BY <1>9, <1>10, <2>2 DEF Had
  <2> QED BY <2>1, <2>2
<1>12. \A q \in Carriers : From(todo'[q], V[q])
  BY <1>1, <1>6, <1>9, <1>10 DEF Stream
<1>13. \A j \in Links : /\ V[Reader(j)] + Len(todo'[Reader(j)]) = Had(W, Reader(j))
                        /\ From(pipe'[j], Had(W, Reader(j)))
                        /\ Had(W, Reader(j)) + Len(pipe'[j]) = V[Writer(j)]
  BY <1>1, <1>10, <1>11 DEF Stream
<1>14. Len(printed') = V[N - 1]
  BY <1>5, <1>8, <1>10
<1>15. ASSUME NEW n \in 1 .. Len(printed') PROVE printed'[n] = <<N - 1, <<Source, n>>>>
  <2>1. Len(printed) \in Nat /\ (n \in 1 .. Len(printed) \/ n = Len(printed) + 1)
    BY <1>4, <1>5, <1>8
  <2> QED BY <1>5, <1>6, <1>8, <2>1
<1>16. Stream(V)'
  BY SMTT(30), <1>1, <1>11, <1>12, <1>13, <1>14, <1>15, StreamNext
<1> QED BY <1>10, <1>16

\* exec: a source gets its data, the others start with nothing.
LEMMA StreamExec ==
    ASSUME ConstantsAssumption, Sets, Shape, NEW i \in Cmds, Exec(i),
           NEW W \in [Procs -> Nat], Stream(W)
    PROVE  Stream(W)'
<1>s. Same
  BY Fixed DEF Exec
<1>p. /\ pc[i] = "forked" /\ pc' = [pc EXCEPT ![i] = "run"]
      /\ eof' = [eof EXCEPT ![i] = In(i) = NoPipe]
      /\ todo' = [todo EXCEPT ![i] = IF In(i) = NoPipe THEN Blocks(i) ELSE << >>]
      /\ UNCHANGED <<pipe, shell, printed>>
  BY DEF Exec
<1>1. /\ i \in Procs /\ Cmds \subseteq Procs /\ Carriers \subseteq Procs /\ Source \in Cmds
      /\ Source \in Carriers /\ Source \in Procs
      /\ Alive(i) /\ DataTyped /\ todo[i] = << >> /\ ~eof[i]
  BY <1>p DEF Sets, Carriers, Source, Alive, Shape, Fresh
<1>2. /\ \A k \in Cmds : Lost(k) => Lost(k)'
      /\ \A k \in Cmds : pc[k] = "done" => pc'[k] = "done"
  BY <1>p DEF Lost, Shape, ControlTyped
<1>3. /\ \A q \in Procs : q # i => todo'[q] = todo[q]
      /\ \A q \in Cmds : q # i => eof'[q] = eof[q]
      /\ todo'[i] = (IF In(i) = NoPipe THEN Blocks(i) ELSE << >>)
      /\ eof'[i] = (In(i) = NoPipe)
  BY <1>p, <1>1 DEF Shape, ControlTyped, DataTyped
<1>a. \A k \in Cmds : \A m \in 0 .. k - 1 : m \in Cmds
  BY DEF Sets
<1>4. CASE i = Source
  <2>1. In(i) = NoPipe
    BY <1>1, <1>4, InOut DEF Source
  <2>2. todo'[i] = Blocks(i) /\ eof'[i]
    BY <1>3, <2>1
  <2>3. W[i] = 0
    <3>1. Had(W, i) = 0 /\ Len(todo[i]) = 0 /\ W[i] \in Nat
      BY <1>1, <1>4, EmptyFacts DEF Stream
    <3> QED BY <3>1 DEF Had
  <2>4. /\ Len(Blocks(i)) = amount /\ amount \in Nat
        /\ \A j \in 1 .. amount : Blocks(i)[j] = <<i, j>>
    BY BlocksFacts DEF Sets
  <2>5. From(todo'[i], W[i])
    BY <1>4, <2>2, <2>3, <2>4 DEF From
  <2>6. \A q \in Carriers' : From(todo[q], W[q])'
    BY SMTT(30), <1>s, <1>1, <1>3, <2>5 DEF Stream, Same, From
  <2>7. \A k \in Links : Reader(k) # i /\ Reader(k) \in Procs
    BY <1>4, LinkFacts
  <2>8. \A k \in Links' : /\ From(pipe[k], Had(W, Reader(k)))'
                          /\ (Had(W, Reader(k)) + Len(pipe[k]) = W[Writer(k)])'
    <3>1. ASSUME NEW k \in Links
          PROVE  /\ From(pipe'[k], W[Reader(k)] + Len(todo'[Reader(k)]))
                 /\ W[Reader(k)] + Len(todo'[Reader(k)]) + Len(pipe'[k]) = W[Writer(k)]
      <4>1. todo'[Reader(k)] = todo[Reader(k)] /\ pipe' = pipe
        BY <1>p, <1>3, <2>7
      <4> QED BY <4>1 DEF Stream, Had
    <3> QED BY <1>s, <3>1 DEF Same, From, Had
  <2>9. (Had(W, Source) = IF eof[Source] THEN amount ELSE 0)'
    <3>1. W[i] + Len(todo'[i]) = amount
      BY <2>2, <2>3, <2>4
    <3> QED BY <1>s, <1>4, <2>2, <3>1 DEF Same, Had
  <2>10. ASSUME ~Converter, NEW j \in Cmds, eof'[j]
         PROVE  \/ \E k \in 0 .. j - 1 : Lost(k)'
                \/ W[j] + Len(todo'[j]) = amount /\ \A k \in 0 .. j - 1 : pc'[k] = "done"
    <3>1. CASE j = i
      <4>1. 0 .. j - 1 = {}
        BY <1>4, <2>10, <3>1 DEF Source
      <4> QED BY <2>2, <2>3, <2>4, <3>1, <4>1
    <3>2. CASE j # i
      BY SMTT(30), <1>1, <1>2, <1>3, <1>a, <2>10, <3>2 DEF Stream, Had
    <3> QED BY <3>1, <3>2
  <2> QED BY <1>s, <1>p, <2>6, <2>8, <2>9, <2>10 DEF Stream, Same, Had
<1>5. CASE i # Source /\ ~Converter
  <2>1. todo' = todo /\ eof' = eof
    <3>1. In(i) # NoPipe
      BY <1>1, <1>5, InOut DEF Source
    <3> QED BY <1>p, <1>1, <1>3, <3>1 DEF DataTyped, Shape, ControlTyped
  <2> QED BY <1>s, <1>p, <1>2, <2>1, StreamFrame
<1>6. CASE i # Source /\ Converter
  <2>1. Carriers = {Source} /\ Links = {} /\ Converter'
    BY <1>s, <1>6 DEF Carriers, Links, Source, Same
  <2>2. todo'[Source] = todo[Source] /\ eof'[Source] = eof[Source]
    BY <1>1, <1>3, <1>6
  <2>3. \A q \in Carriers' : From(todo[q], W[q])'
    BY <1>s, <2>1, <2>2 DEF Stream, Same, From
  <2>4. (Had(W, Source) = IF eof[Source] THEN amount ELSE 0)'
    BY <1>s, <2>2 DEF Stream, Same, Had
  <2> QED BY <1>s, <1>p, <2>1, <2>3, <2>4 DEF Stream, Same
<1> QED BY <1>4, <1>5, <1>6

\* The end of the input: the writer of the pipe has ended, and what it has not written
\* either did not exist or is lost.
LEMMA StreamEof ==
    ASSUME ConstantsAssumption, Sets, Shape, NEW i \in Cmds, ReadEof(i),
           NEW W \in [Procs -> Nat], Stream(W)
    PROVE  Stream(W)'
<1>s. Same
  BY Fixed DEF ReadEof
<1>p. /\ eof' = [eof EXCEPT ![i] = TRUE] /\ pc[i] = "run" /\ ~eof[i]
      /\ pipe[In(i)] = << >> /\ ~Held(In(i), "w")
      /\ UNCHANGED <<pipe, todo, pc, shell, printed>>
  BY DEF ReadEof
<1>1. /\ i # 0 /\ ~Converter /\ i \in 0 .. N - 1 /\ N \in Nat /\ Cmds = 0 .. N - 1
      /\ Shell \in Procs /\ Cmds \subseteq Procs /\ Source = 0
  BY <1>p DEF Shape, Started, Sets, Source
<1>2. In(i) \in Links /\ Reader(In(i)) = i /\ In(i) \in Pipes
  BY <1>p, <1>1, InOut DEF Alive
<1>3. \A q \in Cmds : q # i => eof'[q] = eof[q]
  BY <1>p DEF Shape, ControlTyped
<1>4. Had(W, i) = W[Writer(In(i))]
  <2>1. Had(W, i) + 0 = W[Writer(In(i))]
    BY <1>p, <1>2, EmptyFacts DEF Stream
  <2>2. Had(W, i) \in Nat
    BY <1>1, HadTyped DEF Shape
  <2> QED BY <2>1, <2>2
<1>5. \/ \E k \in 0 .. i - 1 : Lost(k)
      \/ Had(W, i) = amount /\ \A k \in 0 .. i - 1 : pc[k] = "done"
  <2> DEFINE b == i - 1
  <2>b. b \in Cmds /\ b \in 0 .. i - 1 /\ b \in Procs /\ i - 1 = b
        /\ \A k \in 0 .. i - 1 : k = b \/ k \in 0 .. b - 1
    BY <1>1
  <2> HIDE DEF b
  <2>1. CASE pc[b] = "done" /\ Had(W, i) = W[b]
    <3>1. eof[b] /\ todo[b] = << >>
      BY <2>b, <2>1 DEF Shape, Started
    <3>2. Had(W, b) = W[b]
      <4>1. W[b] \in Nat /\ Len(todo[b]) = 0
        BY <2>b, <3>1, EmptyFacts
      <4> QED BY <4>1 DEF Had
    <3>3. \/ \E k \in 0 .. b - 1 : Lost(k)
          \/ Had(W, b) = amount /\ \A k \in 0 .. b - 1 : pc[k] = "done"
      BY <1>1, <2>b, <3>1 DEF Stream
    <3>4. \A k \in 0 .. b - 1 : k \in 0 .. i - 1
      BY <1>1, <2>b
    <3> QED BY <2>1, <2>b, <3>2, <3>3, <3>4
  <2>2. CASE Lost(b)
    BY <2>2, <2>b
  <2>3. CASE Plain
    <3>1. In(i) = b /\ Writer(b) = b /\ In(i) < N - 1
      BY <1>1, <1>2, <2>b, <2>3 DEF Plain, Reader, Writer, Links
    <3>2. b < N - 1 /\ PlainEnds
      BY <2>3, <3>1 DEF Shape
    <3>3. ~Alive(b)
      BY <1>p, <2>b, <3>1, <3>2 DEF PlainEnds, Held
    <3>4. shell # "fork"
      <4>1. b \in 0 .. N - 2
        BY <1>1, <2>b, <3>2
      <4>2. <<b, "w">> \in AllEnds
        BY <4>1 DEF AllEnds
      <4> QED BY <1>p, <1>1, <3>1, <3>2, <4>2 DEF PlainEnds, Held
    <3>5. pc[b] \in {"none", "done", "failed"}
      BY <2>b, <3>3 DEF Shape, ControlTyped, Alive
    <3>6. pc[b] = "done" \/ Lost(b)
      BY <3>4, <3>5 DEF Lost
    <3> QED BY <1>4, <2>1, <2>2, <3>1, <3>6
  <2>4. CASE Popen
    <3>1. i = 1 /\ b = 0 /\ N = 2 /\ Cmds = 0 .. 1
      BY <1>1, <2>b, <2>4 DEF Sets
    <3>2. In(i) = 1 /\ Writer(1) = Shell /\ Links = {0, 1}
      <4>1. Links = {0, 1} /\ Reader(0) = Shell /\ Shell # 1
        BY <1>1, <2>4, <3>1 DEF Links, Reader, Sets
      <4>2. In(i) \in {0, 1} /\ In(i) # 0
        BY <1>2, <3>1, <4>1
      <4> QED BY <2>4, <4>1, <4>2 DEF Writer
    <3>3. <<1, "w">> \notin ends[Shell]
      BY <1>p, <1>1, <3>2 DEF Held
    <3>4. shell \notin {"fork", "copy"} /\ PopenLoop
      BY <1>p, <2>4, <3>1, <3>3 DEF Shape, PopenEnds
    <3>5. CASE shell = "failed"
      <4>1. pc[0] = "none"
        BY <1>p, <3>1, <3>4, <3>5 DEF PopenLoop
      <4> QED BY <2>2, <3>1, <3>5, <4>1 DEF Lost
    <3>6. CASE shell \in {"wait", "done"}
      <4>1. pipe[0] = << >> /\ todo[Shell] = << >> /\ ~Alive(0) /\ pc[0] # "none"
        BY <3>4, <3>6 DEF PopenLoop
      <4>2. pc[0] \in {"done", "failed"}
        BY <3>1, <4>1 DEF Shape, ControlTyped, Alive
      <4>3. W[Shell] = W[0]
        <5>1. Had(W, Reader(0)) + Len(pipe[0]) = W[Writer(0)]
          BY <3>2 DEF Stream
        <5>2. Reader(0) = Shell /\ Writer(0) = 0
          BY <2>4 DEF Reader, Writer
        <5>3. Len(pipe[0]) = 0 /\ Len(todo[Shell]) = 0 /\ W[Shell] \in Nat
          BY <1>1, <4>1, EmptyFacts
        <5>4. Had(W, Shell) = W[Shell]
          BY <5>3 DEF Had
        <5> QED BY <5>1, <5>2, <5>3, <5>4
      <4> QED BY <1>4, <2>1, <2>2, <3>1, <3>2, <4>2, <4>3 DEF Lost
    <3> QED BY <3>4, <3>5, <3>6 DEF Shape, ControlTyped
  <2> QED BY <1>1, <2>3, <2>4 DEF Plain
<1>6. \A q \in Carriers' : From(todo[q], W[q])'
  BY <1>s, <1>p DEF Stream, Same, From
<1>7. \A k \in Links' : /\ From(pipe[k], Had(W, Reader(k)))'
                        /\ (Had(W, Reader(k)) + Len(pipe[k]) = W[Writer(k)])'
  BY <1>s, <1>p DEF Stream, Same, From, Had
<1>8. (Had(W, Source) = IF eof[Source] THEN amount ELSE 0)'
  <2>1. eof'[Source] = eof[Source]
    BY <1>1, <1>3
  <2> QED BY <1>s, <1>p, <2>1 DEF Stream, Same, Had
<1>9. ASSUME NEW j \in Cmds, eof'[j]
      PROVE  \/ \E k \in 0 .. j - 1 : Lost(k)'
             \/ Had(W, j)' = amount /\ \A k \in 0 .. j - 1 : pc'[k] = "done"
  <2>1. \/ \E k \in 0 .. j - 1 : Lost(k)
        \/ Had(W, j) = amount /\ \A k \in 0 .. j - 1 : pc[k] = "done"
    BY <1>1, <1>3, <1>5, <1>9 DEF Stream
  <2>2. (\A k : Lost(k)' <=> Lost(k)) /\ Had(W, j)' = Had(W, j)
    BY <1>p DEF Lost, Had
  <2> QED BY <1>p, <2>1, <2>2
<1> QED BY <1>s, <1>p, <1>6, <1>7, <1>8, <1>9 DEF Stream, Same

\* No step disturbs the order of the data, or loses any of it unnoticed.
LEMMA StreamStep ==
    ASSUME ConstantsAssumption, Shape, [Next]_vars,
           NEW W \in [Procs -> Nat], Stream(W)
    PROVE  \E V \in [Procs -> Nat] : Stream(V)'
<1>n. Sets
  BY Numbers DEF Shape
<1>w. Stream(W)' => \E V \in [Procs -> Nat] : Stream(V)'
  OBVIOUS
<1>1. CASE UNCHANGED vars
  <2>1. Same /\ UNCHANGED <<pipe, todo, eof, pc, shell, printed>>
    BY <1>1, Fixed DEF vars
  <2>2. \A k \in Cmds : Lost(k) => Lost(k)'
    BY <2>1 DEF Lost
  <2> QED BY <1>n, <1>w, <2>1, <2>2, StreamFrame
<1>2. CASE Fork
  <2>1. Same /\ UNCHANGED <<pipe, todo, eof, shell, printed>> /\ shell = "fork"
        /\ pc' = [pc EXCEPT ![Child(next)] = "forked"]
    BY <1>2, Fixed DEF Fork, StartChild
  <2>2. next \in Cmds /\ pc[Child(next)] = "none"
    <3>1. next \in Cmds /\ next \in next .. N - 1
      BY <1>n, <1>2 DEF Fork, Shape, ControlTyped, Sets
    <3> QED BY <2>1, <3>1 DEF Shape, Fresh
  <2>3. /\ \A k \in Cmds : Lost(k) => Lost(k)'
        /\ \A k \in Cmds : pc[k] = "done" => pc'[k] = "done"
    BY <2>1, <2>2 DEF Lost, Shape, ControlTyped
  <2> QED BY <1>n, <1>w, <2>1, <2>3, StreamFrame
<1>3. CASE ForkFails \/ Close \/ CopySigPipe \/ CopyEnd \/ Reap \/ AllReaped
  <2>1. Same /\ UNCHANGED <<pipe, todo, eof, pc, printed>> /\ (shell # "fork" => shell' # "fork")
    BY <1>3, Fixed DEF ForkFails, Close, CopySigPipe, CopyEnd, Reap, AllReaped
  <2>2. \A k \in Cmds : Lost(k) => Lost(k)'
    BY <2>1 DEF Lost
  <2> QED BY <1>n, <1>w, <2>1, <2>2, StreamFrame
<1>4. CASE CopyRead \/ CopyWrite
  <2>1. Same /\ UNCHANGED <<eof, pc, shell, printed>>
    BY <1>4, Fixed DEF CopyRead, CopyWrite
  <2>2. Popen /\ N = 2 /\ ~Converter /\ Shell \in Procs /\ Shell \notin Cmds
    BY <1>n, <1>4 DEF CopyRead, CopyWrite, Shape, Plain, Sets
  <2>3. Links = {0, 1} /\ Reader(0) = Shell /\ Writer(1) = Shell
    BY <2>2 DEF Links, Reader, Writer
  <2>4. todo[Shell] \in Seq(Block) /\ Len(todo[Shell]) <= 1
    BY <2>2 DEF Shape, DataTyped, PopenLoop
  <2>5. CASE CopyRead
    <3>1. <<Head(pipe[0])>> = Append(todo[Shell], Head(pipe[0]))
      BY <2>5 DEF CopyRead
    <3>2. todo' = [todo EXCEPT ![Shell] = Append(@, Head(pipe[0]))]
          /\ pipe' = [pipe EXCEPT ![0] = Tail(@)] /\ pipe[0] # << >>
      BY <2>5, <3>1 DEF CopyRead
    <3> QED BY <1>n, <1>w, <2>1, <2>2, <2>3, <3>2, StreamTake
  <2>6. CASE CopyWrite
    <3>1. Tail(todo[Shell]) = << >>
      BY <2>4, <2>6, OneLeft DEF CopyWrite
    <3>2. todo' = [todo EXCEPT ![Shell] = Tail(@)] /\ todo[Shell] # << >>
          /\ pipe' = [pipe EXCEPT ![1] = Append(@, Head(todo[Shell]))]
      BY <2>6, <3>1 DEF CopyWrite
    <3> QED BY <1>n, <2>1, <2>2, <2>3, <3>2, StreamPut
  <2> QED BY <1>4, <2>5, <2>6
<1>5. ASSUME NEW i \in Cmds, Exec(i) PROVE Stream(W)'
  BY <1>n, <1>5, StreamExec
<1>6. ASSUME NEW i \in Cmds, ReadEof(i) PROVE Stream(W)'
  BY <1>n, <1>6, StreamEof
<1>7. ASSUME NEW i \in Cmds, ExecFails(i) \/ SigPipe(i) \/ Finish(i) \/ Quit(i)
      PROVE  Stream(W)'
  <2>1. /\ Same /\ UNCHANGED <<pipe, todo, eof, shell, printed>>
        /\ \E how : pc' = [pc EXCEPT ![i] = how]
    BY <1>7, Fixed DEF ExecFails, SigPipe, Finish, Quit, End
  <2>2. Alive(i)
    BY <1>7 DEF ExecFails, SigPipe, Finish, Quit, MayWrite, Alive
  <2>3. \A k \in Cmds : k # i => pc'[k] = pc[k]
    BY <2>1 DEF Shape, ControlTyped
  <2>4. /\ \A k \in Cmds : Lost(k) => Lost(k)'
        /\ \A k \in Cmds : pc[k] = "done" => pc'[k] = "done"
    BY <2>1, <2>2, <2>3 DEF Lost, Alive
  <2> QED BY <1>n, <2>1, <2>4, StreamFrame
<1>8. ASSUME NEW i \in Cmds, Read(i) PROVE Stream(W)'
  <2>1. Same /\ pc[i] = "run" /\ Alive(i) /\ ~eof[i]
    BY <1>8, Fixed DEF Read, Alive
  <2>2. In(i) \in Links /\ i = Reader(In(i))
    <3>1. i # 0 /\ ~Converter
      BY <2>1 DEF Shape, Started
    <3> QED BY <1>n, <2>1, <3>1, InOut
  <2> QED BY <1>n, <1>8, <2>1, <2>2, StreamTake DEF Read
<1>9. ASSUME NEW i \in Cmds, WritePipe(i) PROVE \E V \in [Procs -> Nat] : Stream(V)'
  <2>1. Same /\ pc[i] = "run" /\ Alive(i) /\ todo[i] # << >>
        /\ UNCHANGED <<eof, pc, shell, printed>>
    BY <1>9, Fixed DEF WritePipe, MayWrite, Alive
  <2>2. Out(i) = i /\ i # N - 1 /\ i \in Procs /\ Cmds \subseteq Procs
        /\ (~Converter => i \in Links /\ Writer(i) = i)
    BY <1>n, <1>9, <2>1, InOut DEF WritePipe, Sets
  <2>3. pipe' = [pipe EXCEPT ![i] = Append(@, Head(todo[i]))]
        /\ todo' = [todo EXCEPT ![i] = Tail(@)]
    BY <1>9, <2>2 DEF WritePipe
  <2>4. CASE ~Converter
    BY <1>n, <2>1, <2>2, <2>3, <2>4, StreamPut
  <2>5. CASE Converter
    <3>1. Carriers = {N - 1} /\ Source = N - 1 /\ Links = {} /\ N - 1 \in Procs
      BY <1>n, <2>5 DEF Carriers, Source, Links, Sets
    <3>2. todo'[N - 1] = todo[N - 1]
      BY <2>2, <2>3, <3>1 DEF Shape, DataTyped
    <3>3. \A q \in Carriers : From(todo'[q], W[q])
      BY <3>1, <3>2 DEF Stream
    <3>4. \A q \in Cmds : q = Source \/ (~Converter /\ eof[q]) =>
              W[q] + Len(todo'[q]) = Had(W, q)
      BY <2>5, <3>1, <3>2 DEF Had
    <3>5. Len(printed') = W[N - 1]
          /\ \A n \in 1 .. Len(printed') : printed'[n] = <<N - 1, <<Source, n>>>>
      BY <2>1 DEF Stream
    <3>6. Stream(W)'
      BY <1>n, <2>1, <3>1, <3>3, <3>4, <3>5, StreamNext
    <3> QED BY <1>w, <3>6
  <2> QED BY <2>4, <2>5
<1>10. ASSUME NEW i \in Cmds, WriteTerminal(i)
       PROVE  \E V \in [Procs -> Nat] : Stream(V)'
  <2>1. Same /\ pc[i] = "run" /\ Alive(i)
    BY <1>10, Fixed DEF WriteTerminal, MayWrite, Alive
  <2>2. i = N - 1
    BY <1>n, <1>10, <2>1, InOut DEF WriteTerminal
  <2> QED BY <1>n, <1>10, <2>1, <2>2, StreamPrint DEF WriteTerminal, MayWrite
<1>11. CASE Next
  BY <1>11, <1>w, <1>2, <1>3, <1>4, <1>5, <1>6, <1>7, <1>8, <1>9, <1>10
  DEF Next, ShellStep, Command
<1> QED BY <1>1, <1>11

LEMMA InvStep == ConstantsAssumption /\ Inv /\ [Next]_vars => Inv'
<1> SUFFICES ASSUME ConstantsAssumption, Inv, [Next]_vars PROVE Inv'
  OBVIOUS
<1>1. Shape'
  BY ShapeStep DEF Inv
<1>2. PICK W \in [Procs -> Nat] : Stream(W)
  BY DEF Inv
<1>3. \E V \in [Procs -> Nat] : Stream(V)'
  BY <1>2, StreamStep DEF Inv
<1>4. Procs' = Procs
  <2>1. UNCHANGED given
    BY DEF vars, Next, ShellStep, Command, Fork, StartChild, ForkFails, Close, Reap,
           AllReaped, CopyRead, CopyWrite, CopySigPipe, CopyEnd, Exec, Read, ReadEof,
           WritePipe, SigPipe, WriteTerminal, Finish, ExecFails, Quit, End
  <2> QED BY <2>1, Fixed DEF Same
<1> QED BY <1>1, <1>3, <1>4 DEF Inv

\* When every command has ended by itself, the last one has had all the data.
LEMMA StreamEnds ==
    ASSUME Sets, Shape, NEW W \in [Procs -> Nat], Stream(W),
           \A i \in Cmds : pc[i] = "done"
    PROVE  Len(printed) = amount
<1> DEFINE l == N - 1
<1>1. l \in Cmds /\ l \in Procs /\ l = N - 1 /\ \A k \in 0 .. l - 1 : k \in Cmds
  BY DEF Sets
<1> HIDE DEF l
<1>2. eof[l] /\ todo[l] = << >>
  BY <1>1 DEF Shape, Started
<1>3. Had(W, l) = W[l]
  <2>1. W[l] \in Nat /\ Len(todo[l]) = 0
    BY <1>1, <1>2, EmptyFacts
  <2> QED BY <2>1 DEF Had
<1>4. CASE Converter
  <2>1. Source = l
    BY <1>1, <1>4 DEF Source
  <2> QED BY <1>1, <1>2, <1>3, <2>1 DEF Stream
<1>5. CASE ~Converter
  <2>1. ~ \E k \in 0 .. l - 1 : Lost(k)
    BY <1>1 DEF Lost
  <2>2. Had(W, l) = amount
    BY <1>1, <1>2, <1>5, <2>1 DEF Stream
  <2> QED BY <1>1, <1>3, <2>2 DEF Stream
<1> QED BY <1>4, <1>5

\* What comes to the terminal is a beginning of the data without gaps, and all of it when
\* no command has failed, quit or been killed, for any number of commands of any kind, any
\* amount of data, any size of the pipes and forks or execs that fail anywhere
\* (cmdpipe_modified.cpp:22-50, whosortpipe.cpp:10-31, converterpipe.cpp:20-60,
\* cmdpipe.cpp:8-23).
THEOREM OutputWhole == Spec => []NothingTruncated
<1>1. ConstantsAssumption
  BY ConstantsAssumption
<1>2. ConstantsAssumption /\ Inv => NothingTruncated
  <2> SUFFICES ASSUME ConstantsAssumption, Inv PROVE NothingTruncated
    OBVIOUS
  <2>1. PICK W \in [Procs -> Nat] : Stream(W)
    BY DEF Inv
  <2>2. Sets /\ Shape
    BY Numbers DEF Inv, Shape
  <2>3. (\A i \in Cmds : pc[i] = "done") => Len(printed) = amount
    BY <2>1, <2>2, StreamEnds
  <2> QED BY <2>1, <2>3 DEF Stream, NothingTruncated, Source
<1>3. ConstantsAssumption /\ Init => Inv
  BY ShapeInit, StreamInit DEF Inv
<1> QED BY <1>1, <1>2, <1>3, InvStep, PTL DEF Spec
=============================================================================
