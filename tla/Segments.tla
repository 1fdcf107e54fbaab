------------------------------ MODULE Segments ------------------------------
(***************************************************************************)
(* the_shared_mem/9.7 and attach_shm: programs that make private segments, *)
(* edit them, some with the help of a child, and remove them again:        *)
(*   "main", "changer", "byte_changer", "mod_create" (mod_create_segments),*)
(*   "create" (create_segments) and "attach" (attach_shm).                 *)
(* A run is one process started at a terminal and the child it may fork.   *)
(*                                                                         *)
(* The kernel keeps a table of segments.  A removed segment stays for the  *)
(* processes that have it attached, and a segment that nobody removes      *)
(* stays for good.  byte_changer hears from its child, the program         *)
(* modify_segment, through a FIFO under a fixed name; modify_segment is    *)
(* not in the repository, so all it can do about the FIFO is considered.   *)
(***************************************************************************)
EXTENDS Integers, FiniteSets

CONSTANTS
    Runs, NoRun,
    Programs,      \* the programs that are considered
    MAX_SEGMENTS,  \* segments of a run
    Table          \* segments that the kernel has room for

ASSUME SegmentsAssumption ==
    /\ NoRun \notin Runs /\ IsFiniteSet(Runs)
    /\ Programs \subseteq {"main", "changer", "byte_changer", "mod_create", "create", "attach"}
    /\ MAX_SEGMENTS \in Nat \ {0} /\ Table \in Nat

VARIABLES
    seg,   \* the segments: slot k of run r is <<r, k>>, main's new one <<r, 0>>
    run,   \* the runs
    fifo   \* the run that made "segment_fifo", or NoRun

vars == <<seg, run, fifo>>

Seg == Runs \X (0 .. MAX_SEGMENTS)
Parent(r) == <<r, "parent">>
Child(r) == <<r, "child">>
Ended == {"done", "failed", "killed"}

NoSegment == [is |-> "no", by |-> {}, text |-> "empty"]

\* pc of the parent; num and i of its loops; slot: the segment that is edited, new:
\* whether main has replaced it; child, and writer: a process that modify_segment
\* has left behind; answer: whose report byte_changer has read; shown: the texts
\* that were printed after the edit.
NewRun(p) ==
    [prog |-> p, pc |-> "start", num |-> 0, i |-> 1, slot |-> 0, new |-> FALSE,
     child |-> "none", writer |-> "none", answer |-> << >>, shown |-> << >>]

Init ==
    /\ seg = [s \in Seg |-> NoSegment]
    /\ run \in [Runs -> {NewRun(p) : p \in Programs}]
    /\ fifo = NoRun

-----------------------------------------------------------------------------
(***************************************************************************)
(* The kernel's table.                                                     *)
(***************************************************************************)

Full == Cardinality({s \in Seg : seg[s].is # "no"}) >= Table

\* A removed segment goes with the last process that has it attached.
Settle(x) == IF x.is = "removed" /\ x.by = {} THEN NoSegment ELSE x

\* The table when process q has detached the segments S.
Without(table, S, q) ==
    [s \in Seg |-> IF s \in S THEN Settle([table[s] EXCEPT !.by = @ \ {q}]) ELSE table[s]]

\* IPC_RMID; an error of it is not looked at.
Marked(s) ==
    [seg EXCEPT ![s] = IF @.is = "no" THEN @ ELSE Settle([@ EXCEPT !.is = "removed"])]

Made(s, by, text) == [seg EXCEPT ![s] = [is |-> "live", by |-> by, text |-> text]]

\* The parent of run r ends: it stays attached to nothing.
Leave(r, table, how) ==
    /\ seg' = Without(table, Seg, Parent(r))
    /\ run' = [run EXCEPT ![r].pc = how]
    /\ UNCHANGED fifo

Go(r, to) == run' = [run EXCEPT ![r].pc = to]

\* shmid[k], shm[k].
Slot(r, k) == IF run[r].new /\ k = run[r].slot THEN <<r, 0>> ELSE <<r, k>>

-----------------------------------------------------------------------------
(***************************************************************************)
(* Making the segments.                                                    *)
(***************************************************************************)

\* The number of segments: typed in, 0 standing for one that is refused, or fixed.
Numbers(p) ==
    CASE p = "create" -> {MAX_SEGMENTS} [] p = "attach" -> {1} [] OTHER -> 0 .. MAX_SEGMENTS

Start(r) ==
    /\ run[r].pc = "start"
    /\ \E k \in Numbers(run[r].prog) :
         run' = [run EXCEPT ![r].num = k, ![r].pc = IF k = 0 THEN "failed" ELSE "get"]
    /\ UNCHANGED <<seg, fifo>>

AfterGet(p) ==
    CASE p = "main" -> "ask" [] p \in {"changer", "attach"} -> "fork"
      [] p = "byte_changer" -> "mkfifo" [] p = "mod_create" -> "detach"
      [] p = "create" -> "end"

\* shmget, shmat and the first contents.  create_segments does not look at what
\* shmat returns.
Get(r) ==
    /\ run[r].pc = "get" /\ ~Full
    /\ \E by \in {{Parent(r)}} \cup IF run[r].prog = "create" THEN {{}} ELSE {} :
         seg' = Made(<<r, run[r].i>>, by, "filled")
    /\ run' = IF run[r].i < run[r].num
              THEN [run EXCEPT ![r].i = @ + 1]
              ELSE [run EXCEPT ![r].i = 1, ![r].pc = AfterGet(run[r].prog)]
    /\ UNCHANGED fifo

\* The table is full, the size that was typed in is refused, or shmat fails: what has
\* been made stays behind.
GetFails(r) ==
    /\ run[r].pc = "get"
    /\ \/ Leave(r, seg, "failed")
       \/ /\ ~Full /\ run[r].prog # "create"
          /\ Leave(r, Made(<<r, run[r].i>>, {}, "empty"), "failed")

-----------------------------------------------------------------------------
(***************************************************************************)
(* main: the segment is edited by the run itself, and first replaced when  *)
(* the byte lies behind its text.                                          *)
(***************************************************************************)

Ask(r) ==
    /\ run[r].pc = "ask"
    /\ \/ \E k \in 1 .. run[r].num, to \in {"write", "replace"} :
            /\ run' = [run EXCEPT ![r].slot = k, ![r].pc = to]
            /\ UNCHANGED <<seg, fifo>>
       \/ Leave(r, seg, "failed")

\* Slip: the old segment is not removed.
KeepOld(r) ==
    /\ run[r].pc = "replace"
    /\ seg' = seg
    /\ Go(r, "regrow")
    /\ UNCHANGED fifo

\* IPC_RMID while the run still has the old segment attached; it stays so.
RemoveOld(r) ==
    /\ run[r].pc = "replace"
    /\ seg' = Marked(<<r, run[r].slot>>)
    /\ Go(r, "regrow")
    /\ UNCHANGED fifo

\* The strcpy that follows copies the new segment onto itself.
Regrow(r) ==
    /\ run[r].pc = "regrow" /\ ~Full
    /\ seg' = Made(<<r, 0>>, {Parent(r)}, "empty")
    /\ run' = [run EXCEPT ![r].new = TRUE, ![r].pc = "write"]
    /\ UNCHANGED fifo

\* IPC_RMID fails; or there is no room, or a size that shmget refuses (a negative byte
\* number); or no shmat.
RegrowFails(r) ==
    \/ run[r].pc \in {"replace", "regrow"} /\ Leave(r, seg, "failed")
    \/ /\ run[r].pc = "regrow" /\ ~Full
       /\ Leave(r, Made(<<r, 0>>, {}, "empty"), "failed")

Write(r) ==
    /\ run[r].pc = "write"
    /\ seg' = [seg EXCEPT ![Slot(r, run[r].slot)].text = IF @ = "empty" THEN "byte" ELSE "changed"]
    /\ Go(r, "detach")
    /\ UNCHANGED fifo

-----------------------------------------------------------------------------
(***************************************************************************)
(* The programs with a child.                                              *)
(***************************************************************************)

\* Slip: like the mknod of other programs, an existing FIFO is good enough.
TakeFifo(r) ==
    /\ run[r].pc = "mkfifo"
    /\ fifo' = r /\ Go(r, "fork") /\ UNCHANGED seg

MakeFifo(r) ==
    /\ run[r].pc = "mkfifo"
    /\ \/ fifo = NoRun /\ fifo' = r /\ Go(r, "fork") /\ UNCHANGED seg
       \/ fifo # NoRun /\ Leave(r, seg, "failed")

\* The child has the parent's segments attached as well.
Fork(r) ==
    /\ run[r].pc = "fork"
    /\ seg' = [s \in Seg |-> IF Parent(r) \in seg[s].by
                             THEN [seg[s] EXCEPT !.by = @ \cup {Child(r)}] ELSE seg[s]]
    /\ run' = [run EXCEPT ![r].pc = "waiting",
                 ![r].child = CASE run[r].prog = "changer" -> "input"
                                [] run[r].prog = "byte_changer" -> "exec"
                                [] run[r].prog = "attach" -> "edit"]
    /\ UNCHANGED fifo

ForkFails(r) == run[r].pc = "fork" /\ Leave(r, seg, "failed")

ChildExits(r) ==
    /\ seg' = Without(seg, Seg, Child(r))
    /\ run' = [run EXCEPT ![r].child = "ended"]
    /\ UNCHANGED fifo

\* changer's child: the byte is changed, or the number or the index refused.
ChildInput(r) ==
    /\ run[r].child = "input"
    /\ \/ \E k \in 1 .. run[r].num :
            /\ seg' = [seg EXCEPT ![<<r, k>>].text = "changed"]
            /\ run' = [run EXCEPT ![r].child = "leaving"]
            /\ UNCHANGED fifo
       \/ ChildExits(r)

\* attach_shm's child: letter by letter, here in two steps.
ChildEdit(r) ==
    /\ run[r].child = "edit"
    /\ seg' = [seg EXCEPT ![<<r, 1>>].text = IF @ = "filled" THEN "mixed" ELSE "changed"]
    /\ run' = [run EXCEPT ![r].child = IF seg[<<r, 1>>].text = "filled" THEN @ ELSE "leaving"]
    /\ UNCHANGED fifo

\* shmdt of one segment, if the pointer is still the right one, and exit.
ChildLeaves(r) == run[r].child = "leaving" /\ ChildExits(r)

\* execl, which detaches everything.  Then modify_segment opens the FIFO for writing,
\* leaves a process behind that does, or ends without; so does a child whose execl fails.
Exec(r) ==
    /\ run[r].child = "exec"
    /\ seg' = Without(seg, Seg, Child(r))
    /\ \/ run' = [run EXCEPT ![r].child = "opening"]
       \/ \E w \in {"none", "opening"} : run' = [run EXCEPT ![r].child = "ended", ![r].writer = w]
    /\ UNCHANGED fifo

\* Slip: nobody waits for the child.
NoWait(r) ==
    /\ run[r].pc = "waiting"
    /\ Go(r, IF run[r].prog = "byte_changer" THEN "opening" ELSE "show")
    /\ UNCHANGED <<seg, fifo>>

\* wait or waitpid; attach_shm sleeps three seconds and hopes.
Wait(r) ==
    /\ run[r].pc = "waiting"
    /\ run[r].prog = "attach" \/ run[r].child = "ended"
    /\ Go(r, IF run[r].prog = "byte_changer" THEN "opening" ELSE "show")
    /\ UNCHANGED <<seg, fifo>>

\* fopen returns when a process has the FIFO open for writing, and the report is put
\* into the segment that it names.  Without a report the numbers are not initialised:
\* the parent crashes, or overwrites any of its segments.
Report(r) ==
    /\ run[r].pc = "opening"
    /\ \E q \in Runs, w \in {"child", "writer"} :
         /\ run[q][w] = "opening"
         /\ \/ /\ \E k \in 1 .. run[r].num, text \in {"changed", "garbage"} :
                    seg' = [seg EXCEPT ![<<r, k>>].text = text]
               /\ run' = [run EXCEPT ![q][w] = "ended", ![r].pc = "unlink", ![r].answer = <<q, w>>]
            \/ /\ seg' = Without(seg, Seg, Parent(r))
               /\ run' = [run EXCEPT ![q][w] = "ended", ![r].pc = "killed"]
    /\ UNCHANGED fifo

Unlink(r) ==
    /\ run[r].pc = "unlink"
    /\ fifo' = NoRun /\ Go(r, "detach") /\ UNCHANGED seg

\* The contents after the child's edit are printed.
Show(r) ==
    /\ run[r].pc = "show"
    /\ run' = [run EXCEPT ![r].pc = "detach",
                          ![r].shown = [k \in 1 .. run[r].num |-> seg[<<r, k>>].text]]
    /\ UNCHANGED <<seg, fifo>>

-----------------------------------------------------------------------------
(***************************************************************************)
(* The end: byte_changer takes segment by segment, the others detach all   *)
(* of them before they remove the first.                                   *)
(***************************************************************************)

\* Slip: the loop runs to i <= num_segments.
DetachOneMore(r) ==
    /\ run[r].pc = "detach"
    /\ seg' = Without(seg, {Slot(r, run[r].i)}, Parent(r))
    /\ run' = IF run[r].prog = "byte_changer" THEN [run EXCEPT ![r].pc = "remove"]
              ELSE IF run[r].i <= run[r].num THEN [run EXCEPT ![r].i = @ + 1]
              ELSE [run EXCEPT ![r].i = 1, ![r].pc = "remove"]
    /\ UNCHANGED fifo

Detach(r) ==
    /\ run[r].pc = "detach"
    /\ seg' = Without(seg, {Slot(r, run[r].i)}, Parent(r))
    /\ run' = IF run[r].prog = "byte_changer" THEN [run EXCEPT ![r].pc = "remove"]
              ELSE IF run[r].i < run[r].num THEN [run EXCEPT ![r].i = @ + 1]
              ELSE [run EXCEPT ![r].i = 1, ![r].pc = "remove"]
    /\ UNCHANGED fifo

\* Slip: the index does not move.
RemoveAgain(r) ==
    /\ run[r].pc = "remove"
    /\ seg' = Marked(Slot(r, run[r].i))
    /\ Go(r, IF run[r].i = run[r].num THEN "end" ELSE "remove")
    /\ UNCHANGED fifo

Remove(r) ==
    /\ run[r].pc = "remove"
    /\ seg' = Marked(Slot(r, run[r].i))
    /\ run' = IF run[r].i = run[r].num THEN [run EXCEPT ![r].pc = "end"]
              ELSE [run EXCEPT ![r].i = @ + 1,
                               ![r].pc = IF run[r].prog = "byte_changer" THEN "detach" ELSE @]
    /\ UNCHANGED fifo

\* return 0, or for create_segments the end of main, if no pointer made it crash.
Exit(r) ==
    /\ run[r].pc = "end"
    /\ Leave(r, seg, IF run[r].prog = "create" /\ \E k \in 1 .. MAX_SEGMENTS : seg[<<r, k>>].by = {}
                     THEN "killed" ELSE "done")

KillParent(r) == run[r].pc \notin Ended \cup {"start"} /\ Leave(r, seg, "killed")

KillChild(r) == run[r].child \notin {"none", "ended"} /\ ChildExits(r)

KillWriter(r) ==
    /\ run[r].writer = "opening"
    /\ run' = [run EXCEPT ![r].writer = "ended"]
    /\ UNCHANGED <<seg, fifo>>

-----------------------------------------------------------------------------
ParentStep(r) ==
    \/ Get(r) \/ GetFails(r) \/ RemoveOld(r) \/ Regrow(r) \/ RegrowFails(r) \/ Write(r)
    \/ MakeFifo(r) \/ Fork(r) \/ ForkFails(r) \/ Wait(r) \/ Report(r) \/ Unlink(r) \/ Show(r)
    \/ Detach(r) \/ Remove(r) \/ Exit(r)

ChildStep(r) == ChildEdit(r) \/ ChildLeaves(r) \/ Exec(r)

Next ==
    \E r \in Runs :
        \/ ParentStep(r) \/ ChildStep(r)
        \/ Start(r) \/ Ask(r) \/ ChildInput(r)
        \/ KillParent(r) \/ KillChild(r) \/ KillWriter(r)

Spec == Init /\ [][Next]_vars

\* Parents and children run when they can; nobody has to type anything or kill.
FairSpec == Spec /\ \A r \in Runs : WF_vars(ParentStep(r)) /\ WF_vars(ChildStep(r))

-----------------------------------------------------------------------------
(***************************************************************************)
(* Properties.                                                             *)
(***************************************************************************)

TypeOK ==
    /\ \A s \in Seg :
         /\ seg[s].is \in {"no", "live", "removed"}
         /\ seg[s].by \subseteq {Parent(s[1]), Child(s[1])}
         /\ seg[s].text \in {"empty", "filled", "mixed", "changed", "byte", "garbage"}
    /\ \A r \in Runs :
         /\ run[r].num \in 0 .. MAX_SEGMENTS /\ run[r].i \in 1 .. MAX_SEGMENTS
         /\ run[r].slot \in 0 .. run[r].num
         /\ run[r].child \in {"none", "input", "exec", "edit", "opening", "leaving", "ended"}
         /\ run[r].writer \in {"none", "opening", "ended"}
    /\ fifo \in Runs \cup {NoRun}

\* A run that comes to its normal end has removed whatever it made, also the segment
\* that main replaced: what is left is attached to a child and goes with it.  Only
\* create_segments leaves all of its segments behind.
NothingLeft ==
    \A s \in Seg :
        run[s[1]].pc = "done" /\ run[s[1]].prog # "create" =>
            \/ seg[s].is = "no"
            \/ seg[s].is = "removed" /\ seg[s].by = {Child(s[1])}

\* byte_changer never reads the report of its child, for which it waits before it
\* opens the FIFO, nor one that was meant for another run: what it reads comes from
\* a process that its own modify_segment has left behind.
ReportFromOutside ==
    \A r \in Runs : run[r].answer \in {<< >>, <<r, "writer">>}

\* changer prints the contents after the child has made its change, and not before:
\* what was printed is what is in the segments until they go.
ShownIsFinal ==
    \A r \in Runs : run[r].prog = "changer" /\ run[r].pc \in {"detach", "remove", "end"} =>
        \A k \in 1 .. run[r].num :
            seg[<<r, k>>].is # "no" => seg[<<r, k>>].text = run[r].shown[k]

\* A run that waits for its child while the child waits in open for it, or that waits
\* in fopen when no process is left that could write.
Stuck(r) ==
    \/ run[r].pc = "waiting" /\ run[r].child = "opening"
    \/ run[r].pc = "opening" /\ \A q \in Runs : run[q].child # "opening" /\ run[q].writer # "opening"

\* Every run comes to its end unless it waits for input, or is a byte_changer that
\* is stuck.
RunsEnd ==
    \A r \in Runs :
        run[r].pc = "get" ~>
            \/ run[r].pc \in Ended \cup {"ask"}
            \/ run[r].pc = "waiting" /\ run[r].child = "input"
            \/ run[r].prog = "byte_changer" /\ Stuck(r)
=============================================================================
