--------------------------- MODULE SegmentsProofs ---------------------------
(***************************************************************************)
(* Proofs about Segments, for any number of runs, of any of the programs,  *)
(* any number of segments and any room in the table.  All that matters to  *)
(* a run is its own: its record, its segments, and the FIFO as long as it  *)
(* or its child has to do with it.  So the invariant is one of each run    *)
(* (RunOK), next to the types of the table (TableOK).                      *)
(***************************************************************************)
EXTENDS Segments, Sequences, SequenceTheorems, TLAPS

Texts == {"empty", "filled", "mixed", "changed", "byte", "garbage"}

SegRec == [is : {"no", "live", "removed"}, by : SUBSET (Runs \X {"parent", "child"}), text : Texts]

Pcs == {"start", "get", "ask", "replace", "regrow", "write", "mkfifo", "fork", "waiting",
        "opening", "unlink", "show", "detach", "remove", "end", "done", "failed", "killed"}

Answers == {<< >>} \cup (Runs \X {"child", "writer"})

RunRec ==
    [prog : Programs, pc : Pcs, num : 0 .. MAX_SEGMENTS, i : 1 .. MAX_SEGMENTS,
     slot : 0 .. MAX_SEGMENTS, new : BOOLEAN,
     child : {"none", "input", "exec", "edit", "opening", "leaving", "ended"},
     writer : {"none", "opening", "ended"}, answer : Answers, shown : Seq(Texts)]

\* A table in which the segments are with their own run, and none is kept that
\* has been removed and is attached nowhere.
TableOK(table) ==
    /\ table \in [Seg -> SegRec]
    /\ \A s \in Seg :
         /\ table[s].by \subseteq {Parent(s[1]), Child(s[1])}
         /\ table[s].is = "removed" => table[s].by # {}

Typed == TableOK(seg) /\ run \in [Runs -> RunRec] /\ fifo \in Runs \cup {NoRun}

\* Which programs come where, and which numbers they then have.
PlaceOK(r) ==
    /\ run[r].slot <= run[r].num /\ (run[r].pc = "start" => run[r].slot = 0)
    /\ run[r].pc \notin {"start", "failed"} => run[r].i <= run[r].num
    /\ run[r].pc \in {"ask", "replace", "regrow", "write"} => run[r].prog = "main"
    /\ run[r].pc \in {"mkfifo", "opening", "unlink"} => run[r].prog = "byte_changer"
    /\ run[r].pc \in {"fork", "waiting"} => run[r].prog \in {"changer", "byte_changer", "attach"}
    /\ run[r].pc \in {"start", "get", "ask", "replace", "regrow"} => ~run[r].new
    /\ run[r].pc \in {"replace", "regrow", "write"} \/ run[r].new => run[r].slot # 0
    /\ run[r].pc \in {"start", "ask", "replace", "regrow", "write", "mkfifo", "fork", "waiting",
                      "opening", "unlink", "show"} => run[r].i = 1

\* The segments that run r has not made yet.
Unmade(r) ==
    /\ run[r].pc = "start" => \A k \in 0 .. MAX_SEGMENTS : seg[<<r, k>>].is = "no"
    /\ run[r].pc = "get" => \A k \in run[r].i .. MAX_SEGMENTS : seg[<<r, k>>].is = "no"
    /\ run[r].pc \notin {"start", "get", "failed", "killed"} =>
         \A k \in 1 .. MAX_SEGMENTS : k > run[r].num => seg[<<r, k>>].is = "no"
    /\ run[r].pc \notin {"failed", "killed"} /\ ~run[r].new => seg[<<r, 0>>].is = "no"

\* The segments that it has removed: the one that main replaces, those before i, all
\* of them, and at last it is attached to none.
Replaced(r) == run[r].pc = "regrow" \/ run[r].new => seg[<<r, run[r].slot>>].is # "live"

Removing(r) ==
    run[r].pc = "remove" \/ (run[r].pc = "detach" /\ run[r].prog = "byte_changer") =>
        \A k \in 1 .. MAX_SEGMENTS : k < run[r].i => seg[Slot(r, k)].is # "live"

Removed(r) ==
    run[r].pc = "end" /\ run[r].prog # "create" =>
        \A k \in 1 .. run[r].num : seg[Slot(r, k)].is # "live"

Left(r) ==
    run[r].pc = "done" /\ run[r].prog # "create" =>
        \A k \in 0 .. MAX_SEGMENTS :
            seg[<<r, k>>].is # "live" /\ Parent(r) \notin seg[<<r, k>>].by

Gone(r) == Replaced(r) /\ Removing(r) /\ Removed(r) /\ Left(r)

\* Where the child is, and that whoever may open the FIFO does so as long as its run
\* has the name.
ChildOK(r) ==
    /\ run[r].child \in {"exec", "opening"} \/ run[r].writer = "opening" => fifo = r
    /\ run[r].prog = "byte_changer" /\ run[r].pc \in {"fork", "waiting", "opening", "unlink"} => fifo = r
    /\ run[r].child = "edit" => run[r].prog = "attach"
    /\ /\ run[r].prog \in {"changer", "byte_changer"}
       /\ run[r].pc \in {"opening", "unlink", "show", "detach", "remove", "end"}
       => run[r].child = "ended"
    /\ run[r].pc = "unlink" => run[r].writer # "opening"
    /\ run[r].answer \in {<< >>, <<r, "writer">>}

ShownOK(r) ==
    run[r].prog = "changer" /\ run[r].pc \in {"detach", "remove", "end"} =>
        \A k \in 1 .. run[r].num :
            seg[<<r, k>>].is # "no" => seg[<<r, k>>].text = run[r].shown[k]

RunOK(r) == PlaceOK(r) /\ Unmade(r) /\ Gone(r) /\ ChildOK(r) /\ ShownOK(r)

Inv == Typed /\ \A r \in Runs : RunOK(r)

\* A step does not touch the segments of other runs.
Only(r) == TableOK(seg)' /\ \A s \in Seg : s[1] # r => seg'[s] = seg[s]

\* A step makes no segment of run r, and attaches its parent to none.
Calm(r) ==
    \A k \in 0 .. MAX_SEGMENTS :
        /\ seg[<<r, k>>].is = "no" => seg'[<<r, k>>].is = "no"
        /\ seg'[<<r, k>>].is = "live" => seg[<<r, k>>].is = "live"
        /\ Parent(r) \in seg'[<<r, k>>].by => Parent(r) \in seg[<<r, k>>].by

-----------------------------------------------------------------------------
(***************************************************************************)
(* The operations on the table.                                            *)
(***************************************************************************)

\* A process detaches segments: those that are not attached by it stay as they are, and
\* those that go have been removed.
LEMMA WithoutFacts ==
    ASSUME NEW table, TableOK(table), NEW S, NEW q \in Runs \X {"parent", "child"}
    PROVE  /\ TableOK(Without(table, S, q))
           /\ \A s \in Seg :
                /\ q \notin table[s].by => Without(table, S, q)[s] = table[s]
                /\ table[s].is = "no" => Without(table, S, q)[s].is = "no"
                /\ Without(table, S, q)[s].is = "live" => table[s].is = "live"
                /\ Without(table, S, q)[s].is # "no" =>
                     Without(table, S, q)[s].text = table[s].text
                /\ Without(table, S, q)[s].by \subseteq table[s].by
                /\ s \in S => q \notin Without(table, S, q)[s].by
<1>1. ASSUME NEW s \in Seg
      PROVE  /\ Without(table, S, q)[s] \in SegRec
             /\ Without(table, S, q)[s].by \subseteq {Parent(s[1]), Child(s[1])}
             /\ Without(table, S, q)[s].is = "removed" => Without(table, S, q)[s].by # {}
             /\ q \notin table[s].by => Without(table, S, q)[s] = table[s]
             /\ table[s].is = "no" => Without(table, S, q)[s].is = "no"
             /\ Without(table, S, q)[s].is = "live" => table[s].is = "live"
             /\ Without(table, S, q)[s].is # "no" =>
                  Without(table, S, q)[s].text = table[s].text
             /\ Without(table, S, q)[s].by \subseteq table[s].by
             /\ s \in S => q \notin Without(table, S, q)[s].by
  <2> DEFINE x == [table[s] EXCEPT !.by = @ \ {q}]
  <2>1. /\ table[s] \in SegRec /\ table[s].by \subseteq {Parent(s[1]), Child(s[1])}
        /\ table[s].is = "removed" => table[s].by # {}
    BY DEF TableOK
  <2>2. Without(table, S, q)[s] = IF s \in S THEN Settle(x) ELSE table[s]
    BY DEF Without
  <2>3. /\ x \in SegRec /\ x.is = table[s].is /\ x.text = table[s].text
        /\ x.by = table[s].by \ {q}
    BY <2>1 DEF SegRec
  <2>4. q \notin table[s].by => x = table[s]
    BY <2>1 DEF SegRec
  <2>5. NoSegment \in SegRec /\ NoSegment.is = "no" /\ NoSegment.by = {}
    BY DEF NoSegment, SegRec, Texts
  <2> HIDE DEF x
  <2>6. CASE s \in S /\ x.is = "removed" /\ x.by = {}
    <3>1. Without(table, S, q)[s] = NoSegment /\ q \in table[s].by
      BY <2>1, <2>2, <2>3, <2>6 DEF Settle
    <3> QED BY <2>3, <2>5, <2>6, <3>1
  <2>7. CASE s \in S /\ ~(x.is = "removed" /\ x.by = {})
    <3>1. Without(table, S, q)[s] = x
      BY <2>2, <2>7 DEF Settle
    <3> QED BY <2>1, <2>3, <2>4, <2>7, <3>1
  <2>8. CASE s \notin S
    BY <2>1, <2>2, <2>8
  <2> QED BY <2>6, <2>7, <2>8
<1>2. Without(table, S, q) \in [Seg -> SegRec]
  BY <1>1 DEF Without
<1> QED BY <1>1, <1>2 DEF TableOK

\* A segment is removed.
LEMMA MarkedFacts ==
    ASSUME TableOK(seg), NEW r \in Runs, NEW j \in 0 .. MAX_SEGMENTS, seg' = Marked(<<r, j>>)
    PROVE  Only(r) /\ Calm(r) /\ seg'[<<r, j>>].is # "live"
           /\ \A k \in 0 .. MAX_SEGMENTS : seg'[<<r, k>>].is # "no" => seg'[<<r, k>>].text = seg[<<r, k>>].text
<1> DEFINE s == <<r, j>>
           x == [seg[s] EXCEPT !.is = "removed"]
<1>1. s \in Seg /\ s[1] = r
  BY DEF Seg
<1>2. /\ seg[s] \in SegRec /\ seg[s].by \subseteq {Parent(s[1]), Child(s[1])}
      /\ seg \in [Seg -> SegRec]
  BY <1>1 DEF TableOK
<1>3. x \in SegRec /\ x.is = "removed" /\ x.by = seg[s].by /\ x.text = seg[s].text
  BY <1>2 DEF SegRec
<1>4. NoSegment \in SegRec /\ NoSegment.is = "no" /\ NoSegment.by = {}
  BY DEF NoSegment, SegRec, Texts
<1>5. seg' = [seg EXCEPT ![s] = IF seg[s].is = "no" THEN seg[s] ELSE Settle(x)]
  BY <1>1, <1>2 DEF Marked
<1> HIDE DEF x, s
<1>6. /\ seg'[s] \in SegRec /\ seg'[s].by \subseteq seg[s].by /\ seg'[s].is # "live"
      /\ seg'[s].is = "removed" => seg'[s].by # {}
      /\ seg[s].is = "no" => seg'[s].is = "no"
      /\ seg'[s].is # "no" => seg'[s].text = seg[s].text
  BY <1>1, <1>2, <1>3, <1>4, <1>5 DEF Settle
<1>7. /\ seg' \in [Seg -> SegRec]
      /\ \A t \in Seg : t # s => seg'[t] = seg[t]
  BY <1>1, <1>2, <1>5, <1>6
<1>8. Only(r)
  BY <1>1, <1>2, <1>6, <1>7 DEF Only, TableOK
<1>9. \A k \in 0 .. MAX_SEGMENTS : <<r, k>> \in Seg
  BY DEF Seg
<1>10. Calm(r)
  BY <1>6, <1>7, <1>9 DEF Calm
<1> QED BY <1>6, <1>7, <1>8, <1>9, <1>10 DEF s

\* A segment is made.
LEMMA MadeFacts ==
    ASSUME TableOK(seg), NEW r \in Runs, NEW j \in 0 .. MAX_SEGMENTS,
           NEW by \in SUBSET {Parent(r)}, NEW text \in Texts,
           NEW table, table = Made(<<r, j>>, by, text)
    PROVE  /\ TableOK(table)
           /\ \A s \in Seg : s # <<r, j>> => table[s] = seg[s]
           /\ \A s \in Seg : s[1] # r => table[s] = seg[s]
<1>1. <<r, j>> \in Seg /\ seg \in [Seg -> SegRec]
  BY DEF Seg, TableOK
<1>2. [is |-> "live", by |-> by, text |-> text] \in SegRec
  BY DEF SegRec, Parent
<1> QED BY <1>1, <1>2 DEF Made, TableOK

\* The text of a segment is changed.
LEMMA EditFacts ==
    ASSUME TableOK(seg), NEW r \in Runs, NEW j \in 0 .. MAX_SEGMENTS, NEW text \in Texts,
           seg' = [seg EXCEPT ![<<r, j>>].text = text]
    PROVE  Only(r) /\ Calm(r)
<1>1. <<r, j>> \in Seg /\ seg \in [Seg -> SegRec]
  BY DEF Seg, TableOK
<1>2. /\ seg' \in [Seg -> SegRec]
      /\ \A s \in Seg : seg'[s].is = seg[s].is /\ seg'[s].by = seg[s].by
      /\ \A s \in Seg : s # <<r, j>> => seg'[s] = seg[s]
  BY <1>1 DEF SegRec
<1>3. Only(r)
  BY <1>1, <1>2 DEF Only, TableOK
<1>4. \A k \in 0 .. MAX_SEGMENTS : <<r, k>> \in Seg
  BY DEF Seg
<1> QED BY <1>2, <1>3, <1>4 DEF Calm

\* A process of run r detaches segments.
LEMMA DetachFacts ==
    ASSUME TableOK(seg), NEW r \in Runs, NEW q \in {Parent(r), Child(r)}, NEW S,
           seg' = Without(seg, S, q)
    PROVE  Only(r) /\ Calm(r)
           /\ \A k \in 0 .. MAX_SEGMENTS : seg'[<<r, k>>].is # "no" => seg'[<<r, k>>].text = seg[<<r, k>>].text
<1>1. q \in Runs \X {"parent", "child"}
  BY DEF Parent, Child
<1>2. \A s \in Seg : s[1] # r => q \notin seg[s].by
  BY DEF TableOK, Parent, Child
<1>3. \A k \in 0 .. MAX_SEGMENTS : <<r, k>> \in Seg
  BY DEF Seg
<1>4. Only(r)
  BY <1>1, <1>2, WithoutFacts DEF Only
<1>5. Calm(r)
  BY <1>1, <1>3, WithoutFacts DEF Calm
<1> QED BY <1>1, <1>3, <1>4, <1>5, WithoutFacts

-----------------------------------------------------------------------------
(***************************************************************************)
(* What a step of run r has to show for itself, and that this is enough.   *)
(***************************************************************************)

Own(r) ==
    /\ Only(r)
    /\ run' \in [Runs -> RunRec] /\ fifo' \in Runs \cup {NoRun}
    /\ \A q \in Runs \ {r} : run'[q] = run[q] /\ (fifo = q => fifo' = q)
    /\ RunOK(r)'

\* What holds of another run is about what is its own.
LEMMA OthersKeep ==
    ASSUME Inv, NEW r \in Runs, Own(r)
    PROVE  Inv'
<1>1. Typed'
  BY DEF Own, Only, Typed
<1>2. ASSUME NEW q \in Runs PROVE RunOK(q)'
  <2>1. CASE q = r
    BY <2>1 DEF Own
  <2>2. CASE q # r
    <3>1. run'[q] = run[q] /\ (fifo = q => fifo' = q) /\ RunOK(q)
      BY <2>2 DEF Own, Inv
    <3>2. \A k \in 0 .. MAX_SEGMENTS : seg'[<<q, k>>] = seg[<<q, k>>]
      BY <2>2 DEF Own, Only, Seg
    <3>3. run[q] \in RunRec /\ MAX_SEGMENTS \in Nat
      BY SegmentsAssumption DEF Inv, Typed
    <3>4. PlaceOK(q)'
      BY <3>1 DEF RunOK, PlaceOK
    <3>5. Unmade(q)'
      BY <3>1, <3>2, <3>3 DEF RunOK, Unmade, RunRec
    <3>6. Slot(q, 1)' = Slot(q, 1) /\ \A k \in 1 .. MAX_SEGMENTS : seg'[Slot(q, k)'] = seg[Slot(q, k)]
      BY <3>1, <3>2, <3>3 DEF Slot, RunRec
    <3>7. Gone(q)'
      BY <3>1, <3>2, <3>3, <3>6 DEF RunOK, Gone, Replaced, Removing, Removed, Left, RunRec, Parent
    <3>8. ChildOK(q)'
      BY <3>1 DEF RunOK, ChildOK
    <3>9. ShownOK(q)'
      BY <3>1, <3>2, <3>3 DEF RunOK, ShownOK, RunRec
    <3> QED BY <3>4, <3>5, <3>7, <3>8, <3>9 DEF RunOK
  <2> QED BY <2>1, <2>2
<1> QED BY <1>1, <1>2 DEF Inv

\* Nothing has been made at first.
LEMMA InvInit == SegmentsAssumption /\ Init => Inv
<1> SUFFICES ASSUME SegmentsAssumption, Init PROVE Inv
  OBVIOUS
<1>1. TableOK(seg)
  BY DEF Init, TableOK, NoSegment, SegRec, Texts
<1>2. \A p \in Programs : NewRun(p) \in RunRec
  <2>1. << >> \in Seq(Texts) /\ << >> \in Answers /\ "start" \in Pcs
    BY DEF Answers, Pcs
  <2>2. 0 \in 0 .. MAX_SEGMENTS /\ 1 \in 1 .. MAX_SEGMENTS
    BY DEF SegmentsAssumption
  <2> QED BY <2>1, <2>2 DEF NewRun, RunRec
<1>3. Typed
  BY <1>1, <1>2 DEF Init, Typed
<1>4. ASSUME NEW r \in Runs PROVE RunOK(r)
  <2>1. PICK p \in Programs : run[r] = NewRun(p)
    BY DEF Init
  <2>2. \A k \in 0 .. MAX_SEGMENTS : seg[<<r, k>>].is = "no"
    BY DEF Init, Seg, NoSegment
  <2>3. PlaceOK(r)
    BY <2>1 DEF NewRun, PlaceOK
  <2>4. Unmade(r)
    BY <2>1, <2>2 DEF NewRun, Unmade, SegmentsAssumption
  <2>5. Gone(r)
    BY <2>1 DEF NewRun, Gone, Replaced, Removing, Removed, Left
  <2>6. ChildOK(r) /\ ShownOK(r)
    BY <2>1 DEF NewRun, ChildOK, ShownOK
  <2> QED BY <2>3, <2>4, <2>5, <2>6 DEF RunOK
<1> QED BY <1>3, <1>4 DEF Inv

\* A run moves on.
LEMMA GoFacts ==
    ASSUME Typed, NEW r \in Runs, NEW to \in Pcs, run' = [run EXCEPT ![r].pc = to]
    PROVE  /\ run' \in [Runs -> RunRec]
           /\ \A q \in Runs \ {r} : run'[q] = run[q]
           /\ run'[r].pc = to
           /\ UNCHANGED <<run[r].prog, run[r].num, run[r].i, run[r].slot, run[r].new,
                          run[r].child, run[r].writer, run[r].answer, run[r].shown>>
BY DEF Typed, RunRec

\* A run ends before its time.
LEMMA LeaveKeeps ==
    ASSUME Typed, NEW r \in Runs, RunOK(r), NEW table, TableOK(table),
           \A s \in Seg : s[1] # r => table[s] = seg[s],
           run[r].new => table[<<r, run[r].slot>>].is # "live",
           NEW how \in {"failed", "killed"},
           how = "killed" => run[r].pc \notin {"start", "failed"},
           Leave(r, table, how)
    PROVE  Own(r)
<1>1. how \in Pcs /\ run' = [run EXCEPT ![r].pc = how] /\ fifo' = fifo
      /\ seg' = Without(table, Seg, Parent(r)) /\ Parent(r) \in Runs \X {"parent", "child"}
  BY DEF Leave, Pcs, Parent
<1>2. /\ run' \in [Runs -> RunRec]
      /\ \A q \in Runs \ {r} : run'[q] = run[q]
      /\ run'[r].pc = how
      /\ UNCHANGED <<run[r].prog, run[r].num, run[r].i, run[r].slot, run[r].new,
                     run[r].child, run[r].writer, run[r].answer, run[r].shown>>
  BY <1>1, GoFacts
<1>3. Only(r)
  <2>1. \A s \in Seg : s[1] # r => Parent(r) \notin table[s].by
    BY DEF TableOK, Parent, Child
  <2> QED BY <1>1, <2>1, WithoutFacts DEF Only
<1>4. run[r] \in RunRec /\ RunOK(r)
  BY DEF Typed
<1>5. PlaceOK(r)'
  BY <1>2, <1>4 DEF RunOK, PlaceOK
<1>6. Unmade(r)'
  BY <1>2 DEF Unmade
<1>7. Gone(r)'
  <2>1. <<r, run[r].slot>> \in Seg
    BY <1>4 DEF RunRec, Seg
  <2>2. run[r].new => seg'[<<r, run[r].slot>>].is # "live"
    BY <1>1, <2>1, WithoutFacts
  <2> QED BY <1>2, <2>2 DEF Gone, Replaced, Removing, Removed, Left
<1>8. ChildOK(r)' /\ ShownOK(r)'
  BY <1>1, <1>2, <1>4 DEF RunOK, ChildOK, ShownOK
<1> QED BY <1>1, <1>2, <1>3, <1>5, <1>6, <1>7, <1>8, <1>4 DEF Own, RunOK, Typed

\* Past Get, a step that makes no segment leaves those alone that have not been made,
\* and the one that main has replaced.
LEMMA LateKeeps ==
    ASSUME Typed, NEW r \in Runs, RunOK(r), Calm(r),
           UNCHANGED <<run[r].prog, run[r].num, run[r].slot, run[r].new>>,
           run[r].pc \notin {"start", "get", "failed", "killed"},
           run'[r].pc \notin {"start", "get", "regrow"}
    PROVE  Unmade(r)' /\ Replaced(r)'
<1>1. run[r] \in RunRec /\ Unmade(r) /\ Replaced(r)
  BY DEF Typed, RunOK, Gone
<1>2. MAX_SEGMENTS \in Nat
  BY SegmentsAssumption
<1>3. run[r].slot \in 0 .. MAX_SEGMENTS /\ run[r].num \in 0 .. MAX_SEGMENTS /\ 0 \in 0 .. MAX_SEGMENTS
  BY <1>1, <1>2 DEF RunRec
<1>4. Replaced(r)'
  BY <1>1, <1>3 DEF Replaced, Calm
<1>5. \A k \in 1 .. MAX_SEGMENTS : k \in 0 .. MAX_SEGMENTS
  BY <1>2
<1>6. Unmade(r)'
  BY <1>1, <1>3, <1>5 DEF Unmade, Calm
<1> QED BY <1>4, <1>6

\* Neither does a step of the child that makes no segment disturb its parent.
LEMMA ChildKeeps ==
    ASSUME Typed, NEW r \in Runs, RunOK(r), Calm(r),
           UNCHANGED <<run[r].prog, run[r].pc, run[r].num, run[r].i, run[r].slot, run[r].new>>
    PROVE  PlaceOK(r)' /\ Unmade(r)' /\ Gone(r)'
<1>1. run[r] \in RunRec /\ PlaceOK(r) /\ Unmade(r) /\ Gone(r)
  BY DEF Typed, RunOK
<1>2. MAX_SEGMENTS \in Nat
  BY SegmentsAssumption
<1>3. /\ run[r].slot \in 0 .. MAX_SEGMENTS /\ run[r].num \in 0 .. MAX_SEGMENTS
      /\ run[r].i \in 1 .. MAX_SEGMENTS /\ 0 \in 0 .. MAX_SEGMENTS
  BY <1>1, <1>2 DEF RunRec
<1>4. PlaceOK(r)'
  BY <1>1 DEF PlaceOK
<1>5. \A k \in 1 .. MAX_SEGMENTS : k \in 0 .. MAX_SEGMENTS
  BY <1>2
<1>6. Unmade(r)'
  <2>1. \A k \in run[r].i .. MAX_SEGMENTS : k \in 0 .. MAX_SEGMENTS
    BY <1>2, <1>3
  <2> QED BY <1>1, <1>3, <1>5, <2>1 DEF Unmade, Calm
<1>7. ASSUME NEW k \in 1 .. MAX_SEGMENTS
      PROVE  Slot(r, k)' = Slot(r, k) /\ (seg'[Slot(r, k)].is = "live" => seg[Slot(r, k)].is = "live")
  BY <1>3, <1>5 DEF Slot, Calm
<1>8. \A k \in 1 .. run[r].num : k \in 1 .. MAX_SEGMENTS
  BY <1>2, <1>3
<1>9. Replaced(r)' /\ Removing(r)' /\ Removed(r)' /\ Left(r)'
  <2>1. Replaced(r)'
    BY <1>1, <1>3 DEF Gone, Replaced, Calm
  <2>2. Removing(r)'
    BY <1>1, <1>7 DEF Gone, Removing
  <2>3. Removed(r)'
    BY <1>1, <1>7, <1>8 DEF Gone, Removed
  <2>4. Left(r)'
    BY <1>1 DEF Gone, Left, Calm
  <2> QED BY <2>1, <2>2, <2>3, <2>4
<1> QED BY <1>4, <1>6, <1>9 DEF Gone

-----------------------------------------------------------------------------
(***************************************************************************)
(* Making the segments.                                                    *)
(***************************************************************************)

\* The number of segments is typed in, or refused.
LEMMA StartKeeps == ASSUME Inv, NEW r \in Runs, Start(r) PROVE Own(r)
<1>1. Typed /\ RunOK(r) /\ run[r] \in RunRec /\ run[r].prog \in Programs
  BY DEF Inv, Typed, RunRec
<1>2. MAX_SEGMENTS \in Nat \ {0}
  BY SegmentsAssumption
<1>3. PICK k \in Numbers(run[r].prog) :
        run' = [run EXCEPT ![r].num = k, ![r].pc = IF k = 0 THEN "failed" ELSE "get"]
  BY DEF Start
<1>4. k \in 0 .. MAX_SEGMENTS
  BY <1>2 DEF Numbers
<1>5. run[r].pc = "start" /\ seg' = seg /\ fifo' = fifo
  BY DEF Start
<1>6. /\ run' \in [Runs -> RunRec]
      /\ \A q \in Runs \ {r} : run'[q] = run[q]
      /\ run'[r].num = k /\ run'[r].pc = IF k = 0 THEN "failed" ELSE "get"
      /\ UNCHANGED <<run[r].prog, run[r].i, run[r].slot, run[r].new,
                     run[r].child, run[r].writer, run[r].answer, run[r].shown>>
  BY <1>1, <1>3, <1>4 DEF Typed, RunRec, Pcs
<1>7. run[r].i = 1 /\ run[r].slot = 0 /\ ~run[r].new
  BY <1>1, <1>5 DEF RunOK, PlaceOK
<1>8. PlaceOK(r)'
  BY <1>4, <1>6, <1>7 DEF PlaceOK
<1>9. Unmade(r)'
  <2>1. \A j \in 0 .. MAX_SEGMENTS : seg'[<<r, j>>].is = "no"
    BY <1>1, <1>5 DEF RunOK, Unmade
  <2> QED BY <1>2, <1>6, <1>7, <2>1 DEF Unmade
<1>10. Gone(r)' /\ ShownOK(r)'
  BY <1>6, <1>7 DEF Gone, Replaced, Removing, Removed, Left, ShownOK
<1>11. ChildOK(r)'
  BY <1>1, <1>5, <1>6 DEF RunOK, ChildOK
<1>12. Only(r)
  BY <1>1, <1>5 DEF Only, Typed
<1> QED BY <1>1, <1>5, <1>6, <1>8, <1>9, <1>10, <1>11, <1>12 DEF Own, RunOK, Typed

\* The next segment is made; after the last one the program goes its own way.
LEMMA GetKeeps == ASSUME Inv, NEW r \in Runs, Get(r) PROVE Own(r)
<1>1. Typed /\ RunOK(r) /\ run[r] \in RunRec /\ run[r].prog \in Programs
  BY DEF Inv, Typed, RunRec
<1>2. MAX_SEGMENTS \in Nat \ {0} /\ Programs \subseteq {"main", "changer", "byte_changer", "mod_create", "create", "attach"}
  BY SegmentsAssumption
<1>3. PICK by \in {{Parent(r)}} \cup IF run[r].prog = "create" THEN {{}} ELSE {} :
        seg' = Made(<<r, run[r].i>>, by, "filled")
  BY DEF Get
<1>4. /\ run[r].i \in 1 .. MAX_SEGMENTS /\ run[r].num \in 0 .. MAX_SEGMENTS
      /\ run[r].i \in 0 .. MAX_SEGMENTS
      /\ run[r].i <= run[r].num /\ run[r].pc = "get" /\ ~run[r].new /\ fifo' = fifo
  BY <1>1, <1>2 DEF RunOK, PlaceOK, Get, RunRec
<1>5. /\ TableOK(seg')
      /\ \A s \in Seg : s # <<r, run[r].i>> => seg'[s] = seg[s]
  <2>1. by \subseteq {Parent(r)} /\ "filled" \in Texts
    BY DEF Texts
  <2>2. TableOK(seg) /\ by \in SUBSET {Parent(r)}
    BY <1>1, <2>1 DEF Typed
  <2>3. ASSUME NEW j \in 0 .. MAX_SEGMENTS, j = run[r].i
        PROVE  TableOK(seg') /\ \A s \in Seg : s # <<r, j>> => seg'[s] = seg[s]
    <3>1. seg' = Made(<<r, j>>, by, "filled")
      BY <1>3, <2>3
    <3>2. TableOK(seg) /\ by \in SUBSET {Parent(r)} /\ "filled" \in Texts
      BY <2>1, <2>2
    <3> QED BY <3>1, <3>2, MadeFacts
  <2> QED BY <1>4, <2>3
<1>6. Only(r)
  BY <1>5 DEF Only
<1>7. \A k \in 0 .. MAX_SEGMENTS : k # run[r].i => seg'[<<r, k>>] = seg[<<r, k>>]
  BY <1>5 DEF Seg
<1>8. CASE run[r].i < run[r].num
  <2>1. run' = [run EXCEPT ![r].i = @ + 1]
    BY <1>8 DEF Get
  <2>2. run[r].i + 1 \in 1 .. MAX_SEGMENTS /\ run[r].i + 1 <= run[r].num
    BY <1>2, <1>4, <1>8
  <2>3. /\ run' \in [Runs -> RunRec]
        /\ \A q \in Runs \ {r} : run'[q] = run[q]
        /\ run'[r].i = run[r].i + 1
        /\ UNCHANGED <<run[r].prog, run[r].pc, run[r].num, run[r].slot, run[r].new,
                       run[r].child, run[r].writer, run[r].answer, run[r].shown>>
    BY <1>1, <2>1, <2>2 DEF Typed, RunRec
  <2>4. PlaceOK(r)'
    BY <1>1, <1>4, <2>2, <2>3 DEF RunOK, PlaceOK
  <2>5. Unmade(r)'
    <3>1. \A k \in run[r].i + 1 .. MAX_SEGMENTS :
             k \in run[r].i .. MAX_SEGMENTS /\ k \in 0 .. MAX_SEGMENTS /\ k # run[r].i
      BY <1>2, <1>4
    <3>2. 0 \in 0 .. MAX_SEGMENTS /\ 0 # run[r].i
      BY <1>2, <1>4
    <3> QED BY <1>1, <1>4, <1>7, <2>3, <3>1, <3>2 DEF RunOK, Unmade
  <2>6. Gone(r)' /\ ShownOK(r)'
    BY <1>4, <2>3 DEF Gone, Replaced, Removing, Removed, Left, ShownOK
  <2>7. ChildOK(r)'
    BY <1>1, <1>4, <2>3 DEF RunOK, ChildOK
  <2> QED BY <1>1, <1>4, <1>6, <2>3, <2>4, <2>5, <2>6, <2>7 DEF Own, RunOK, Typed
<1>9. CASE ~(run[r].i < run[r].num)
  <2>1. run' = [run EXCEPT ![r].i = 1, ![r].pc = AfterGet(run[r].prog)]
    BY <1>9 DEF Get
  <2>2. /\ run[r].prog = "main" => AfterGet(run[r].prog) = "ask"
        /\ run[r].prog \in {"changer", "attach"} => AfterGet(run[r].prog) = "fork"
        /\ run[r].prog = "byte_changer" => AfterGet(run[r].prog) = "mkfifo"
        /\ run[r].prog = "mod_create" => AfterGet(run[r].prog) = "detach"
        /\ run[r].prog = "create" => AfterGet(run[r].prog) = "end"
    BY DEF AfterGet
  <2>3. AfterGet(run[r].prog) \in {"ask", "fork", "mkfifo", "detach", "end"}
    BY <1>1, <1>2, <2>2
  <2>4. /\ run' \in [Runs -> RunRec]
        /\ \A q \in Runs \ {r} : run'[q] = run[q]
        /\ run'[r].i = 1 /\ run'[r].pc = AfterGet(run[r].prog)
        /\ UNCHANGED <<run[r].prog, run[r].num, run[r].slot, run[r].new,
                       run[r].child, run[r].writer, run[r].answer, run[r].shown>>
    <3> DEFINE to == AfterGet(run[r].prog)
    <3>1. to \in Pcs /\ 1 \in 1 .. MAX_SEGMENTS
      BY <1>2, <2>3 DEF Pcs
    <3>2. run' = [run EXCEPT ![r].i = 1, ![r].pc = to]
      BY <2>1
    <3> HIDE DEF to
    <3>3. /\ run' \in [Runs -> RunRec]
          /\ \A q \in Runs \ {r} : run'[q] = run[q]
          /\ run'[r].i = 1 /\ run'[r].pc = to
          /\ UNCHANGED <<run[r].prog, run[r].num, run[r].slot, run[r].new,
                         run[r].child, run[r].writer, run[r].answer, run[r].shown>>
      BY <1>1, <3>1, <3>2 DEF Typed, RunRec
    <3> QED BY <3>3 DEF to
  <2>5. run[r].i = run[r].num /\ 1 <= run[r].num
    BY <1>2, <1>4, <1>9
  <2>6. PlaceOK(r)'
    BY <1>1, <1>2, <1>4, <2>2, <2>3, <2>4, <2>5 DEF RunOK, PlaceOK
  <2>7. Unmade(r)'
    <3>1. \A k \in 1 .. MAX_SEGMENTS : k > run[r].num =>
             k \in run[r].i .. MAX_SEGMENTS /\ k \in 0 .. MAX_SEGMENTS /\ k # run[r].i
      BY <1>2, <1>4, <2>5
    <3>2. 0 \in 0 .. MAX_SEGMENTS /\ 0 # run[r].i
      BY <1>2, <1>4
    <3> QED BY <1>1, <1>4, <1>7, <2>3, <2>4, <3>1, <3>2 DEF RunOK, Unmade
  <2>8. Gone(r)'
    <3>1. run'[r].pc = "end" => run[r].prog = "create"
      BY <1>1, <1>2, <2>2, <2>4
    <3>2. \A k \in 1 .. MAX_SEGMENTS : ~(k < 1)
      BY <1>2
    <3> QED BY <1>4, <2>3, <2>4, <3>1, <3>2 DEF Gone, Replaced, Removing, Removed, Left
  <2>9. ChildOK(r)' /\ ShownOK(r)'
    <3>1. run[r].prog \in {"changer", "byte_changer"} => run'[r].pc \in {"fork", "mkfifo"}
      BY <2>2, <2>4
    <3>2. run[r].prog = "byte_changer" => run'[r].pc = "mkfifo"
      BY <2>2, <2>4
    <3> QED BY <1>1, <1>4, <2>3, <2>4, <3>1, <3>2 DEF RunOK, ChildOK, ShownOK
  <2> QED BY <1>1, <1>4, <1>6, <2>4, <2>6, <2>7, <2>8, <2>9 DEF Own, RunOK, Typed
<1> QED BY <1>8, <1>9

\* What cannot be made ends the run, and what has been made stays.
LEMMA GetFailsKeeps == ASSUME Inv, NEW r \in Runs, GetFails(r) PROVE Own(r)
<1>1. Typed /\ RunOK(r) /\ TableOK(seg) /\ run[r].i \in 0 .. MAX_SEGMENTS
  BY SegmentsAssumption DEF Inv, Typed, RunRec
<1>2. ~run[r].new
  BY <1>1 DEF GetFails, RunOK, PlaceOK
<1>3. CASE Leave(r, seg, "failed")
  BY <1>1, <1>2, <1>3, LeaveKeeps
<1>4. ASSUME NEW j \in 0 .. MAX_SEGMENTS, j = run[r].i,
             Leave(r, Made(<<r, j>>, {}, "empty"), "failed")
      PROVE  Own(r)
  <2> DEFINE table == Made(<<r, j>>, {}, "empty")
  <2>1. {} \in SUBSET {Parent(r)} /\ "empty" \in Texts
    BY DEF Texts
  <2>2. Leave(r, table, "failed") /\ table = Made(<<r, j>>, {}, "empty")
    BY <1>4
  <2> HIDE DEF table
  <2>3. TableOK(table) /\ \A s \in Seg : s[1] # r => table[s] = seg[s]
    <3>1. TableOK(seg) /\ j \in 0 .. MAX_SEGMENTS
      BY <1>1, <1>4
    <3> QED BY <3>1, <2>1, <2>2, MadeFacts
  <2> QED BY <1>1, <1>2, <2>2, <2>3, LeaveKeeps
<1> QED BY <1>1, <1>3, <1>4 DEF GetFails

-----------------------------------------------------------------------------
(***************************************************************************)
(* main.                                                                   *)
(***************************************************************************)

\* A segment is chosen that the run has.
LEMMA AskKeeps == ASSUME Inv, NEW r \in Runs, Ask(r) PROVE Own(r)
<1>1. Typed /\ RunOK(r) /\ TableOK(seg) /\ run[r] \in RunRec
  BY DEF Inv, Typed
<1>2. run[r].pc = "ask" /\ ~run[r].new /\ run[r].prog = "main" /\ run[r].i = 1
  BY <1>1 DEF Ask, RunOK, PlaceOK
<1>3. CASE Leave(r, seg, "failed")
  BY <1>1, <1>2, <1>3, LeaveKeeps
<1>4. ASSUME NEW k \in 1 .. run[r].num, NEW to \in {"write", "replace"},
             run' = [run EXCEPT ![r].slot = k, ![r].pc = to], UNCHANGED <<seg, fifo>>
      PROVE  Own(r)
  <2>1. k \in 0 .. MAX_SEGMENTS /\ k <= run[r].num /\ k # 0 /\ to \in Pcs
    BY <1>1, SegmentsAssumption DEF RunRec, Pcs
  <2>2. /\ run' \in [Runs -> RunRec]
        /\ \A q \in Runs \ {r} : run'[q] = run[q]
        /\ run'[r].slot = k /\ run'[r].pc = to
        /\ UNCHANGED <<run[r].prog, run[r].num, run[r].i, run[r].new,
                       run[r].child, run[r].writer, run[r].answer, run[r].shown>>
    BY <1>1, <1>4, <2>1 DEF Typed, RunRec
  <2>3. PlaceOK(r)'
    BY <1>1, <1>2, <2>1, <2>2 DEF RunOK, PlaceOK
  <2>4. Unmade(r)' /\ Gone(r)'
    BY <1>1, <1>2, <1>4, <2>2 DEF RunOK, Unmade, Gone, Replaced, Removing, Removed, Left
  <2>5. ChildOK(r)' /\ ShownOK(r)'
    BY <1>1, <1>2, <1>4, <2>2 DEF RunOK, ChildOK, ShownOK
  <2>6. Only(r)
    BY <1>1, <1>4 DEF Only
  <2> QED BY <1>1, <1>4, <2>2, <2>3, <2>4, <2>5, <2>6 DEF Own, RunOK, Typed
<1> QED BY <1>3, <1>4 DEF Ask

\* The segment that is replaced is not live from then on.
LEMMA RemoveOldKeeps == ASSUME Inv, NEW r \in Runs, RemoveOld(r) PROVE Own(r)
<1>1. Typed /\ RunOK(r) /\ TableOK(seg) /\ run[r] \in RunRec
  BY DEF Inv, Typed
<1>2. /\ run[r].pc = "replace" /\ ~run[r].new /\ run[r].prog = "main" /\ run[r].i = 1
      /\ fifo' = fifo /\ run' = [run EXCEPT ![r].pc = "regrow"]
  BY <1>1 DEF RemoveOld, Go, RunOK, PlaceOK
<1>3. ASSUME NEW j \in 0 .. MAX_SEGMENTS, j = run[r].slot
      PROVE  Only(r) /\ Calm(r) /\ seg'[<<r, j>>].is # "live"
  <2>1. seg' = Marked(<<r, j>>)
    BY <1>3 DEF RemoveOld
  <2> QED BY <1>1, <2>1, MarkedFacts
<1>4. Only(r) /\ Calm(r) /\ seg'[<<r, run[r].slot>>].is # "live"
  BY <1>1, <1>3 DEF RunRec
<1>5. /\ run' \in [Runs -> RunRec]
      /\ \A q \in Runs \ {r} : run'[q] = run[q]
      /\ run'[r].pc = "regrow"
      /\ UNCHANGED <<run[r].prog, run[r].num, run[r].i, run[r].slot, run[r].new,
                     run[r].child, run[r].writer, run[r].answer, run[r].shown>>
  BY <1>1, <1>2, GoFacts DEF Pcs
<1>6. PlaceOK(r)'
  BY <1>1, <1>2, <1>5 DEF RunOK, PlaceOK
<1>7. Unmade(r)'
  <2>1. \A k \in 1 .. MAX_SEGMENTS : k \in 0 .. MAX_SEGMENTS
    BY SegmentsAssumption
  <2>2. 0 \in 0 .. MAX_SEGMENTS
    BY SegmentsAssumption
  <2> QED BY <1>1, <1>2, <1>4, <1>5, <2>1, <2>2 DEF RunOK, Unmade, Calm
<1>8. Gone(r)'
  BY <1>4, <1>5 DEF Gone, Replaced, Removing, Removed, Left
<1>9. ChildOK(r)' /\ ShownOK(r)'
  BY <1>1, <1>2, <1>5 DEF RunOK, ChildOK, ShownOK
<1> QED BY <1>1, <1>2, <1>4, <1>5, <1>6, <1>7, <1>8, <1>9 DEF Own, RunOK, Typed

\* The new segment is in its slot from then on.
LEMMA RegrowKeeps == ASSUME Inv, NEW r \in Runs, Regrow(r) PROVE Own(r)
<1>1. Typed /\ RunOK(r) /\ TableOK(seg) /\ run[r] \in RunRec
  BY DEF Inv, Typed
<1>2. /\ run[r].pc = "regrow" /\ ~run[r].new /\ run[r].prog = "main" /\ run[r].i = 1
      /\ run[r].slot # 0
      /\ fifo' = fifo /\ run' = [run EXCEPT ![r].new = TRUE, ![r].pc = "write"]
  BY <1>1 DEF Regrow, RunOK, PlaceOK
<1>3. /\ TableOK(seg') /\ \A s \in Seg : s # <<r, 0>> => seg'[s] = seg[s]
  <2>1. {Parent(r)} \in SUBSET {Parent(r)} /\ "empty" \in Texts /\ 0 \in 0 .. MAX_SEGMENTS
    BY SegmentsAssumption DEF Texts
  <2>2. seg' = Made(<<r, 0>>, {Parent(r)}, "empty")
    BY DEF Regrow
  <2> QED BY <1>1, <2>1, <2>2, MadeFacts
<1>4. Only(r)
  BY <1>3 DEF Only
<1>5. \A k \in 0 .. MAX_SEGMENTS : k # 0 => seg'[<<r, k>>] = seg[<<r, k>>]
  BY <1>3 DEF Seg
<1>6. /\ run' \in [Runs -> RunRec]
      /\ \A q \in Runs \ {r} : run'[q] = run[q]
      /\ run'[r].pc = "write" /\ run'[r].new
      /\ UNCHANGED <<run[r].prog, run[r].num, run[r].i, run[r].slot,
                     run[r].child, run[r].writer, run[r].answer, run[r].shown>>
  BY <1>1, <1>2 DEF Typed, RunRec, Pcs
<1>7. PlaceOK(r)'
  BY <1>1, <1>2, <1>6 DEF RunOK, PlaceOK
<1>8. Unmade(r)'
  <2>1. \A k \in 1 .. MAX_SEGMENTS : k \in 0 .. MAX_SEGMENTS /\ k # 0
    BY SegmentsAssumption
  <2> QED BY <1>1, <1>2, <1>5, <1>6, <2>1 DEF RunOK, Unmade
<1>9. Gone(r)'
  BY <1>1, <1>2, <1>5, <1>6 DEF RunOK, Gone, Replaced, Removing, Removed, Left, RunRec
<1>10. ChildOK(r)' /\ ShownOK(r)'
  BY <1>1, <1>2, <1>6 DEF RunOK, ChildOK, ShownOK
<1> QED BY <1>1, <1>2, <1>4, <1>6, <1>7, <1>8, <1>9, <1>10 DEF Own, RunOK, Typed

\* Without a new segment the run ends.
LEMMA RegrowFailsKeeps == ASSUME Inv, NEW r \in Runs, RegrowFails(r) PROVE Own(r)
<1>1. Typed /\ RunOK(r) /\ TableOK(seg)
  BY DEF Inv, Typed
<1>2. ~run[r].new
  BY <1>1 DEF RegrowFails, RunOK, PlaceOK
<1>3. CASE Leave(r, seg, "failed")
  BY <1>1, <1>2, <1>3, LeaveKeeps
<1>4. CASE Leave(r, Made(<<r, 0>>, {}, "empty"), "failed")
  <2> DEFINE table == Made(<<r, 0>>, {}, "empty")
  <2>1. {} \in SUBSET {Parent(r)} /\ "empty" \in Texts /\ 0 \in 0 .. MAX_SEGMENTS
    BY SegmentsAssumption DEF Texts
  <2>2. Leave(r, table, "failed") /\ table = Made(<<r, 0>>, {}, "empty")
    BY <1>4
  <2> HIDE DEF table
  <2>3. TableOK(table) /\ \A s \in Seg : s[1] # r => table[s] = seg[s]
    BY <1>1, <2>1, <2>2, MadeFacts
  <2> QED BY <1>1, <1>2, <2>2, <2>3, LeaveKeeps
<1> QED BY <1>3, <1>4 DEF RegrowFails

\* main writes into the segment that is in the slot.
LEMMA WriteKeeps == ASSUME Inv, NEW r \in Runs, Write(r) PROVE Own(r)
<1>1. Typed /\ RunOK(r) /\ TableOK(seg) /\ run[r] \in RunRec
  BY DEF Inv, Typed
<1>2. /\ run[r].pc = "write" /\ run[r].prog = "main" /\ run[r].i = 1 /\ run[r].slot # 0
      /\ fifo' = fifo /\ run' = [run EXCEPT ![r].pc = "detach"]
  BY <1>1 DEF Write, Go, RunOK, PlaceOK
<1>3. Only(r) /\ Calm(r)
  <2>1. PICK j \in 0 .. MAX_SEGMENTS : Slot(r, run[r].slot) = <<r, j>>
    BY <1>1, SegmentsAssumption DEF Slot, RunRec
  <2>2. PICK text \in Texts : seg' = [seg EXCEPT ![<<r, j>>].text = text]
    BY <2>1 DEF Write, Texts
  <2> QED BY <1>1, <2>2, EditFacts
<1>4. /\ run' \in [Runs -> RunRec]
      /\ \A q \in Runs \ {r} : run'[q] = run[q]
      /\ run'[r].pc = "detach"
      /\ UNCHANGED <<run[r].prog, run[r].num, run[r].i, run[r].slot, run[r].new,
                     run[r].child, run[r].writer, run[r].answer, run[r].shown>>
  BY <1>1, <1>2, GoFacts DEF Pcs
<1>5. PlaceOK(r)'
  BY <1>1, <1>2, <1>4 DEF RunOK, PlaceOK
<1>6. Unmade(r)' /\ Replaced(r)'
  BY <1>1, <1>2, <1>3, <1>4, LateKeeps
<1>7. Gone(r)'
  BY <1>2, <1>4, <1>6 DEF Gone, Removing, Removed, Left
<1>8. ChildOK(r)' /\ ShownOK(r)'
  BY <1>1, <1>2, <1>4 DEF RunOK, ChildOK, ShownOK
<1> QED BY <1>1, <1>2, <1>3, <1>4, <1>5, <1>6, <1>7, <1>8 DEF Own, RunOK, Typed

-----------------------------------------------------------------------------
(***************************************************************************)
(* The programs with a child.                                              *)
(***************************************************************************)

\* The name is the run's own, or the run ends.
LEMMA MakeFifoKeeps == ASSUME Inv, NEW r \in Runs, MakeFifo(r) PROVE Own(r)
<1>1. Typed /\ RunOK(r) /\ TableOK(seg) /\ run[r] \in RunRec
  BY DEF Inv, Typed
<1>2. run[r].pc = "mkfifo" /\ run[r].prog = "byte_changer" /\ run[r].i = 1
  BY <1>1 DEF MakeFifo, RunOK, PlaceOK
<1>3. CASE Leave(r, seg, "failed")
  <2>1. run[r].new => seg[<<r, run[r].slot>>].is # "live"
    BY <1>1 DEF RunOK, Gone, Replaced
  <2> QED BY <1>1, <1>2, <1>3, <2>1, LeaveKeeps
<1>4. CASE fifo = NoRun /\ fifo' = r /\ Go(r, "fork") /\ UNCHANGED seg
  <2>1. /\ run' \in [Runs -> RunRec]
        /\ \A q \in Runs \ {r} : run'[q] = run[q]
        /\ run'[r].pc = "fork"
        /\ UNCHANGED <<run[r].prog, run[r].num, run[r].i, run[r].slot, run[r].new,
                       run[r].child, run[r].writer, run[r].answer, run[r].shown>>
    BY <1>1, <1>4, GoFacts DEF Go, Pcs
  <2>2. \A q \in Runs \ {r} : fifo # q
    BY <1>4, SegmentsAssumption
  <2>3. Only(r) /\ Calm(r)
    BY <1>1, <1>4 DEF Only, Calm
  <2>4. PlaceOK(r)'
    BY <1>1, <1>2, <2>1 DEF RunOK, PlaceOK
  <2>5. Unmade(r)' /\ Replaced(r)'
    BY <1>1, <1>2, <2>1, <2>3, LateKeeps
  <2>6. Gone(r)'
    BY <2>1, <2>5 DEF Gone, Removing, Removed, Left
  <2>7. ChildOK(r)' /\ ShownOK(r)'
    BY <1>1, <1>2, <1>4, <2>1 DEF RunOK, ChildOK, ShownOK
  <2> QED BY <1>1, <1>4, <2>1, <2>2, <2>3, <2>4, <2>5, <2>6, <2>7 DEF Own, RunOK, Typed
<1> QED BY <1>3, <1>4 DEF MakeFifo

\* The child is the program's own, and is attached where the parent is.
LEMMA ForkKeeps == ASSUME Inv, NEW r \in Runs, Fork(r) PROVE Own(r)
<1>1. Typed /\ RunOK(r) /\ TableOK(seg) /\ run[r] \in RunRec
  BY DEF Inv, Typed
<1>2. /\ run[r].pc = "fork" /\ run[r].prog \in {"changer", "byte_changer", "attach"}
      /\ run[r].i = 1 /\ fifo' = fifo
  BY <1>1 DEF Fork, RunOK, PlaceOK
<1>3. PICK child \in {"input", "exec", "edit"} :
        /\ run' = [run EXCEPT ![r].pc = "waiting", ![r].child = child]
        /\ child = "exec" => run[r].prog = "byte_changer"
        /\ child = "edit" => run[r].prog = "attach"
  <2>1. CASE run[r].prog = "changer"
    BY <2>1 DEF Fork
  <2>2. CASE run[r].prog = "byte_changer"
    BY <2>2 DEF Fork
  <2>3. CASE run[r].prog = "attach"
    BY <2>3 DEF Fork
  <2> QED BY <1>2, <2>1, <2>2, <2>3
<1>4. Only(r) /\ Calm(r)
  <2>1. ASSUME NEW s \in Seg
        PROVE  /\ seg'[s] \in SegRec /\ seg'[s].is = seg[s].is
               /\ seg'[s].by \subseteq {Parent(s[1]), Child(s[1])}
               /\ seg[s].by \subseteq seg'[s].by
               /\ s[1] # r => seg'[s] = seg[s]
               /\ Parent(r) \in seg'[s].by => Parent(r) \in seg[s].by
    <3>1. seg'[s] = IF Parent(r) \in seg[s].by
                    THEN [seg[s] EXCEPT !.by = @ \cup {Child(r)}] ELSE seg[s]
      BY DEF Fork
    <3>2. /\ seg[s] \in SegRec /\ seg[s].by \subseteq {Parent(s[1]), Child(s[1])}
          /\ Child(r) \in Runs \X {"parent", "child"}
      BY <1>1 DEF TableOK, Child
    <3>3. Parent(r) \in seg[s].by => s[1] = r
      BY <3>2 DEF Parent, Child
    <3> QED BY <3>1, <3>2, <3>3 DEF SegRec, Parent, Child
  <2>2. seg' \in [Seg -> SegRec]
    BY <2>1 DEF Fork
  <2>3. Only(r)
    BY <1>1, <2>1, <2>2 DEF Only, TableOK
  <2>4. Calm(r)
    BY <2>1 DEF Calm, Seg
  <2> QED BY <2>3, <2>4
<1>5. /\ run' \in [Runs -> RunRec]
      /\ \A q \in Runs \ {r} : run'[q] = run[q]
      /\ run'[r].pc = "waiting"
      /\ run'[r].child \in {"input", "exec", "edit"}
      /\ run'[r].child = "exec" => run[r].prog = "byte_changer"
      /\ run'[r].child = "edit" => run[r].prog = "attach"
      /\ UNCHANGED <<run[r].prog, run[r].num, run[r].i, run[r].slot, run[r].new,
                     run[r].writer, run[r].answer, run[r].shown>>
  BY <1>1, <1>3 DEF Typed, RunRec, Pcs
<1>6. PlaceOK(r)'
  BY <1>1, <1>2, <1>5 DEF RunOK, PlaceOK
<1>7. Unmade(r)' /\ Replaced(r)'
  BY <1>1, <1>2, <1>4, <1>5, LateKeeps
<1>8. Gone(r)'
  BY <1>5, <1>7 DEF Gone, Removing, Removed, Left
<1>9. ChildOK(r)' /\ ShownOK(r)'
  BY <1>1, <1>2, <1>5 DEF RunOK, ChildOK, ShownOK
<1> QED BY <1>1, <1>2, <1>4, <1>5, <1>6, <1>7, <1>8, <1>9 DEF Own, RunOK, Typed

\* Without a child the run ends.
LEMMA ForkFailsKeeps == ASSUME Inv, NEW r \in Runs, ForkFails(r) PROVE Own(r)
<1>1. run[r].new => seg[<<r, run[r].slot>>].is # "live"
  BY DEF Inv, RunOK, Gone, Replaced
<1>2. Typed /\ RunOK(r) /\ TableOK(seg)
  BY DEF Inv, Typed
<1> QED BY <1>1, <1>2, LeaveKeeps DEF ForkFails

\* changer and byte_changer go on when the child has ended.
LEMMA WaitKeeps == ASSUME Inv, NEW r \in Runs, Wait(r) PROVE Own(r)
<1>1. Typed /\ RunOK(r) /\ TableOK(seg) /\ run[r] \in RunRec
  BY DEF Inv, Typed
<1>2. PICK to \in {"opening", "show"} :
        /\ run' = [run EXCEPT ![r].pc = to]
        /\ to = "opening" <=> run[r].prog = "byte_changer"
  BY DEF Wait, Go
<1>3. /\ run[r].pc = "waiting" /\ run[r].prog \in {"changer", "byte_changer", "attach"}
      /\ run[r].prog = "attach" \/ run[r].child = "ended"
      /\ run[r].i = 1 /\ UNCHANGED <<seg, fifo>>
  BY <1>1 DEF Wait, RunOK, PlaceOK
<1>4. /\ run' \in [Runs -> RunRec]
      /\ \A q \in Runs \ {r} : run'[q] = run[q]
      /\ run'[r].pc = to
      /\ UNCHANGED <<run[r].prog, run[r].num, run[r].i, run[r].slot, run[r].new,
                     run[r].child, run[r].writer, run[r].answer, run[r].shown>>
  BY <1>1, <1>2, GoFacts DEF Pcs
<1>5. Only(r) /\ Calm(r)
  BY <1>1, <1>3 DEF Only, Calm
<1>6. PlaceOK(r)'
  BY <1>1, <1>2, <1>3, <1>4 DEF RunOK, PlaceOK
<1>7. Unmade(r)' /\ Replaced(r)'
  BY <1>1, <1>3, <1>4, <1>5, LateKeeps
<1>8. Gone(r)'
  BY <1>4, <1>7 DEF Gone, Removing, Removed, Left
<1>9. ChildOK(r)' /\ ShownOK(r)'
  BY <1>1, <1>2, <1>3, <1>4 DEF RunOK, ChildOK, ShownOK
<1> QED BY <1>1, <1>3, <1>4, <1>5, <1>6, <1>7, <1>8, <1>9 DEF Own, RunOK, Typed

\* The process that has the FIFO open for writing is one of the run's own, and not the
\* child, which has ended.
LEMMA ReportKeeps == ASSUME Inv, NEW r \in Runs, Report(r) PROVE Own(r)
<1>1. Typed /\ RunOK(r) /\ TableOK(seg) /\ run[r] \in RunRec
  BY DEF Inv, Typed
<1>2. /\ run[r].pc = "opening" /\ run[r].prog = "byte_changer" /\ run[r].i = 1
      /\ run[r].child = "ended" /\ fifo = r /\ fifo' = fifo
  BY <1>1 DEF Report, RunOK, PlaceOK, ChildOK
<1>3. PICK q \in Runs, w \in {"child", "writer"} :
        /\ run[q][w] = "opening"
        /\ \/ /\ \E k \in 1 .. run[r].num, text \in {"changed", "garbage"} :
                   seg' = [seg EXCEPT ![<<r, k>>].text = text]
              /\ run' = [run EXCEPT ![q][w] = "ended", ![r].pc = "unlink", ![r].answer = <<q, w>>]
           \/ /\ seg' = Without(seg, Seg, Parent(r))
              /\ run' = [run EXCEPT ![q][w] = "ended", ![r].pc = "killed"]
  BY DEF Report
<1>4. q = r /\ w = "writer"
  <2>1. run[q].child = "opening" \/ run[q].writer = "opening" => fifo = q
    BY DEF Inv, RunOK, ChildOK
  <2>2. w = "child" \/ w = "writer"
    OBVIOUS
  <2>3. CASE w = "child"
    <3>1. run[q].child = "opening"
      BY <1>3, <2>3
    <3> QED BY <1>2, <2>1, <3>1
  <2>4. CASE w = "writer"
    <3>1. run[q].writer = "opening"
      BY <1>3, <2>4
    <3> QED BY <1>2, <2>1, <2>4, <3>1
  <2> QED BY <2>2, <2>3, <2>4
<1>5. CASE /\ \E k \in 1 .. run[r].num, text \in {"changed", "garbage"} :
                seg' = [seg EXCEPT ![<<r, k>>].text = text]
           /\ run' = [run EXCEPT ![q][w] = "ended", ![r].pc = "unlink", ![r].answer = <<q, w>>]
  <2>1. PICK k \in 0 .. MAX_SEGMENTS, text \in Texts : seg' = [seg EXCEPT ![<<r, k>>].text = text]
    <3>1. PICK k \in 1 .. run[r].num, text \in {"changed", "garbage"} :
             seg' = [seg EXCEPT ![<<r, k>>].text = text]
      BY <1>5
    <3>2. k \in 0 .. MAX_SEGMENTS /\ text \in Texts
      BY <1>1, SegmentsAssumption DEF RunRec, Texts
    <3> QED BY <3>1, <3>2
  <2>2. Only(r) /\ Calm(r)
    BY <1>1, <2>1, EditFacts
  <2>3. run' = [run EXCEPT ![r].writer = "ended", ![r].pc = "unlink", ![r].answer = <<r, "writer">>]
    BY <1>4, <1>5
  <2>4. /\ run' \in [Runs -> RunRec]
        /\ \A p \in Runs \ {r} : run'[p] = run[p]
        /\ run'[r].pc = "unlink" /\ run'[r].writer = "ended" /\ run'[r].answer = <<r, "writer">>
        /\ UNCHANGED <<run[r].prog, run[r].num, run[r].i, run[r].slot, run[r].new,
                       run[r].child, run[r].shown>>
    <3>1. <<r, "writer">> \in Answers /\ "unlink" \in Pcs
      BY DEF Answers, Pcs
    <3> QED BY <1>1, <2>3, <3>1 DEF Typed, RunRec
  <2>5. PlaceOK(r)'
    BY <1>1, <1>2, <2>4 DEF RunOK, PlaceOK
  <2>6. Unmade(r)' /\ Replaced(r)'
    BY <1>1, <1>2, <2>2, <2>4, LateKeeps
  <2>7. Gone(r)'
    BY <2>4, <2>6 DEF Gone, Removing, Removed, Left
  <2>8. ChildOK(r)' /\ ShownOK(r)'
    BY <1>1, <1>2, <2>4 DEF RunOK, ChildOK, ShownOK
  <2> QED BY <1>1, <1>2, <2>2, <2>4, <2>5, <2>6, <2>7, <2>8 DEF Own, RunOK, Typed
<1>6. CASE /\ seg' = Without(seg, Seg, Parent(r))
           /\ run' = [run EXCEPT ![q][w] = "ended", ![r].pc = "killed"]
  <2>1. Only(r) /\ Calm(r)
    BY <1>1, <1>6, DetachFacts
  <2>2. run' = [run EXCEPT ![r].writer = "ended", ![r].pc = "killed"]
    BY <1>4, <1>6
  <2>3. /\ run' \in [Runs -> RunRec]
        /\ \A p \in Runs \ {r} : run'[p] = run[p]
        /\ run'[r].pc = "killed" /\ run'[r].writer = "ended"
        /\ UNCHANGED <<run[r].prog, run[r].num, run[r].i, run[r].slot, run[r].new,
                       run[r].child, run[r].answer, run[r].shown>>
    BY <1>1, <2>2 DEF Typed, RunRec, Pcs
  <2>4. PlaceOK(r)'
    BY <1>1, <1>2, <2>3 DEF RunOK, PlaceOK
  <2>5. Unmade(r)' /\ Replaced(r)'
    BY <1>1, <1>2, <2>1, <2>3, LateKeeps
  <2>6. Gone(r)'
    BY <2>3, <2>5 DEF Gone, Removing, Removed, Left
  <2>7. ChildOK(r)' /\ ShownOK(r)'
    BY <1>1, <1>2, <2>3 DEF RunOK, ChildOK, ShownOK
  <2> QED BY <1>1, <1>2, <2>1, <2>3, <2>4, <2>5, <2>6, <2>7 DEF Own, RunOK, Typed
<1> QED BY <1>3, <1>5, <1>6

\* Nobody of the run has to do with the FIFO any more.
LEMMA UnlinkKeeps == ASSUME Inv, NEW r \in Runs, Unlink(r) PROVE Own(r)
<1>1. Typed /\ RunOK(r) /\ TableOK(seg) /\ run[r] \in RunRec
  BY DEF Inv, Typed
<1>2. /\ run[r].pc = "unlink" /\ run[r].prog = "byte_changer" /\ run[r].i = 1
      /\ run[r].child = "ended" /\ run[r].writer # "opening" /\ fifo = r /\ fifo' = NoRun
      /\ seg' = seg /\ run' = [run EXCEPT ![r].pc = "detach"]
  BY <1>1 DEF Unlink, Go, RunOK, PlaceOK, ChildOK
<1>3. /\ run' \in [Runs -> RunRec]
      /\ \A q \in Runs \ {r} : run'[q] = run[q]
      /\ run'[r].pc = "detach"
      /\ UNCHANGED <<run[r].prog, run[r].num, run[r].i, run[r].slot, run[r].new,
                     run[r].child, run[r].writer, run[r].answer, run[r].shown>>
  BY <1>1, <1>2, GoFacts DEF Pcs
<1>4. Only(r) /\ Calm(r)
  BY <1>1, <1>2 DEF Only, Calm
<1>5. PlaceOK(r)'
  BY <1>1, <1>2, <1>3 DEF RunOK, PlaceOK
<1>6. Unmade(r)' /\ Replaced(r)'
  BY <1>1, <1>2, <1>3, <1>4, LateKeeps
<1>7. Gone(r)'
  <2>1. \A k \in 1 .. MAX_SEGMENTS : ~(k < 1)
    BY SegmentsAssumption
  <2> QED BY <1>2, <1>3, <1>6, <2>1 DEF Gone, Removing, Removed, Left
<1>8. ChildOK(r)' /\ ShownOK(r)'
  BY <1>1, <1>2, <1>3 DEF RunOK, ChildOK, ShownOK
<1> QED BY <1>1, <1>2, <1>3, <1>4, <1>5, <1>6, <1>7, <1>8 DEF Own, RunOK, Typed

\* What is printed is what is in the segments.
LEMMA ShowKeeps == ASSUME Inv, NEW r \in Runs, Show(r) PROVE Own(r)
<1>1. Typed /\ RunOK(r) /\ TableOK(seg) /\ run[r] \in RunRec
  BY DEF Inv, Typed
<1> DEFINE texts == [k \in 1 .. run[r].num |-> seg[<<r, k>>].text]
<1>2. /\ run[r].pc = "show" /\ run[r].i = 1 /\ UNCHANGED <<seg, fifo>>
      /\ run' = [run EXCEPT ![r].pc = "detach", ![r].shown = texts]
  BY <1>1 DEF Show, RunOK, PlaceOK
<1>3. texts \in Seq(Texts) /\ \A k \in 1 .. run[r].num : texts[k] = seg[<<r, k>>].text
  <2>1. run[r].num \in Nat /\ \A k \in 1 .. run[r].num : <<r, k>> \in Seg
    BY <1>1, SegmentsAssumption DEF RunRec, Seg
  <2>2. \A k \in 1 .. run[r].num : seg[<<r, k>>].text \in Texts
    BY <1>1, <2>1 DEF TableOK, SegRec
  <2>3. texts \in [1 .. run[r].num -> Texts]
    BY <2>2
  <2>4. texts \in Seq(Texts)
    BY ZenonT(30), <2>1, <2>3, SeqDef
  <2> QED BY <2>4
<1> HIDE DEF texts
<1>4. /\ run' \in [Runs -> RunRec]
      /\ \A q \in Runs \ {r} : run'[q] = run[q]
      /\ run'[r].pc = "detach" /\ run'[r].shown = texts
      /\ UNCHANGED <<run[r].prog, run[r].num, run[r].i, run[r].slot, run[r].new,
                     run[r].child, run[r].writer, run[r].answer>>
  BY <1>1, <1>2, <1>3 DEF Typed, RunRec, Pcs
<1>5. Only(r) /\ Calm(r)
  BY <1>1, <1>2 DEF Only, Calm
<1>6. PlaceOK(r)'
  BY <1>1, <1>2, <1>4 DEF RunOK, PlaceOK
<1>7. Unmade(r)' /\ Replaced(r)'
  BY <1>1, <1>2, <1>4, <1>5, LateKeeps
<1>8. Gone(r)'
  <2>1. \A k \in 1 .. MAX_SEGMENTS : ~(k < 1)
    BY SegmentsAssumption
  <2> QED BY <1>1, <1>2, <1>4, <1>7, <2>1 DEF Gone, Removing, Removed, Left
<1>9. ChildOK(r)' /\ ShownOK(r)'
  BY <1>1, <1>2, <1>3, <1>4 DEF RunOK, ChildOK, ShownOK
<1> QED BY <1>1, <1>2, <1>4, <1>5, <1>6, <1>7, <1>8, <1>9 DEF Own, RunOK, Typed

\* A child that ends detaches what it has; so does one that leaves by itself.
LEMMA ChildExitsKeeps ==
    ASSUME Inv, NEW r \in Runs, ChildExits(r), run[r].child # "none"
    PROVE  Own(r)
<1>1. Typed /\ RunOK(r) /\ TableOK(seg) /\ run[r] \in RunRec
  BY DEF Inv, Typed
<1>2. /\ Only(r) /\ Calm(r) /\ fifo' = fifo
      /\ \A k \in 0 .. MAX_SEGMENTS : seg'[<<r, k>>].is # "no" => seg'[<<r, k>>].text = seg[<<r, k>>].text
      /\ run' = [run EXCEPT ![r].child = "ended"]
  BY <1>1, DetachFacts DEF ChildExits
<1>3. /\ run' \in [Runs -> RunRec]
      /\ \A q \in Runs \ {r} : run'[q] = run[q]
      /\ run'[r].child = "ended"
      /\ UNCHANGED <<run[r].prog, run[r].pc, run[r].num, run[r].i, run[r].slot, run[r].new,
                     run[r].writer, run[r].answer, run[r].shown>>
  BY <1>1, <1>2 DEF Typed, RunRec
<1>4. PlaceOK(r)' /\ Unmade(r)' /\ Gone(r)'
  BY <1>1, <1>2, <1>3, ChildKeeps
<1>5. ChildOK(r)'
  BY <1>1, <1>2, <1>3 DEF RunOK, ChildOK
<1>6. ShownOK(r)'
  <2>1. \A k \in 1 .. run[r].num : k \in 0 .. MAX_SEGMENTS
    BY <1>1, SegmentsAssumption DEF RunRec
  <2> QED BY <1>1, <1>2, <1>3, <2>1 DEF RunOK, ShownOK, Calm
<1> QED BY <1>1, <1>2, <1>3, <1>4, <1>5, <1>6 DEF Own, RunOK, Typed

\* A child that changes a text is one of main's other programs, whose parent has not
\* printed yet, or attach_shm's.
LEMMA ChildEditsKeeps ==
    ASSUME Inv, NEW r \in Runs, NEW k \in 1 .. MAX_SEGMENTS, NEW text \in Texts,
           NEW to \in {"edit", "leaving"},
           seg' = [seg EXCEPT ![<<r, k>>].text = text],
           run' = [run EXCEPT ![r].child = to], fifo' = fifo,
           run[r].child = "edit" \/ (run[r].child = "input" /\ to = "leaving")
    PROVE  Own(r)
<1>1. Typed /\ RunOK(r) /\ TableOK(seg) /\ run[r] \in RunRec
  BY DEF Inv, Typed
<1>2. Only(r) /\ Calm(r)
  <2>1. k \in 0 .. MAX_SEGMENTS /\ TableOK(seg)
    BY <1>1, SegmentsAssumption
  <2> QED BY <2>1, EditFacts
<1>3. /\ run' \in [Runs -> RunRec]
      /\ \A q \in Runs \ {r} : run'[q] = run[q]
      /\ run'[r].child = to
      /\ UNCHANGED <<run[r].prog, run[r].pc, run[r].num, run[r].i, run[r].slot, run[r].new,
                     run[r].writer, run[r].answer, run[r].shown>>
  BY <1>1 DEF Typed, RunRec
<1>4. PlaceOK(r)' /\ Unmade(r)' /\ Gone(r)'
  BY <1>1, <1>2, <1>3, ChildKeeps
<1>5. ChildOK(r)'
  BY <1>1, <1>3 DEF RunOK, ChildOK
<1>6. ShownOK(r)'
  BY <1>1, <1>3 DEF RunOK, ChildOK, ShownOK
<1> QED BY <1>1, <1>2, <1>3, <1>4, <1>5, <1>6 DEF Own, RunOK, Typed

\* changer's child edits a segment of the run, or leaves.
LEMMA ChildInputKeeps == ASSUME Inv, NEW r \in Runs, ChildInput(r) PROVE Own(r)
<1>1. run[r].child = "input"
  BY DEF ChildInput
<1>2. ASSUME NEW k \in 1 .. run[r].num,
             seg' = [seg EXCEPT ![<<r, k>>].text = "changed"],
             run' = [run EXCEPT ![r].child = "leaving"], fifo' = fifo
      PROVE  Own(r)
  <2>1. k \in 1 .. MAX_SEGMENTS /\ "changed" \in Texts
    BY SegmentsAssumption DEF Inv, Typed, RunRec, Texts
  <2> QED BY <1>1, <1>2, <2>1, ChildEditsKeeps
<1> QED BY <1>1, <1>2, ChildExitsKeeps DEF ChildInput

\* attach_shm's child edits in two steps.
LEMMA ChildEditKeeps == ASSUME Inv, NEW r \in Runs, ChildEdit(r) PROVE Own(r)
<1>1. run[r].child = "edit" /\ fifo' = fifo /\ 1 \in 1 .. MAX_SEGMENTS
  BY SegmentsAssumption DEF ChildEdit
<1>2. PICK text \in Texts : seg' = [seg EXCEPT ![<<r, 1>>].text = text]
  BY DEF ChildEdit, Texts
<1>3. PICK to \in {"edit", "leaving"} : run' = [run EXCEPT ![r].child = to]
  BY <1>1 DEF ChildEdit
<1> QED BY <1>1, <1>2, <1>3, ChildEditsKeeps

\* modify_segment, or what it leaves behind, has the run's FIFO.
LEMMA ExecKeeps == ASSUME Inv, NEW r \in Runs, Exec(r) PROVE Own(r)
<1>1. Typed /\ RunOK(r) /\ TableOK(seg) /\ run[r] \in RunRec
  BY DEF Inv, Typed
<1>2. /\ Only(r) /\ Calm(r) /\ fifo' = fifo /\ run[r].child = "exec"
      /\ \A k \in 0 .. MAX_SEGMENTS : seg'[<<r, k>>].is # "no" => seg'[<<r, k>>].text = seg[<<r, k>>].text
  BY <1>1, DetachFacts DEF Exec
<1>3. PICK child \in {"opening", "ended"}, writer \in {"none", "opening", run[r].writer} :
        run' = [run EXCEPT ![r].child = child, ![r].writer = writer]
  <2>1. CASE run' = [run EXCEPT ![r].child = "opening"]
    <3>1. run' = [run EXCEPT ![r].child = "opening", ![r].writer = run[r].writer]
      BY <1>1, <2>1 DEF Typed, RunRec
    <3> QED BY <3>1
  <2> QED BY <2>1 DEF Exec
<1>4. /\ run' \in [Runs -> RunRec]
      /\ \A q \in Runs \ {r} : run'[q] = run[q]
      /\ run'[r].child = child /\ run'[r].writer = writer
      /\ UNCHANGED <<run[r].prog, run[r].pc, run[r].num, run[r].i, run[r].slot, run[r].new,
                     run[r].answer, run[r].shown>>
  BY <1>1, <1>3 DEF Typed, RunRec
<1>5. PlaceOK(r)' /\ Unmade(r)' /\ Gone(r)'
  BY <1>1, <1>2, <1>4, ChildKeeps
<1>6. ChildOK(r)'
  <2>1. fifo = r /\ (run[r].prog = "byte_changer" => run[r].pc # "unlink")
    BY <1>1, <1>2 DEF RunOK, ChildOK
  <2>2. run[r].pc = "unlink" => run[r].prog = "byte_changer"
    BY <1>1 DEF RunOK, PlaceOK
  <2>3. run[r].pc # "unlink"
    BY <2>1, <2>2
  <2> QED BY <1>1, <1>2, <1>4, <2>1, <2>3 DEF RunOK, ChildOK
<1>7. ShownOK(r)'
  <2>1. \A k \in 1 .. run[r].num : k \in 0 .. MAX_SEGMENTS
    BY <1>1, SegmentsAssumption DEF RunRec
  <2> QED BY <1>1, <1>2, <1>4, <2>1 DEF RunOK, ShownOK, Calm
<1> QED BY <1>1, <1>2, <1>4, <1>5, <1>6, <1>7 DEF Own, RunOK, Typed

\* A process that has been left behind is killed.
LEMMA KillWriterKeeps == ASSUME Inv, NEW r \in Runs, KillWriter(r) PROVE Own(r)
<1>1. Typed /\ RunOK(r) /\ TableOK(seg) /\ run[r] \in RunRec
  BY DEF Inv, Typed
<1>2. Only(r) /\ Calm(r) /\ UNCHANGED <<seg, fifo>>
  BY <1>1 DEF KillWriter, Only, Calm
<1>3. /\ run' \in [Runs -> RunRec]
      /\ \A q \in Runs \ {r} : run'[q] = run[q]
      /\ run'[r].writer = "ended"
      /\ UNCHANGED <<run[r].prog, run[r].pc, run[r].num, run[r].i, run[r].slot, run[r].new,
                     run[r].child, run[r].answer, run[r].shown>>
  BY <1>1 DEF KillWriter, Typed, RunRec
<1>4. PlaceOK(r)' /\ Unmade(r)' /\ Gone(r)'
  BY <1>1, <1>2, <1>3, ChildKeeps
<1>5. ChildOK(r)' /\ ShownOK(r)'
  BY <1>1, <1>2, <1>3 DEF RunOK, ChildOK, ShownOK
<1> QED BY <1>1, <1>2, <1>3, <1>4, <1>5 DEF Own, RunOK, Typed

\* A run is killed.
LEMMA KillParentKeeps == ASSUME Inv, NEW r \in Runs, KillParent(r) PROVE Own(r)
<1>1. Typed /\ RunOK(r) /\ TableOK(seg) /\ run[r].pc \notin {"start", "failed"}
  BY DEF Inv, Typed, KillParent, Ended
<1>2. run[r].new => seg[<<r, run[r].slot>>].is # "live"
  BY <1>1 DEF RunOK, Gone, Replaced
<1> QED BY <1>1, <1>2, LeaveKeeps DEF KillParent

-----------------------------------------------------------------------------
(***************************************************************************)
(* The end.                                                                *)
(***************************************************************************)

\* The slots of a run are its own, different ones, and stay where they are.
LEMMA SlotFacts ==
    ASSUME Typed, NEW r \in Runs, RunOK(r), NEW k \in 1 .. MAX_SEGMENTS
    PROVE  \E j \in 0 .. MAX_SEGMENTS :
             /\ Slot(r, k) = <<r, j>>
             /\ j = IF run[r].new /\ k = run[r].slot THEN 0 ELSE k
BY SegmentsAssumption DEF Slot

\* Detaching goes through the segments; byte_changer removes the one it has detached.
LEMMA DetachKeeps == ASSUME Inv, NEW r \in Runs, Detach(r) PROVE Own(r)
<1>1. Typed /\ RunOK(r) /\ TableOK(seg) /\ run[r] \in RunRec
  BY DEF Inv, Typed
<1>2. /\ run[r].pc = "detach" /\ run[r].i <= run[r].num /\ fifo' = fifo
      /\ run[r].i \in 1 .. MAX_SEGMENTS /\ run[r].num \in 0 .. MAX_SEGMENTS
  BY <1>1 DEF Detach, RunOK, PlaceOK, RunRec
<1>3. /\ Only(r) /\ Calm(r)
      /\ \A k \in 0 .. MAX_SEGMENTS : seg'[<<r, k>>].is # "no" => seg'[<<r, k>>].text = seg[<<r, k>>].text
  <2>1. seg' = Without(seg, {Slot(r, run[r].i)}, Parent(r)) /\ TableOK(seg)
        /\ Parent(r) \in {Parent(r), Child(r)}
    BY <1>1 DEF Detach
  <2> QED BY <2>1, DetachFacts
<1>4. PICK to \in {"detach", "remove"}, i \in 1 .. MAX_SEGMENTS :
        /\ run' = [run EXCEPT ![r].i = i, ![r].pc = to]
        /\ i <= run[r].num
        /\ run[r].prog = "byte_changer" => i = run[r].i
        /\ run[r].prog # "byte_changer" /\ to = "remove" => i = 1
  <2>1. CASE run[r].prog = "byte_changer"
    <3>1. run' = [run EXCEPT ![r].pc = "remove"]
      BY <2>1 DEF Detach
    <3>2. run' = [run EXCEPT ![r].i = run[r].i, ![r].pc = "remove"]
      BY <1>1, <3>1 DEF Typed, RunRec
    <3> QED BY <1>2, <2>1, <3>2
  <2>2. CASE run[r].prog # "byte_changer" /\ run[r].i < run[r].num
    <3>1. run' = [run EXCEPT ![r].i = @ + 1]
      BY <2>2 DEF Detach
    <3>2. run' = [run EXCEPT ![r].i = run[r].i + 1, ![r].pc = "detach"]
      BY <1>1, <1>2, <3>1 DEF Typed, RunRec
    <3>3. run[r].i + 1 \in 1 .. MAX_SEGMENTS /\ run[r].i + 1 <= run[r].num
      BY <1>2, <2>2, SegmentsAssumption
    <3> QED BY <2>2, <3>2, <3>3
  <2>3. CASE run[r].prog # "byte_changer" /\ ~(run[r].i < run[r].num)
    <3>1. run' = [run EXCEPT ![r].i = 1, ![r].pc = "remove"]
      BY <2>3 DEF Detach
    <3>2. 1 \in 1 .. MAX_SEGMENTS /\ 1 <= run[r].num
      BY <1>2, SegmentsAssumption
    <3> QED BY <2>3, <3>1, <3>2
  <2> QED BY <2>1, <2>2, <2>3
<1>5. /\ run' \in [Runs -> RunRec]
      /\ \A q \in Runs \ {r} : run'[q] = run[q]
      /\ run'[r].pc = to /\ run'[r].i = i
      /\ UNCHANGED <<run[r].prog, run[r].num, run[r].slot, run[r].new,
                     run[r].child, run[r].writer, run[r].answer, run[r].shown>>
  <2>1. to \in Pcs
    BY DEF Pcs
  <2> QED BY <1>1, <1>4, <2>1 DEF Typed, RunRec
<1>6. PlaceOK(r)'
  BY <1>1, <1>2, <1>4, <1>5 DEF RunOK, PlaceOK
<1>7. Unmade(r)' /\ Replaced(r)'
  BY <1>1, <1>2, <1>3, <1>5, LateKeeps
<1>8. Removing(r)'
  <2>1. CASE run[r].prog = "byte_changer"
    <3>1. ASSUME NEW k \in 1 .. MAX_SEGMENTS, k < run[r].i
          PROVE  seg'[Slot(r, k)'].is # "live"
      <4>1. seg[Slot(r, k)].is # "live"
        BY <1>1, <1>2, <2>1, <3>1 DEF RunOK, Gone, Removing
      <4>2. PICK j \in 0 .. MAX_SEGMENTS : Slot(r, k) = <<r, j>>
        BY <1>1, SlotFacts
      <4>3. Slot(r, k)' = Slot(r, k)
        BY <1>5 DEF Slot
      <4> QED BY <1>3, <4>1, <4>2, <4>3 DEF Calm
    <3> QED BY <1>4, <1>5, <2>1, <3>1 DEF Removing
  <2>2. CASE run[r].prog # "byte_changer"
    <3>1. \A k \in 1 .. MAX_SEGMENTS : ~(k < 1)
      BY SegmentsAssumption
    <3> QED BY <1>4, <1>5, <2>2, <3>1 DEF Removing
  <2> QED BY <2>1, <2>2
<1>9. Gone(r)'
  BY <1>5, <1>7, <1>8 DEF Gone, Removed, Left
<1>10. ChildOK(r)'
  BY <1>1, <1>2, <1>5 DEF RunOK, ChildOK
<1>11. ShownOK(r)'
  <2>1. \A k \in 1 .. run[r].num : k \in 0 .. MAX_SEGMENTS
    BY <1>2, SegmentsAssumption
  <2> QED BY <1>1, <1>2, <1>3, <1>5, <2>1 DEF RunOK, ShownOK, Calm
<1> QED BY <1>1, <1>2, <1>3, <1>5, <1>6, <1>7, <1>9, <1>10, <1>11 DEF Own, RunOK, Typed

\* Removing goes through the segments, too, and is at its end when all have been removed.
LEMMA RemoveKeeps == ASSUME Inv, NEW r \in Runs, Remove(r) PROVE Own(r)
<1>1. Typed /\ RunOK(r) /\ TableOK(seg) /\ run[r] \in RunRec
  BY DEF Inv, Typed
<1>2. /\ run[r].pc = "remove" /\ run[r].i <= run[r].num /\ fifo' = fifo
      /\ run[r].i \in 1 .. MAX_SEGMENTS /\ run[r].num \in 0 .. MAX_SEGMENTS
  BY <1>1 DEF Remove, RunOK, PlaceOK, RunRec
<1>3. /\ Only(r) /\ Calm(r) /\ seg'[Slot(r, run[r].i)].is # "live"
      /\ \A k \in 0 .. MAX_SEGMENTS : seg'[<<r, k>>].is # "no" => seg'[<<r, k>>].text = seg[<<r, k>>].text
  <2>1. PICK j \in 0 .. MAX_SEGMENTS : Slot(r, run[r].i) = <<r, j>>
    <3>1. ASSUME NEW k \in 1 .. MAX_SEGMENTS, k = run[r].i
          PROVE  \E j \in 0 .. MAX_SEGMENTS : Slot(r, k) = <<r, j>>
      BY <1>1, SlotFacts
    <3> QED BY <1>2, <3>1
  <2>2. TableOK(seg) /\ seg' = Marked(<<r, j>>)
    BY <1>1, <2>1 DEF Remove
  <2> QED BY <2>1, <2>2, MarkedFacts
<1>4. PICK to \in {"detach", "remove", "end"}, i \in 1 .. MAX_SEGMENTS :
        /\ run' = [run EXCEPT ![r].i = i, ![r].pc = to]
        /\ i <= run[r].num
        /\ to # "end" => i = run[r].i + 1
        /\ to = "end" => i = run[r].i /\ i = run[r].num
  <2>1. CASE run[r].i = run[r].num
    <3>1. run' = [run EXCEPT ![r].pc = "end"]
      BY <2>1 DEF Remove
    <3>2. run' = [run EXCEPT ![r].i = run[r].i, ![r].pc = "end"]
      BY <1>1, <3>1 DEF Typed, RunRec
    <3> QED BY <1>2, <2>1, <3>2
  <2>2. CASE run[r].i # run[r].num
    <3>1. PICK to \in {"detach", "remove"} : run' = [run EXCEPT ![r].i = @ + 1, ![r].pc = to]
      BY <1>2, <2>2 DEF Remove
    <3>2. run' = [run EXCEPT ![r].i = run[r].i + 1, ![r].pc = to]
      BY <3>1
    <3>3. run[r].i + 1 \in 1 .. MAX_SEGMENTS /\ run[r].i + 1 <= run[r].num
      BY <1>2, <2>2, SegmentsAssumption
    <3> QED BY <3>1, <3>2, <3>3
  <2> QED BY <2>1, <2>2
<1>5. /\ run' \in [Runs -> RunRec]
      /\ \A q \in Runs \ {r} : run'[q] = run[q]
      /\ run'[r].pc = to /\ run'[r].i = i
      /\ UNCHANGED <<run[r].prog, run[r].num, run[r].slot, run[r].new,
                     run[r].child, run[r].writer, run[r].answer, run[r].shown>>
  <2>1. to \in Pcs
    BY DEF Pcs
  <2> QED BY <1>1, <1>4, <2>1 DEF Typed, RunRec
<1>6. PlaceOK(r)'
  BY <1>1, <1>2, <1>4, <1>5 DEF RunOK, PlaceOK
<1>7. Unmade(r)' /\ Replaced(r)'
  BY <1>1, <1>2, <1>3, <1>5, LateKeeps
<1>8. ASSUME NEW k \in 1 .. MAX_SEGMENTS, k <= run[r].i
      PROVE  seg'[Slot(r, k)'].is # "live"
  <2>1. Slot(r, k)' = Slot(r, k)
    BY <1>5 DEF Slot
  <2>2. CASE k = run[r].i
    BY <1>3, <2>1, <2>2
  <2>3. CASE k # run[r].i
    <3>1. k < run[r].i
      BY <1>2, <1>8, <2>3
    <3>2. seg[Slot(r, k)].is # "live"
      BY <1>1, <1>2, <3>1 DEF RunOK, Gone, Removing
    <3>3. PICK j \in 0 .. MAX_SEGMENTS : Slot(r, k) = <<r, j>>
      BY <1>1, SlotFacts
    <3> QED BY <1>3, <2>1, <3>2, <3>3 DEF Calm
  <2> QED BY <2>2, <2>3
<1>9. Removing(r)' /\ Removed(r)'
  <2>1. to # "end" => \A k \in 1 .. MAX_SEGMENTS : k < i => k <= run[r].i
    BY <1>2, <1>4
  <2>2. Removing(r)'
    BY <1>4, <1>5, <1>8, <2>1 DEF Removing
  <2>3. to = "end" => \A k \in 1 .. run[r].num : k \in 1 .. MAX_SEGMENTS /\ k <= run[r].i
    BY <1>2, <1>4, SegmentsAssumption
  <2>4. Removed(r)'
    BY <1>5, <1>8, <2>3 DEF Removed
  <2> QED BY <2>2, <2>4
<1>10. Gone(r)'
  BY <1>5, <1>7, <1>9 DEF Gone, Left
<1>11. ChildOK(r)'
  BY <1>1, <1>2, <1>5 DEF RunOK, ChildOK
<1>12. ShownOK(r)'
  <2>1. \A k \in 1 .. run[r].num : k \in 0 .. MAX_SEGMENTS
    BY <1>2, SegmentsAssumption
  <2> QED BY <1>1, <1>2, <1>3, <1>5, <2>1 DEF RunOK, ShownOK, Calm
<1> QED BY <1>1, <1>2, <1>3, <1>5, <1>6, <1>7, <1>10, <1>11, <1>12 DEF Own, RunOK, Typed

\* At its normal end all that a run has made has been removed, and it is attached to none.
LEMMA ExitKeeps == ASSUME Inv, NEW r \in Runs, Exit(r) PROVE Own(r)
<1>1. Typed /\ RunOK(r) /\ TableOK(seg) /\ run[r] \in RunRec
  BY DEF Inv, Typed
<1>2. PICK how \in {"killed", "done"} : Leave(r, seg, how)
  BY DEF Exit
<1>3. /\ run[r].pc = "end" /\ fifo' = fifo
      /\ seg' = Without(seg, Seg, Parent(r)) /\ run' = [run EXCEPT ![r].pc = how]
      /\ run[r].num \in 0 .. MAX_SEGMENTS /\ run[r].slot \in 0 .. MAX_SEGMENTS
  BY <1>1, <1>2 DEF Exit, Leave, RunRec
<1>4. Only(r) /\ Calm(r)
  <2>1. TableOK(seg) /\ Parent(r) \in {Parent(r), Child(r)}
    BY <1>1
  <2> QED BY <1>3, <2>1, DetachFacts
<1>5. /\ run' \in [Runs -> RunRec]
      /\ \A q \in Runs \ {r} : run'[q] = run[q]
      /\ run'[r].pc = how
      /\ UNCHANGED <<run[r].prog, run[r].num, run[r].i, run[r].slot, run[r].new,
                     run[r].child, run[r].writer, run[r].answer, run[r].shown>>
  BY <1>1, <1>3, GoFacts DEF Pcs
<1>6. PlaceOK(r)'
  BY <1>1, <1>3, <1>5 DEF RunOK, PlaceOK
<1>7. CASE how = "killed"
  <2>1. Unmade(r)'
    BY <1>5, <1>7 DEF Unmade
  <2>2. Gone(r)'
    <3>1. Replaced(r)'
      BY <1>1, <1>3, <1>4, <1>5, <1>7 DEF RunOK, Gone, Replaced, Calm
    <3> QED BY <1>5, <1>7, <3>1 DEF Gone, Removing, Removed, Left
  <2>3. ChildOK(r)' /\ ShownOK(r)'
    BY <1>1, <1>3, <1>5, <1>7 DEF RunOK, ChildOK, ShownOK
  <2> QED BY <1>1, <1>3, <1>4, <1>5, <1>6, <2>1, <2>2, <2>3 DEF Own, RunOK, Typed
<1>8. CASE how = "done"
  <2>1. Unmade(r)' /\ Replaced(r)'
    BY <1>1, <1>3, <1>4, <1>5, <1>8, LateKeeps
  <2>2. Left(r)'
    <3>1. SUFFICES ASSUME run[r].prog # "create", NEW k \in 0 .. MAX_SEGMENTS
                   PROVE  seg'[<<r, k>>].is # "live" /\ Parent(r) \notin seg'[<<r, k>>].by
      BY <1>5 DEF Left, Parent
    <3>2. <<r, k>> \in Seg /\ Parent(r) \in Runs \X {"parent", "child"}
      BY DEF Seg, Parent
    <3>3. Parent(r) \notin seg'[<<r, k>>].by
      BY <1>1, <1>3, <3>2, WithoutFacts
    <3>4. \A n \in 1 .. run[r].num : seg[Slot(r, n)].is # "live"
      BY <1>1, <1>3, <3>1 DEF RunOK, Gone, Removed
    <3>5. seg[<<r, k>>].is # "live"
      <4>1. CASE k = 0 /\ ~run[r].new
        BY <1>1, <1>3, <4>1 DEF RunOK, Unmade
      <4>2. CASE k = 0 /\ run[r].new
        <5>1. run[r].slot \in 1 .. run[r].num
          BY <1>1, <1>3, <4>2, SegmentsAssumption DEF RunOK, PlaceOK
        <5>2. Slot(r, run[r].slot) = <<r, 0>>
          BY <4>2 DEF Slot
        <5> QED BY <3>4, <4>2, <5>1, <5>2
      <4>3. CASE k # 0 /\ k > run[r].num
        BY <1>1, <1>3, <4>3, SegmentsAssumption DEF RunOK, Unmade
      <4>4. CASE k # 0 /\ k <= run[r].num /\ run[r].new /\ k = run[r].slot
        BY <1>1, <4>4 DEF RunOK, Gone, Replaced
      <4>5. CASE k # 0 /\ k <= run[r].num /\ ~(run[r].new /\ k = run[r].slot)
        <5>1. k \in 1 .. run[r].num /\ Slot(r, k) = <<r, k>>
          BY <1>3, <4>5, SegmentsAssumption DEF Slot
        <5> QED BY <3>4, <5>1
      <4>6. k = 0 \/ k > run[r].num \/ k <= run[r].num
        BY <1>3, SegmentsAssumption
      <4> QED BY <4>1, <4>2, <4>3, <4>4, <4>5, <4>6
    <3> QED BY <1>4, <3>3, <3>5 DEF Calm
  <2>3. Gone(r)'
    BY <1>5, <1>8, <2>1, <2>2 DEF Gone, Removing, Removed
  <2>4. ChildOK(r)' /\ ShownOK(r)'
    BY <1>1, <1>3, <1>5, <1>8 DEF RunOK, ChildOK, ShownOK
  <2> QED BY <1>1, <1>3, <1>4, <1>5, <1>6, <2>1, <2>3, <2>4 DEF Own, RunOK, Typed
<1> QED BY <1>7, <1>8

-----------------------------------------------------------------------------
(***************************************************************************)
(* The theorems.                                                           *)
(***************************************************************************)

\* Every step is one of a run.
LEMMA InvStep == SegmentsAssumption /\ Inv /\ [Next]_vars => Inv'
<1> SUFFICES ASSUME Inv, [Next]_vars PROVE Inv'
  OBVIOUS
<1>1. CASE UNCHANGED vars
  <2>1. Typed' /\ \A r \in Runs : RunOK(r)'
    <3>1. Typed'
      BY <1>1 DEF Inv, Typed, TableOK, vars
    <3>2. ASSUME NEW r \in Runs PROVE RunOK(r)'
      <4>1. RunOK(r) /\ UNCHANGED <<seg, run, fifo>>
        BY <1>1 DEF Inv, vars
      <4>2. PlaceOK(r)' /\ Unmade(r)' /\ ChildOK(r)' /\ ShownOK(r)'
        BY <4>1 DEF RunOK, PlaceOK, Unmade, ChildOK, ShownOK
      <4>3. Gone(r)'
        BY <4>1 DEF RunOK, Gone, Replaced, Removing, Removed, Left, Slot
      <4> QED BY <4>2, <4>3 DEF RunOK
    <3> QED BY <3>1, <3>2
  <2> QED BY <2>1 DEF Inv
<1>2. ASSUME NEW r \in Runs, ParentStep(r) PROVE Own(r)
  <2>1. CASE Get(r)
    BY <2>1, GetKeeps
  <2>2. CASE GetFails(r)
    BY <2>2, GetFailsKeeps
  <2>3. CASE RemoveOld(r)
    BY <2>3, RemoveOldKeeps
  <2>4. CASE Regrow(r)
    BY <2>4, RegrowKeeps
  <2>5. CASE RegrowFails(r)
    BY <2>5, RegrowFailsKeeps
  <2>6. CASE Write(r)
    BY <2>6, WriteKeeps
  <2>7. CASE MakeFifo(r)
    BY <2>7, MakeFifoKeeps
  <2>8. CASE Fork(r)
    BY <2>8, ForkKeeps
  <2>9. CASE ForkFails(r)
    BY <2>9, ForkFailsKeeps
  <2>10. CASE Wait(r)
    BY <2>10, WaitKeeps
  <2>11. CASE Report(r)
    BY <2>11, ReportKeeps
  <2>12. CASE Unlink(r)
    BY <2>12, UnlinkKeeps
  <2>13. CASE Show(r)
    BY <2>13, ShowKeeps
  <2>14. CASE Detach(r)
    BY <2>14, DetachKeeps
  <2>15. CASE Remove(r)
    BY <2>15, RemoveKeeps
  <2>16. CASE Exit(r)
    BY <2>16, ExitKeeps
  <2> QED BY <1>2, <2>1, <2>2, <2>3, <2>4, <2>5, <2>6, <2>7, <2>8, <2>9, <2>10, <2>11,
             <2>12, <2>13, <2>14, <2>15, <2>16 DEF ParentStep
<1>3. ASSUME NEW r \in Runs, ChildStep(r) PROVE Own(r)
  <2>1. CASE ChildEdit(r)
    BY <2>1, ChildEditKeeps
  <2>2. CASE ChildLeaves(r)
    <3>1. ChildExits(r) /\ run[r].child # "none"
      BY <2>2 DEF ChildLeaves
    <3> QED BY <3>1, ChildExitsKeeps
  <2>3. CASE Exec(r)
    BY <2>3, ExecKeeps
  <2> QED BY <1>3, <2>1, <2>2, <2>3 DEF ChildStep
<1>4. ASSUME NEW r \in Runs, KillChild(r) PROVE Own(r)
  <2>1. ChildExits(r) /\ run[r].child # "none"
    BY <1>4 DEF KillChild
  <2> QED BY <2>1, ChildExitsKeeps
<1>5. ASSUME Next PROVE Inv'
  <2>1. PICK r \in Runs :
          \/ ParentStep(r) \/ ChildStep(r) \/ KillChild(r)
          \/ Start(r) \/ Ask(r) \/ ChildInput(r) \/ KillParent(r) \/ KillWriter(r)
    BY <1>5 DEF Next
  <2>2. Own(r)
    BY <2>1, <1>2, <1>3, <1>4, StartKeeps, AskKeeps, ChildInputKeeps, KillParentKeeps,
       KillWriterKeeps
  <2> QED BY <2>2, OthersKeep
<1> QED BY <1>1, <1>5

\* In every state a behaviour reaches, the invariant holds.
THEOREM SegInvariant == Spec => []Inv
<1>1. Init => Inv
  BY InvInit, SegmentsAssumption
<1>2. Inv /\ [Next]_vars => Inv'
  BY InvStep, SegmentsAssumption
<1> QED BY <1>1, <1>2, PTL DEF Spec

\* The table, the runs and the name of the FIFO have their types: whatever the programs
\* of 9.7 and attach_shm do, a segment is attached by nobody but the run that made it
\* and its child, and the loops stay in the arrays shmid and shm.
THEOREM SegTypeCorrect == Spec => []TypeOK
<1>1. Inv => TypeOK
  <2> SUFFICES ASSUME Inv PROVE TypeOK
    OBVIOUS
  <2>1. ASSUME NEW s \in Seg
        PROVE  /\ seg[s].is \in {"no", "live", "removed"}
               /\ seg[s].by \subseteq {Parent(s[1]), Child(s[1])}
               /\ seg[s].text \in {"empty", "filled", "mixed", "changed", "byte", "garbage"}
    BY DEF Inv, Typed, TableOK, SegRec, Texts
  <2>2. ASSUME NEW r \in Runs
        PROVE  /\ run[r].num \in 0 .. MAX_SEGMENTS /\ run[r].i \in 1 .. MAX_SEGMENTS
               /\ run[r].slot \in 0 .. run[r].num
               /\ run[r].child \in {"none", "input", "exec", "edit", "opening", "leaving", "ended"}
               /\ run[r].writer \in {"none", "opening", "ended"}
    <3>1. run[r] \in RunRec /\ run[r].slot <= run[r].num
      BY DEF Inv, Typed, RunOK, PlaceOK
    <3> QED BY <3>1, SegmentsAssumption DEF RunRec
  <2>3. fifo \in Runs \cup {NoRun}
    BY DEF Inv, Typed
  <2> QED BY <2>1, <2>2, <2>3 DEF TypeOK
<1> QED BY <1>1, SegInvariant, PTL

\* A run that comes to return 0 in main, changer, byte_changer, mod_create_segments or
\* attach_shm has removed every segment it made, the one that main replaced included;
\* what is still there is attached to its child alone, and goes with it.
THEOREM NothingStays == Spec => []NothingLeft
<1>1. Inv => NothingLeft
  <2> SUFFICES ASSUME Inv, NEW s \in Seg, run[s[1]].pc = "done", run[s[1]].prog # "create"
               PROVE  \/ seg[s].is = "no"
                      \/ seg[s].is = "removed" /\ seg[s].by = {Child(s[1])}
    BY DEF NothingLeft
  <2>1. PICK r \in Runs, k \in 0 .. MAX_SEGMENTS : s = <<r, k>>
    BY DEF Seg
  <2>2. seg[s].is # "live" /\ Parent(r) \notin seg[s].by
    BY <2>1 DEF Inv, RunOK, Gone, Left
  <2>3. /\ seg[s].is \in {"no", "live", "removed"}
        /\ seg[s].by \subseteq {Parent(r), Child(r)}
        /\ seg[s].is = "removed" => seg[s].by # {}
    BY <2>1 DEF Inv, Typed, TableOK, SegRec
  <2> QED BY <2>1, <2>2, <2>3
<1> QED BY <1>1, SegInvariant, PTL

\* What byte_changer reads with fscanf is never the report of the child it has waited
\* for, nor another run's: the child would have had to end before fopen returns.
THEOREM NeverTheChild == Spec => []ReportFromOutside
<1>1. Inv => ReportFromOutside
  BY DEF Inv, RunOK, ChildOK, ReportFromOutside
<1> QED BY <1>1, SegInvariant, PTL

\* changer prints what its child has left in the segments, and that is what is in them
\* until they are removed: wait comes before the printing.
THEOREM PrintedAfterTheChild == Spec => []ShownIsFinal
<1>1. Inv => ShownIsFinal
  BY DEF Inv, RunOK, ShownOK, ShownIsFinal
<1> QED BY <1>1, SegInvariant, PTL
=============================================================================
