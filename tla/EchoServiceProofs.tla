------------------------- MODULE EchoServiceProofs -------------------------
(***************************************************************************)
(* Proofs about EchoService, for any number of clients, lines and bytes,   *)
(* any backlog and any of the three servers: types, that the bytes of a    *)
(* client come back in order, and that a child of sock_c_i_srv is left     *)
(* alone.                                                                  *)
(*                                                                         *)
(* The bytes of a connection are somewhere between the client's write and  *)
(* its read: in up, in the handler's chunk, in down or in got.  Put one    *)
(* behind the other these are what has been typed (StreamOK).  That a      *)
(* connection has one handler, which is begun once, is QueueOK.            *)
(***************************************************************************)
EXTENDS EchoService, SequenceTheorems, TLAPS

Bytes    == Clients \X Nat
Handlers == {"none", "pending", "reading", "sending", "closed"}
Places   == {"start", "prompt", "waiting", "spinning", "done", "failed"}

\* TypeOK in four parts, with the domains of the functions and what the numbers have to
\* do with one another.
SrvTyped ==
    /\ program \in Servers /\ server \in {"down", "accept", "got", "busy"}
    /\ backlog \in Seq(Clients) /\ Len(backlog) <= Backlog
    /\ new \in Clients \cup {NoClient} /\ handler \in [Clients -> Handlers]

BytesTyped ==
    /\ chunk \in [Clients -> Seq(Bytes)] /\ up \in [Clients -> Seq(Bytes)]
    /\ down \in [Clients -> Seq(Bytes)] /\ got \in [Clients -> Seq(Bytes)]

CltTyped ==
    /\ pc \in [Clients -> Places] /\ ends \in [Clients -> BOOLEAN]
    /\ asked \in [Clients -> 0 .. MaxBytes]

Counted ==
    /\ lines \in [Clients -> Nat] /\ typed \in [Clients -> Nat] /\ dots \in [Clients -> SUBSET Nat]
    /\ \A c \in Clients : /\ lines[c] <= MaxLines[c] /\ typed[c] <= lines[c] * MaxBytes
                          /\ dots[c] \subseteq 1 .. typed[c]

Typed == SrvTyped /\ BytesTyped /\ CltTyped /\ Counted

\* s are bytes of client c, from the one after the k-th on.
Follows(c, s, k) == \A n \in 1 .. Len(s) : s[n] = <<c, k + n>>

\* Length of what the handler of c has read and not sent.
Held(c) == IF handler[c] = "sending" THEN Len(chunk[c]) ELSE 0

StreamOK(c) ==
    /\ Follows(c, got[c], 0)
    /\ Present(c) => Follows(c, down[c], Len(got[c]))
    /\ Present(c) /\ handler[c] # "closed" =>
         /\ handler[c] = "sending" => Follows(c, chunk[c], Len(got[c]) + Len(down[c]))
         /\ Follows(c, up[c], Len(got[c]) + Len(down[c]) + Held(c))
         /\ Len(got[c]) + Len(down[c]) + Held(c) + Len(up[c]) = typed[c]
    /\ pc[c] = "start" =>
         handler[c] = "none" /\ got[c] = << >> /\ down[c] = << >> /\ up[c] = << >> /\ typed[c] = 0

\* echo_client and its server take turns, a line at a time.
TurnOK(c) ==
    ~Tcp =>
        /\ pc[c] # "spinning"
        /\ pc[c] = "prompt" =>
             /\ Len(got[c]) = typed[c] /\ down[c] = << >> /\ up[c] = << >>
             /\ handler[c] # "sending"
        /\ pc[c] = "waiting" =>
             /\ down[c] # << >> =>
                  /\ up[c] = << >> /\ handler[c] # "sending"
                  /\ Len(got[c]) + Len(down[c]) = typed[c]
             /\ handler[c] = "sending" => up[c] = << >>

ConnOK(c) == StreamOK(c) /\ TurnOK(c)

\* Whoever waits in the backlog, or has just been accepted, has no handler yet.
Waits(c) == handler[c] = "none" /\ pc[c] # "start"

QueueOK ==
    /\ \A k \in 1 .. Len(backlog) : Waits(backlog[k])
    /\ \A j, k \in 1 .. Len(backlog) : backlog[j] = backlog[k] => j = k
    /\ server = "got" =>
         new \in Clients /\ Waits(new) /\ \A k \in 1 .. Len(backlog) : backlog[k] # new

Inv == Typed /\ QueueOK /\ \A c \in Clients : ConnOK(c)

-----------------------------------------------------------------------------
(***************************************************************************)
(* Bytes in their order.                                                   *)
(***************************************************************************)

\* What a call returns is part of what there is; on a UNIX socket it is all.
LEMMA SizesFacts ==
    ASSUME NEW limit \in Nat, NEW b \in Seq(Bytes), b # << >>, NEW n \in Sizes(limit, b)
    PROVE  n \in 1 .. Len(b) /\ (~Tcp => n = Len(b))
<1>1. Len(b) \in Nat /\ Len(b) # 0
  BY EmptySeq
<1> QED BY <1>1 DEF Sizes

\* Bytes and those that follow them follow as one.
LEMMA FollowsConcat ==
    ASSUME NEW c, NEW s \in Seq(Bytes), NEW t \in Seq(Bytes), NEW k \in Nat,
           Follows(c, s, k), Follows(c, t, k + Len(s))
    PROVE  s \o t \in Seq(Bytes) /\ Len(s \o t) = Len(s) + Len(t) /\ Follows(c, s \o t, k)
<1>1. /\ s \o t \in Seq(Bytes) /\ Len(s \o t) = Len(s) + Len(t)
      /\ \A n \in 1 .. Len(s) + Len(t) : (s \o t)[n] = IF n <= Len(s) THEN s[n] ELSE t[n - Len(s)]
  BY ConcatProperties
<1>2. Len(s) \in Nat /\ Len(t) \in Nat
  BY LenProperties
<1>3. ASSUME NEW n \in 1 .. Len(s \o t) PROVE (s \o t)[n] = <<c, k + n>>
  <2>1. CASE n <= Len(s)
    <3>1. (s \o t)[n] = s[n] /\ n \in 1 .. Len(s)
      BY <1>1, <1>2, <2>1
    <3> QED BY <3>1 DEF Follows
  <2>2. CASE ~(n <= Len(s))
    <3>1. (s \o t)[n] = t[n - Len(s)] /\ n - Len(s) \in 1 .. Len(t)
      BY <1>1, <1>2, <2>2
    <3>2. t[n - Len(s)] = <<c, (k + Len(s)) + (n - Len(s))>>
      BY <3>1 DEF Follows
    <3>3. (k + Len(s)) + (n - Len(s)) = k + n
      BY <1>1, <1>2
    <3> QED BY <3>1, <3>2, <3>3
  <2> QED BY <2>1, <2>2
<1> QED BY <1>1, <1>3 DEF Follows

\* The first n bytes are cut off.
LEMMA FollowsCut ==
    ASSUME NEW c, NEW s \in Seq(Bytes), NEW k \in Nat, NEW n \in 1 .. Len(s)
    PROVE  /\ SubSeq(s, 1, n) \in Seq(Bytes) /\ Len(SubSeq(s, 1, n)) = n
           /\ Drop(n, s) \in Seq(Bytes) /\ Len(Drop(n, s)) = Len(s) - n
           /\ n = Len(s) => Drop(n, s) = << >>
           /\ Follows(c, s, k) => Follows(c, SubSeq(s, 1, n), k) /\ Follows(c, Drop(n, s), k + n)
<1>1. Len(s) \in Nat /\ n \in Nat /\ n <= Len(s) /\ 1 <= n
  BY LenProperties
<1>2. \A j \in 1 .. Len(s) : s[j] \in Bytes
  BY ElementOfSeq
<1>3. /\ SubSeq(s, 1, n) \in Seq(Bytes) /\ Len(SubSeq(s, 1, n)) = n
      /\ \A j \in 1 .. n : SubSeq(s, 1, n)[j] = s[j]
  <2>1. \A j \in 1 .. n : s[j] \in Bytes
    BY <1>1, <1>2
  <2>2. /\ SubSeq(s, 1, n) \in Seq(Bytes)
        /\ Len(SubSeq(s, 1, n)) = IF 1 <= n THEN n - 1 + 1 ELSE 0
        /\ \A j \in 1 .. n - 1 + 1 : SubSeq(s, 1, n)[j] = s[1 + j - 1]
    BY <1>1, <2>1, SubSeqProperties
  <2> QED BY <1>1, <2>2
<1>4. /\ Drop(n, s) \in Seq(Bytes) /\ Len(Drop(n, s)) = Len(s) - n
      /\ \A j \in 1 .. Len(s) - n : Drop(n, s)[j] = s[n + j]
  <2>1. \A j \in n + 1 .. Len(s) : s[j] \in Bytes
    BY <1>1, <1>2
  <2>2. n + 1 \in Int /\ Len(s) \in Int
    BY <1>1
  <2>3. /\ SubSeq(s, n + 1, Len(s)) \in Seq(Bytes)
        /\ Len(SubSeq(s, n + 1, Len(s))) = IF n + 1 <= Len(s) THEN Len(s) - (n + 1) + 1 ELSE 0
        /\ \A j \in 1 .. Len(s) - (n + 1) + 1 : SubSeq(s, n + 1, Len(s))[j] = s[(n + 1) + j - 1]
    BY <2>1, <2>2, SubSeqProperties
  <2>4. \A l \in Nat : n <= l => (IF n + 1 <= l THEN l - (n + 1) + 1 ELSE 0) = l - n
    BY <1>1
  <2>5. Len(Drop(n, s)) = Len(s) - n
    BY <1>1, <2>3, <2>4 DEF Drop
  <2>6. ASSUME NEW j \in 1 .. Len(s) - n PROVE Drop(n, s)[j] = s[n + j]
    <3>1. j \in 1 .. Len(s) - (n + 1) + 1 /\ (n + 1) + j - 1 = n + j
      BY <1>1
    <3> QED BY <2>3, <3>1 DEF Drop
  <2> QED BY <2>3, <2>5, <2>6 DEF Drop
<1>5. n = Len(s) => Drop(n, s) = << >>
  BY <1>1, <1>4, EmptySeq
<1>6. ASSUME Follows(c, s, k) PROVE Follows(c, SubSeq(s, 1, n), k) /\ Follows(c, Drop(n, s), k + n)
  <2>1. Follows(c, SubSeq(s, 1, n), k)
    BY <1>1, <1>3, <1>6 DEF Follows
  <2>2. ASSUME NEW j \in 1 .. Len(Drop(n, s)) PROVE Drop(n, s)[j] = <<c, (k + n) + j>>
    <3>1. j \in 1 .. Len(s) - n /\ n + j \in 1 .. Len(s) /\ k + (n + j) = (k + n) + j
      BY <1>1, <1>4
    <3>2. Drop(n, s)[j] = s[n + j] /\ s[n + j] = <<c, k + (n + j)>>
      BY <1>4, <1>6, <3>1 DEF Follows
    <3> QED BY <3>1, <3>2
  <2> QED BY <2>1, <2>2 DEF Follows
<1> QED BY <1>3, <1>4, <1>5, <1>6

-----------------------------------------------------------------------------
(***************************************************************************)
(* What a step leaves alone.                                               *)
(***************************************************************************)

\* A handler begins, or ends: nothing of the bytes has moved.
LEMMA ConnKept ==
    ASSUME NEW c \in Clients, ConnOK(c), program' = program, pc'[c] = pc[c], got'[c] = got[c],
           down'[c] = down[c], up'[c] = up[c], typed'[c] = typed[c], chunk'[c] = chunk[c],
           \/ handler'[c] = handler[c]
           \/ handler'[c] = "closed" /\ pc[c] # "start"
           \/ /\ handler[c] \in {"none", "pending"} /\ handler'[c] \in {"pending", "reading"}
              /\ pc[c] # "start"
    PROVE  ConnOK(c)'
<1>1. Present(c)' <=> Present(c)
  BY DEF Present
<1>2. Tcp' <=> Tcp
  BY DEF Tcp
<1>3. /\ handler'[c] = "sending" => handler[c] = "sending"
      /\ handler'[c] # "closed" => handler[c] # "closed" /\ Held(c)' = Held(c)
  BY DEF ConnOK, StreamOK, Held
<1>4. StreamOK(c)'
  BY <1>1, <1>3 DEF ConnOK, StreamOK, Follows
<1>5. TurnOK(c)'
  BY <1>2, <1>3 DEF ConnOK, TurnOK
<1> QED BY <1>4, <1>5 DEF ConnOK

\* A client that has gone has read what it has read.
LEMMA GoneKept ==
    ASSUME NEW c \in Clients, ConnOK(c), program' = program, got'[c] = got[c],
           pc'[c] \in {"done", "failed"}
    PROVE  ConnOK(c)'
BY DEF ConnOK, StreamOK, TurnOK, Present, Follows

\* Connections are closed, which nobody gets out of the backlog by.
LEMMA CloseFacts ==
    ASSUME Typed, QueueOK, NEW gone \in SUBSET Clients, NEW alive, Close(gone, alive),
           \A c \in gone : pc[c] # "start"
    PROVE  /\ handler' \in [Clients -> Handlers] /\ backlog' \in Seq(Clients) /\ Len(backlog') <= Backlog
           /\ \A c \in Clients : handler'[c] = handler[c] \/ (handler'[c] = "closed" /\ pc[c] # "start")
           /\ \A c \in Clients : handler'[c] # handler[c] => c \in gone \/ handler[c] = "none"
           /\ \/ backlog' = backlog /\ \A c \in Clients \ gone : handler'[c] = handler[c]
              \/ ~alive /\ backlog' = << >>
<1> DEFINE waiting == {backlog[k] : k \in 1 .. Len(backlog)}
           held    == alive \/ (Tcp /\ \E c \in Clients \ gone : Active(c))
           closed  == IF held THEN gone ELSE gone \cup waiting
<1>1. /\ handler' = [c \in Clients |-> IF c \in closed THEN "closed" ELSE handler[c]]
      /\ backlog' = IF held THEN backlog ELSE << >>
  BY DEF Close
<1>2. handler \in [Clients -> Handlers] /\ backlog \in Seq(Clients) /\ Len(backlog) <= Backlog
  BY DEF Typed, SrvTyped
<1>3. \A c \in waiting : c \in Clients /\ handler[c] = "none" /\ pc[c] # "start"
  BY <1>2 DEF QueueOK, Waits
<1>4. held => closed = gone
  OBVIOUS
<1>5. ~held => ~alive
  OBVIOUS
<1>6. closed \subseteq gone \cup waiting
  OBVIOUS
<1> HIDE DEF waiting, held, closed
<1>7. handler' \in [Clients -> Handlers]
  BY <1>1, <1>2 DEF Handlers
<1>8. backlog' \in Seq(Clients) /\ Len(backlog') <= Backlog
  BY <1>1, <1>2, ConstantsAssumption
<1>9. \A c \in Clients : handler'[c] = handler[c] \/ (handler'[c] = "closed" /\ pc[c] # "start")
  BY <1>1, <1>3, <1>6
<1>10. \A c \in Clients : handler'[c] # handler[c] => c \in gone \/ handler[c] = "none"
  BY <1>1, <1>3, <1>6
<1>11. \/ backlog' = backlog /\ \A c \in Clients \ gone : handler'[c] = handler[c]
       \/ ~alive /\ backlog' = << >>
  BY <1>1, <1>4, <1>5
<1> QED BY <1>7, <1>8, <1>9, <1>10, <1>11

\* What a step of a handler or of the server's end has to show: it closes connections,
\* none of one who still waits unless all are.
LEMMA ClosedKeeps ==
    ASSUME Inv, NEW gone \in SUBSET Clients, NEW alive, Close(gone, alive),
           \A c \in gone : (~Waits(c) /\ pc[c] # "start") \/ (server = "got" /\ c = new),
           server' \in {"down", "accept", "got", "busy"},
           server' = "got" => server = "got" /\ alive /\ new \notin gone,
           UNCHANGED <<program, new, chunk, up, pc, got, lines, typed, dots, ends, asked>>
    PROVE  /\ SrvTyped' /\ CltTyped' /\ Counted' /\ QueueOK'
           /\ \A c \in Clients : down'[c] = down[c] => ConnOK(c)'
<1>1. \A c \in gone : pc[c] # "start"
  BY DEF Inv, QueueOK, Waits
<1>2. /\ handler' \in [Clients -> Handlers] /\ backlog' \in Seq(Clients) /\ Len(backlog') <= Backlog
      /\ \A c \in Clients : handler'[c] = handler[c] \/ (handler'[c] = "closed" /\ pc[c] # "start")
      /\ \A c \in Clients : handler'[c] # handler[c] => c \in gone \/ handler[c] = "none"
      /\ \/ backlog' = backlog /\ \A c \in Clients \ gone : handler'[c] = handler[c]
         \/ ~alive /\ backlog' = << >>
  BY <1>1, CloseFacts DEF Inv
<1>3. SrvTyped'
  BY <1>2 DEF Inv, Typed, SrvTyped
<1>4. CltTyped' /\ Counted'
  BY DEF Inv, Typed, CltTyped, Counted
<1>5. ASSUME NEW c \in Clients, down'[c] = down[c] PROVE ConnOK(c)'
  BY <1>2, <1>5, ConnKept DEF Inv
<1>6. QueueOK'
  <2>1. CASE backlog' = backlog /\ \A c \in Clients \ gone : handler'[c] = handler[c]
    <3>1. ASSUME NEW k \in 1 .. Len(backlog) PROVE backlog[k] \in Clients \ gone
      <4>1. backlog[k] \in Clients /\ Waits(backlog[k]) /\ (server = "got" => backlog[k] # new)
        BY DEF Inv, Typed, SrvTyped, QueueOK
      <4> QED BY <4>1
    <3>2. server' = "got" => new \in Clients \ gone
      BY DEF Inv, QueueOK
    <3> QED BY <2>1, <3>1, <3>2 DEF Inv, QueueOK, Waits
  <2>2. CASE ~alive /\ backlog' = << >>
    BY <2>2 DEF QueueOK
  <2> QED BY <1>2, <2>1, <2>2
<1> QED BY <1>3, <1>4, <1>5, <1>6

-----------------------------------------------------------------------------
(***************************************************************************)
(* The server.                                                             *)
(***************************************************************************)

\* Nobody has connected at first.
LEMMA InvInit == ConstantsAssumption /\ Init => Inv
<1> SUFFICES ASSUME ConstantsAssumption, Init PROVE Inv
  OBVIOUS
<1>1. SrvTyped /\ CltTyped
  BY DEF Init, SrvTyped, CltTyped, Handlers, Places, ConstantsAssumption
<1>2. BytesTyped
  BY DEF Init, BytesTyped
<1>3. Counted
  <2>1. 0 * MaxBytes = 0 /\ \A c \in Clients : MaxLines[c] \in Nat
    BY DEF ConstantsAssumption
  <2> QED BY <2>1 DEF Init, Counted
<1>4. QueueOK
  BY DEF Init, QueueOK
<1>5. ASSUME NEW c \in Clients PROVE ConnOK(c)
  BY DEF Init, ConnOK, StreamOK, TurnOK, Present, Follows
<1> QED BY <1>1, <1>2, <1>3, <1>4, <1>5 DEF Inv, Typed

\* A step that moves no byte and no client, and at most begins a handler, keeps what
\* there is of the bytes and the clients.
LEMMA QuietKeeps ==
    ASSUME Inv, UNCHANGED <<program, chunk, up, down, cltVars>>,
           \A c \in Clients :
             \/ handler'[c] = handler[c]
             \/ handler'[c] = "closed" /\ pc[c] # "start"
             \/ /\ handler[c] \in {"none", "pending"} /\ handler'[c] \in {"pending", "reading"}
                /\ pc[c] # "start"
    PROVE  BytesTyped' /\ CltTyped' /\ Counted' /\ \A c \in Clients : ConnOK(c)'
<1>1. UNCHANGED <<program, chunk, up, down, pc, lines, typed, dots, ends, asked, got>>
  BY DEF cltVars
<1>2. BytesTyped' /\ CltTyped' /\ Counted'
  BY <1>1 DEF Inv, Typed, BytesTyped, CltTyped, Counted
<1>3. ASSUME NEW c \in Clients PROVE ConnOK(c)'
  BY <1>1, ConnKept DEF Inv
<1> QED BY <1>2, <1>3

\* The server begins to listen.
LEMMA StartKeeps == ASSUME Inv, Start PROVE Inv'
<1>1. server' = "accept" /\ UNCHANGED <<program, backlog, new, handler, chunk, up, down, cltVars>>
  BY DEF Start
<1>2. SrvTyped'
  BY <1>1 DEF Inv, Typed, SrvTyped
<1>3. QueueOK'
  BY <1>1 DEF Inv, QueueOK, Waits, cltVars
<1> QED BY <1>1, <1>2, <1>3, QuietKeeps DEF Inv, Typed

\* The one accepted has waited, and is not in the backlog any more.
LEMMA AcceptKeeps == ASSUME Inv, Accept PROVE Inv'
<1>1. /\ backlog # << >> /\ backlog \in Seq(Clients) /\ Len(backlog) <= Backlog
      /\ new' = Head(backlog) /\ backlog' = Tail(backlog) /\ server' = "got"
      /\ UNCHANGED <<program, handler, chunk, up, down, cltVars>>
  BY DEF Accept, Inv, Typed, SrvTyped
<1>2. /\ new' = backlog[1] /\ 1 \in 1 .. Len(backlog) /\ new' \in Clients
      /\ backlog' \in Seq(Clients) /\ Len(backlog') = Len(backlog) - 1
      /\ \A k \in 1 .. Len(backlog') : /\ k + 1 \in 1 .. Len(backlog) /\ k + 1 # 1
                                       /\ backlog'[k] = backlog[k + 1]
  BY <1>1
<1>3. SrvTyped'
  BY <1>1, <1>2, ConstantsAssumption DEF Inv, Typed, SrvTyped
<1>4. QueueOK'
  <2>1. \A c \in Clients : Waits(c)' <=> Waits(c)
    BY <1>1 DEF Waits, cltVars
  <2>2. \A k \in 1 .. Len(backlog) : backlog[k] \in Clients
    BY <1>1
  <2>3. handler'[new'] = "none" /\ pc'[new'] # "start"
    BY <1>1, <1>2 DEF Inv, QueueOK, Waits, cltVars
  <2>4. \A k \in 1 .. Len(backlog') : handler'[backlog'[k]] = "none" /\ pc'[backlog'[k]] # "start"
    BY <1>1, <1>2 DEF Inv, QueueOK, Waits, cltVars
  <2>5. \A k \in 1 .. Len(backlog') : backlog'[k] # new'
    BY <1>2 DEF Inv, QueueOK
  <2>6. \A j, k \in 1 .. Len(backlog') : backlog'[j] = backlog'[k] => j = k
    <3>1. SUFFICES ASSUME NEW j \in 1 .. Len(backlog'), NEW k \in 1 .. Len(backlog'),
                          backlog'[j] = backlog'[k]
                   PROVE  j = k
      OBVIOUS
    <3>2. j + 1 \in 1 .. Len(backlog) /\ k + 1 \in 1 .. Len(backlog) /\ backlog[j + 1] = backlog[k + 1]
      BY <1>2, <3>1
    <3>3. j + 1 = k + 1
      BY <3>2 DEF Inv, QueueOK
    <3> QED BY <1>2, <3>3
  <2> QED BY <1>2, <2>3, <2>4, <2>5, <2>6 DEF QueueOK, Waits
<1> QED BY <1>1, <1>3, <1>4, QuietKeeps DEF Inv, Typed

\* The connection accepted gets its handler, or is closed.
LEMMA ServeKeeps ==
    ASSUME Inv, NEW label \in {"reading", "pending", "closed"}, NEW state \in {"busy", "accept"},
           Serve(label, state)
    PROVE  Inv'
<1>1. /\ server = "got" /\ handler' = [handler EXCEPT ![new] = label] /\ server' = state
      /\ UNCHANGED <<program, backlog, new, chunk, up, down, cltVars>>
  BY DEF Serve
<1>2. /\ new \in Clients /\ Waits(new) /\ \A k \in 1 .. Len(backlog) : backlog[k] # new
      /\ handler \in [Clients -> Handlers]
  BY <1>1 DEF Inv, QueueOK, Typed, SrvTyped
<1>3. handler' \in [Clients -> Handlers] /\ handler'[new] = label
      /\ \A c \in Clients : c # new => handler'[c] = handler[c]
  BY <1>1, <1>2 DEF Handlers
<1>4. SrvTyped'
  BY <1>1, <1>3 DEF Inv, Typed, SrvTyped
<1>5. QueueOK'
  <2>1. \A k \in 1 .. Len(backlog) : backlog[k] \in Clients
    BY DEF Inv, Typed, SrvTyped
  <2> QED BY <1>1, <1>2, <1>3, <2>1 DEF Inv, QueueOK, Waits, cltVars
<1>6. BytesTyped' /\ CltTyped' /\ Counted' /\ \A c \in Clients : ConnOK(c)'
  <2>1. ASSUME NEW c \in Clients
        PROVE  \/ handler'[c] = handler[c]
               \/ handler'[c] = "closed" /\ pc[c] # "start"
               \/ /\ handler[c] \in {"none", "pending"} /\ handler'[c] \in {"pending", "reading"}
                  /\ pc[c] # "start"
    BY <1>2, <1>3 DEF Waits
  <2> QED BY <1>1, <2>1, QuietKeeps
<1> QED BY <1>4, <1>5, <1>6 DEF Inv, Typed

\* A step of the handler of c alone: whoever waits still does.
LEMMA HandlerMoves ==
    ASSUME Inv, NEW c \in Clients, handler[c] \in {"pending", "reading", "sending"},
           NEW to \in {"reading", "sending"}, handler' = [handler EXCEPT ![c] = to],
           UNCHANGED <<program, server, backlog, new, cltVars>>
    PROVE  /\ SrvTyped' /\ QueueOK' /\ CltTyped' /\ Counted' /\ handler'[c] = to
           /\ \A d \in Clients : d # c => handler'[d] = handler[d]
<1>1. /\ handler \in [Clients -> Handlers]
      /\ UNCHANGED <<pc, lines, typed, dots, ends, asked, got>>
  BY DEF Inv, Typed, SrvTyped, cltVars
<1>2. /\ handler' \in [Clients -> Handlers] /\ handler'[c] = to
      /\ \A d \in Clients : d # c => handler'[d] = handler[d]
  BY <1>1 DEF Handlers
<1>3. SrvTyped' /\ CltTyped' /\ Counted'
  BY <1>1, <1>2 DEF Inv, Typed, SrvTyped, CltTyped, Counted
<1>4. QueueOK'
  <2>1. \A k \in 1 .. Len(backlog) : backlog[k] \in Clients /\ backlog[k] # c
    BY DEF Inv, Typed, SrvTyped, QueueOK, Waits
  <2>2. server = "got" => new # c
    BY DEF Inv, QueueOK, Waits
  <2> QED BY <1>1, <1>2, <2>1, <2>2 DEF Inv, QueueOK, Waits
<1> QED BY <1>2, <1>3, <1>4

\* A thread begins.
LEMMA ThreadBeginsKeeps == ASSUME Inv, NEW c \in Clients, ThreadBegins(c) PROVE Inv'
<1>1. /\ handler[c] = "pending" /\ handler' = [handler EXCEPT ![c] = "reading"]
      /\ UNCHANGED <<program, server, backlog, new, chunk, up, down, cltVars>>
  BY DEF ThreadBegins
<1>2. /\ SrvTyped' /\ QueueOK' /\ handler'[c] = "reading"
      /\ \A d \in Clients : d # c => handler'[d] = handler[d]
  BY <1>1, HandlerMoves
<1>3. pc[c] # "start"
  BY <1>1 DEF Inv, ConnOK, StreamOK
<1> QED BY <1>1, <1>2, <1>3, QuietKeeps DEF Inv, Typed

\* What the handler reads was next; with echo_client it was all.
LEMMA HandlerReadsKeeps == ASSUME Inv, NEW c \in Clients, HandlerReads(c) PROVE Inv'
<1>1. PICK n \in Sizes(Len(up[c]), up[c]) :
         /\ chunk' = [chunk EXCEPT ![c] = SubSeq(up[c], 1, n)]
         /\ up' = [up EXCEPT ![c] = Drop(n, @)]
  BY DEF HandlerReads
<1>2. /\ handler[c] = "reading" /\ up[c] # << >> /\ handler' = [handler EXCEPT ![c] = "sending"]
      /\ UNCHANGED <<program, server, backlog, new, down, cltVars>>
  BY DEF HandlerReads
<1>3. /\ SrvTyped' /\ QueueOK' /\ CltTyped' /\ Counted' /\ handler'[c] = "sending"
      /\ \A d \in Clients : d # c => handler'[d] = handler[d]
  BY <1>2, HandlerMoves
<1>4. /\ chunk \in [Clients -> Seq(Bytes)] /\ up \in [Clients -> Seq(Bytes)]
      /\ down \in [Clients -> Seq(Bytes)] /\ got \in [Clients -> Seq(Bytes)]
  BY DEF Inv, Typed, BytesTyped
<1>5. n \in 1 .. Len(up[c]) /\ (~Tcp => n = Len(up[c]))
  <2>1. up[c] \in Seq(Bytes) /\ Len(up[c]) \in Nat
    BY <1>4, LenProperties
  <2>2. \A b \in Seq(Bytes) : b = up[c] /\ b # << >> => n \in 1 .. Len(b) /\ (~Tcp => n = Len(b))
    <3>1. SUFFICES ASSUME NEW b \in Seq(Bytes), b = up[c], b # << >>
                   PROVE  n \in 1 .. Len(b) /\ (~Tcp => n = Len(b))
      OBVIOUS
    <3>2. n \in Sizes(Len(b), b) /\ Len(b) \in Nat
      BY <2>1, <3>1
    <3> QED BY <3>1, <3>2, SizesFacts
  <2> QED BY <1>2, <2>1, <2>2
<1> DEFINE b == up[c]
           k == Len(got[c]) + Len(down[c])
<1>6. /\ chunk' = [chunk EXCEPT ![c] = SubSeq(b, 1, n)] /\ up' = [up EXCEPT ![c] = Drop(n, b)]
      /\ b \in Seq(Bytes) /\ n \in 1 .. Len(b) /\ k \in Nat /\ Len(b) \in Nat
  BY <1>1, <1>4, <1>5, LenProperties
<1>7. /\ SubSeq(b, 1, n) \in Seq(Bytes) /\ Len(SubSeq(b, 1, n)) = n
      /\ Drop(n, b) \in Seq(Bytes) /\ Len(Drop(n, b)) = Len(b) - n
      /\ n = Len(b) => Drop(n, b) = << >>
      /\ Follows(c, b, k) => Follows(c, SubSeq(b, 1, n), k) /\ Follows(c, Drop(n, b), k + n)
  <2> HIDE DEF b, k
  <2> QED BY <1>6, FollowsCut
<1>8. /\ chunk'[c] = SubSeq(b, 1, n) /\ up'[c] = Drop(n, b)
      /\ chunk' \in [Clients -> Seq(Bytes)] /\ up' \in [Clients -> Seq(Bytes)]
      /\ \A d \in Clients : d # c => chunk'[d] = chunk[d] /\ up'[d] = up[d]
  BY <1>4, <1>6, <1>7
<1>9. BytesTyped'
  BY <1>2, <1>4, <1>8 DEF BytesTyped, cltVars
<1>10. UNCHANGED <<pc, got, down, typed, program>>
  BY <1>2 DEF cltVars
<1>11. ASSUME NEW d \in Clients PROVE ConnOK(d)'
  <2>1. CASE d # c
    BY <1>3, <1>8, <1>10, <2>1, ConnKept DEF Inv
  <2>2. CASE d = c
    <3>1. ConnOK(c) /\ (Present(c)' <=> Present(c)) /\ (Tcp' <=> Tcp)
      BY <1>10 DEF Inv, Present, Tcp
    <3>2. Held(c) = 0 /\ Held(c)' = n
      BY <1>2, <1>3, <1>7, <1>8 DEF Held
    <3>3. Present(c) => Follows(c, b, k) /\ k + Len(b) = typed[c]
      <4>1. Present(c) => Follows(c, b, k + Held(c)) /\ k + Held(c) + Len(b) = typed[c]
        BY <1>2, <3>1 DEF ConnOK, StreamOK
      <4>2. k + Held(c) = k
        BY <1>6, <3>2
      <4> QED BY <4>1, <4>2
    <3>4. Present(c)' =>
            /\ Follows(c, chunk'[c], k) /\ Follows(c, up'[c], k + n)
            /\ k + n + Len(up'[c]) = typed[c]
      <4>1. \A x, y \in Nat : x + n + (y - n) = x + y
        BY <1>6
      <4>2. k + n + Len(up'[c]) = k + Len(b)
        BY ZenonT(30), <1>6, <1>7, <1>8, <4>1
      <4>3. chunk'[c] = SubSeq(b, 1, n) /\ up'[c] = Drop(n, b)
        BY <1>8
      <4> HIDE DEF b, k
      <4> QED BY <1>7, <3>1, <3>3, <4>2, <4>3
    <3>5. pc[c] # "start"
      BY <1>2, <3>1 DEF ConnOK, StreamOK
    <3>6. StreamOK(c)'
      BY <1>3, <1>10, <3>1, <3>2, <3>4, <3>5 DEF ConnOK, StreamOK, Follows
    <3>7. TurnOK(c)'
      BY <1>2, <1>3, <1>5, <1>7, <1>8, <1>10, <3>1 DEF ConnOK, TurnOK
    <3> QED BY <2>2, <3>6, <3>7 DEF ConnOK
  <2> QED BY <2>1, <2>2
<1> QED BY <1>3, <1>9, <1>11 DEF Inv, Typed

\* A handler that ends closes its own connection, and of the others only those that still wait.
LEMMA HandlerEndsKeeps ==
    ASSUME Inv, NEW c \in Clients, handler[c] \in {"reading", "sending"}, HandlerEnds(c),
           UNCHANGED <<up, cltVars>>
    PROVE  /\ SrvTyped' /\ CltTyped' /\ Counted' /\ QueueOK' /\ handler'[c] = "closed"
           /\ \A d \in Clients : down'[d] = down[d] => ConnOK(d)'
<1>1. /\ Close({c}, server # "down") /\ server' = IF server = "busy" THEN "accept" ELSE server
      /\ UNCHANGED <<program, new, chunk, up, pc, got, lines, typed, dots, ends, asked>>
  BY DEF HandlerEnds, cltVars
<1>2. ~Waits(c) /\ pc[c] # "start"
  BY DEF Inv, ConnOK, StreamOK, Waits
<1>3. server' \in {"down", "accept", "got", "busy"}
  BY <1>1 DEF Inv, Typed, SrvTyped
<1>4. server' = "got" => server = "got" /\ server # "down" /\ new \notin {c}
  BY <1>1, <1>2 DEF Inv, QueueOK
<1>5. ASSUME NEW alive, alive = (server # "down"), NEW gone \in SUBSET Clients, gone = {c}
      PROVE  /\ SrvTyped' /\ CltTyped' /\ Counted' /\ QueueOK'
             /\ \A d \in Clients : down'[d] = down[d] => ConnOK(d)'
  <2>1. Close(gone, alive) /\ (\A d \in gone : (~Waits(d) /\ pc[d] # "start") \/ (server = "got" /\ d = new))
    BY <1>1, <1>2, <1>5
  <2>2. server' = "got" => server = "got" /\ alive /\ new \notin gone
    BY <1>4, <1>5
  <2> QED BY <1>1, <1>3, <2>1, <2>2, ClosedKeeps
<1>6. handler'[c] = "closed"
  BY <1>1 DEF Close
<1> QED BY <1>5, <1>6

\* The server's end closes what its threads have and the connection just accepted.
LEMMA ServerDiesKeeps ==
    ASSUME Inv, ServerDies, UNCHANGED <<up, down, cltVars>>
    PROVE  Inv'
<1> DEFINE mine == {c \in Clients : Active(c) /\ ~Tcp} \cup (IF server = "got" THEN {new} ELSE {})
<1>1. /\ Close(mine, FALSE) /\ server' = "down"
      /\ UNCHANGED <<program, new, chunk, up, down, pc, got, lines, typed, dots, ends, asked>>
  BY DEF ServerDies, cltVars
<1>2. mine \in SUBSET Clients
  BY DEF Inv, QueueOK
<1>3. \A c \in mine : (~Waits(c) /\ pc[c] # "start") \/ (server = "got" /\ c = new)
  BY DEF Active, Inv, ConnOK, StreamOK, Waits
<1> HIDE DEF mine
<1>4. /\ SrvTyped' /\ CltTyped' /\ Counted' /\ QueueOK'
      /\ \A d \in Clients : down'[d] = down[d] => ConnOK(d)'
  BY <1>1, <1>2, <1>3, ClosedKeeps
<1>5. BytesTyped'
  BY <1>1 DEF Inv, Typed, BytesTyped
<1> QED BY <1>1, <1>4, <1>5 DEF Inv, Typed

\* The client has closed, and the handler with it.
LEMMA HandlerReadsEndKeeps == ASSUME Inv, NEW c \in Clients, HandlerReadsEnd(c) PROVE Inv'
<1>1. /\ handler[c] \in {"reading", "sending"} /\ HandlerEnds(c)
      /\ UNCHANGED <<up, down, cltVars>> /\ UNCHANGED <<chunk, got>>
  BY DEF HandlerReadsEnd, HandlerEnds, cltVars
<1>2. /\ SrvTyped' /\ CltTyped' /\ Counted' /\ QueueOK'
      /\ \A d \in Clients : down'[d] = down[d] => ConnOK(d)'
  BY <1>1, HandlerEndsKeeps
<1>3. BytesTyped'
  BY <1>1 DEF Inv, Typed, BytesTyped
<1> QED BY <1>1, <1>2, <1>3 DEF Inv, Typed

\* What is sent comes behind what has been sent, and echo_client has then been answered.
LEMMA SentInOrder ==
    ASSUME Inv, NEW c \in Clients, handler[c] = "sending", Present(c),
           down' = [down EXCEPT ![c] = @ \o chunk[c]], UNCHANGED <<program, up, chunk, cltVars>>,
           handler'[c] \in {"reading", "closed"}
    PROVE  BytesTyped' /\ ConnOK(c)' /\ \A d \in Clients : d # c => down'[d] = down[d]
<1>1. /\ chunk \in [Clients -> Seq(Bytes)] /\ up \in [Clients -> Seq(Bytes)]
      /\ down \in [Clients -> Seq(Bytes)] /\ got \in [Clients -> Seq(Bytes)]
      /\ UNCHANGED <<pc, got, typed>>
  BY DEF Inv, Typed, BytesTyped, cltVars
<1>2. ConnOK(c) /\ (Present(c)' <=> Present(c)) /\ (Tcp' <=> Tcp)
  BY <1>1 DEF Inv, Present, Tcp
<1> DEFINE s == down[c]
           t == chunk[c]
           k == Len(got[c])
<1>3. /\ s \in Seq(Bytes) /\ t \in Seq(Bytes) /\ k \in Nat /\ Len(s) \in Nat /\ Len(t) \in Nat
      /\ Len(up[c]) \in Nat
  BY <1>1, LenProperties
<1>4. /\ Follows(c, s, k) /\ Follows(c, t, k + Len(s)) /\ Follows(c, up[c], k + Len(s) + Len(t))
      /\ k + Len(s) + Len(t) + Len(up[c]) = typed[c]
  BY <1>2 DEF ConnOK, StreamOK, Held
<1>5. s \o t \in Seq(Bytes) /\ Len(s \o t) = Len(s) + Len(t) /\ Follows(c, s \o t, k)
  <2> HIDE DEF s, t, k
  <2> QED BY <1>3, <1>4, FollowsConcat
<1>6. /\ down'[c] = s \o t /\ down' \in [Clients -> Seq(Bytes)]
      /\ \A d \in Clients : d # c => down'[d] = down[d]
  BY <1>1, <1>5
<1>7. Held(c)' = 0
  BY DEF Held
<1>8. /\ Follows(c, down'[c], k) /\ Follows(c, up[c], k + Len(down'[c]) + 0)
      /\ k + Len(down'[c]) + 0 + Len(up[c]) = typed[c]
  <2>1. ASSUME NEW x \in Nat, NEW y \in Nat, NEW z \in Nat, NEW w, w = y + z
        PROVE  x + w + 0 = x + y + z
    BY <2>1
  <2>2. Len(down'[c]) = Len(s) + Len(t) /\ Len(down'[c]) \in Nat
    BY <1>3, <1>5, <1>6
  <2> HIDE DEF s, t, k
  <2>3. k + Len(down'[c]) + 0 = k + Len(s) + Len(t)
    <3>1. ASSUME NEW w, NEW y, NEW z, w = Len(down'[c]), y = Len(s), z = Len(t)
          PROVE  k + w + 0 = k + y + z
      <4>1. k \in Nat /\ y \in Nat /\ z \in Nat /\ w = y + z
        BY <1>3, <2>2, <3>1
      <4> QED BY <2>1, <4>1
    <3> QED BY <3>1
  <2> QED BY <1>4, <1>5, <1>6, <2>3
<1>9. pc[c] # "start"
  BY DEF Present
<1>10. StreamOK(c)'
  BY <1>1, <1>2, <1>7, <1>8, <1>9 DEF ConnOK, StreamOK, Follows
<1>11. TurnOK(c)'
  <2>1. SUFFICES ASSUME ~Tcp PROVE TurnOK(c)'
    BY <1>2 DEF TurnOK
  <2>2. pc[c] = "waiting" /\ up[c] = << >>
    BY <1>2, <2>1 DEF ConnOK, TurnOK, Present
  <2>3. Len(up[c]) = 0
    BY <2>2
  <2>4. k + Len(down'[c]) = typed[c]
    <3>1. \A x, y, z \in Nat : z = 0 => x + y + 0 + z = x + y
      OBVIOUS
    <3>2. Len(down'[c]) \in Nat
      BY <1>3, <1>5, <1>6
    <3> HIDE DEF k
    <3> QED BY <1>3, <1>8, <2>3, <3>1, <3>2
  <2> QED BY <1>1, <2>2, <2>4 DEF TurnOK
<1>12. BytesTyped'
  BY <1>1, <1>6 DEF BytesTyped
<1> QED BY <1>6, <1>10, <1>11, <1>12 DEF ConnOK

\* The handler goes on, or a child of sock_c_i_srv has seen a '.'.
LEMMA HandlerSendsKeeps == ASSUME Inv, NEW c \in Clients, HandlerSends(c) PROVE Inv'
<1>1. /\ handler[c] = "sending" /\ Present(c) /\ down' = [down EXCEPT ![c] = @ \o chunk[c]]
      /\ UNCHANGED <<program, up, chunk, cltVars>>
  BY DEF HandlerSends, HandlerEnds
<1>2. CASE HandlerEnds(c)
  <2>1. /\ SrvTyped' /\ CltTyped' /\ Counted' /\ QueueOK' /\ handler'[c] = "closed"
        /\ \A d \in Clients : down'[d] = down[d] => ConnOK(d)'
    BY <1>1, <1>2, HandlerEndsKeeps
  <2>2. BytesTyped' /\ ConnOK(c)' /\ \A d \in Clients : d # c => down'[d] = down[d]
    BY <1>1, <2>1, SentInOrder
  <2> QED BY <2>1, <2>2 DEF Inv, Typed
<1>3. CASE /\ handler' = [handler EXCEPT ![c] = "reading"]
           /\ UNCHANGED <<program, server, backlog, new, chunk>>
  <2>1. /\ SrvTyped' /\ QueueOK' /\ CltTyped' /\ Counted' /\ handler'[c] = "reading"
        /\ \A d \in Clients : d # c => handler'[d] = handler[d]
    BY <1>1, <1>3, HandlerMoves
  <2>2. BytesTyped' /\ ConnOK(c)' /\ \A d \in Clients : d # c => down'[d] = down[d]
    BY <1>1, <2>1, SentInOrder
  <2>3. ASSUME NEW d \in Clients, d # c PROVE ConnOK(d)'
    BY <1>1, <2>1, <2>2, <2>3, ConnKept DEF Inv, cltVars
  <2> QED BY <2>1, <2>2, <2>3 DEF Inv, Typed
<1> QED BY <1>2, <1>3 DEF HandlerSends

\* To a client that has gone nothing is sent.
LEMMA HandlerSendFailsKeeps == ASSUME Inv, NEW c \in Clients, HandlerSendFails(c) PROVE Inv'
<1>1. handler[c] = "sending" /\ ~Present(c) /\ UNCHANGED <<up, down, cltVars>>
  BY DEF HandlerSendFails
<1>2. CASE ServerDies
  BY <1>1, <1>2, ServerDiesKeeps
<1>3. CASE HandlerEnds(c)
  <2>1. /\ SrvTyped' /\ CltTyped' /\ Counted' /\ QueueOK'
        /\ \A d \in Clients : down'[d] = down[d] => ConnOK(d)'
    BY <1>1, <1>3, HandlerEndsKeeps
  <2>2. BytesTyped'
    BY <1>1, <1>3 DEF Inv, Typed, BytesTyped, HandlerEnds, cltVars
  <2> QED BY <1>1, <2>1, <2>2 DEF Inv, Typed
<1>4. CASE /\ handler' = [handler EXCEPT ![c] = "reading"]
           /\ UNCHANGED <<program, server, backlog, new, chunk>>
  <2>1. /\ SrvTyped' /\ QueueOK' /\ CltTyped' /\ Counted'
        /\ \A d \in Clients : d # c => handler'[d] = handler[d]
    BY <1>1, <1>4, HandlerMoves
  <2>2. BytesTyped' /\ UNCHANGED <<pc, got, typed>>
    BY <1>1, <1>4 DEF Inv, Typed, BytesTyped, cltVars
  <2>3. ASSUME NEW d \in Clients PROVE ConnOK(d)'
    <3>1. CASE d # c
      BY <1>1, <1>4, <2>1, <2>2, <3>1, ConnKept DEF Inv
    <3>2. CASE d = c
      <4>1. pc'[c] \in {"done", "failed"}
        BY <1>1, <2>2 DEF Inv, Typed, CltTyped, Places, Present, ConnOK, StreamOK
      <4> QED BY <1>4, <2>2, <3>2, <4>1, GoneKept DEF Inv
    <3> QED BY <3>1, <3>2
  <2> QED BY <2>1, <2>2, <2>3 DEF Inv, Typed
<1> QED BY <1>2, <1>3, <1>4 DEF HandlerSendFails

-----------------------------------------------------------------------------
(***************************************************************************)
(* The clients.                                                            *)
(***************************************************************************)

\* A client that has connected waits in the backlog, once.
LEMMA ConnectKeeps == ASSUME Inv, NEW c \in Clients, Connect(c) PROVE Inv'
<1>1. /\ pc[c] = "start" /\ Len(backlog) < Backlog /\ backlog' = Append(backlog, c)
      /\ pc' = [pc EXCEPT ![c] = "prompt"]
      /\ UNCHANGED <<program, server, new, handler, chunk, up, down, lines, typed, dots, ends, asked, got>>
  BY DEF Connect
<1>2. /\ backlog \in Seq(Clients) /\ pc \in [Clients -> Places] /\ Len(backlog) \in Nat
      /\ ConnOK(c) /\ handler[c] = "none"
  BY <1>1, LenProperties DEF Inv, Typed, SrvTyped, CltTyped, ConnOK, StreamOK
<1>3. /\ pc' \in [Clients -> Places] /\ pc'[c] = "prompt"
      /\ \A d \in Clients : d # c => pc'[d] = pc[d]
  BY <1>1, <1>2 DEF Places
<1>4. /\ backlog' \in Seq(Clients) /\ Len(backlog') = Len(backlog) + 1
      /\ \A k \in 1 .. Len(backlog) : backlog'[k] = backlog[k] /\ backlog[k] \in Clients
      /\ backlog'[Len(backlog) + 1] = c
  BY <1>1, <1>2
<1>5. SrvTyped'
  BY <1>1, <1>2, <1>4, ConstantsAssumption DEF Inv, Typed, SrvTyped
<1>6. BytesTyped' /\ CltTyped' /\ Counted'
  BY <1>1, <1>3 DEF Inv, Typed, BytesTyped, CltTyped, Counted
<1>7. QueueOK'
  <2>1. \A k \in 1 .. Len(backlog) : backlog[k] # c
    BY <1>1 DEF Inv, QueueOK, Waits
  <2>2. \A k \in 1 .. Len(backlog') : k \in 1 .. Len(backlog) \/ k = Len(backlog) + 1
    BY <1>2, <1>4
  <2>3. \A k \in 1 .. Len(backlog') : handler[backlog'[k]] = "none" /\ pc'[backlog'[k]] # "start"
    BY <1>2, <1>3, <1>4, <2>1, <2>2 DEF Inv, QueueOK, Waits
  <2>4. \A j, k \in 1 .. Len(backlog') : backlog'[j] = backlog'[k] => j = k
    BY <1>4, <2>1, <2>2 DEF Inv, QueueOK
  <2>5. server = "got" => new \in Clients /\ Waits(new) /\ new # c /\ \A k \in 1 .. Len(backlog) : backlog[k] # new
    BY <1>1 DEF Inv, QueueOK, Waits
  <2>6. server = "got" => /\ handler[new] = "none" /\ pc'[new] # "start"
                          /\ \A k \in 1 .. Len(backlog') : backlog'[k] # new
    BY <1>3, <1>4, <2>2, <2>5 DEF Waits
  <2> QED BY <1>1, <2>3, <2>4, <2>5, <2>6 DEF QueueOK, Waits
<1>8. ASSUME NEW d \in Clients PROVE ConnOK(d)'
  <2>1. CASE d # c
    BY <1>1, <1>3, <2>1, ConnKept DEF Inv
  <2>2. CASE d = c
    <3>1. got[c] = << >> /\ down[c] = << >> /\ up[c] = << >> /\ typed[c] = 0
      BY <1>1, <1>2 DEF ConnOK, StreamOK
    <3>2. Held(c)' = 0
      BY <1>1, <1>2 DEF Held
    <3>3. StreamOK(c)'
      BY <1>1, <1>2, <1>3, <3>1, <3>2 DEF StreamOK, Follows
    <3>4. TurnOK(c)'
      BY <1>1, <1>2, <1>3, <3>1 DEF TurnOK
    <3> QED BY <2>2, <3>3, <3>4 DEF ConnOK
  <2> QED BY <2>1, <2>2
<1> QED BY <1>5, <1>6, <1>7, <1>8 DEF Inv, Typed

\* A client goes from one place to another, not back to its start.
LEMMA PlaceMoves ==
    ASSUME Inv, NEW c \in Clients, NEW to \in Places \ {"start"}, pc' = [pc EXCEPT ![c] = to],
           UNCHANGED srvVars
    PROVE  /\ SrvTyped' /\ QueueOK' /\ pc' \in [Clients -> Places] /\ pc'[c] = to
           /\ \A d \in Clients : d # c => pc'[d] = pc[d]
<1>1. /\ pc' \in [Clients -> Places] /\ pc'[c] = to
      /\ \A d \in Clients : d # c => pc'[d] = pc[d]
  BY DEF Inv, Typed, CltTyped
<1>2. SrvTyped'
  BY DEF Inv, Typed, SrvTyped, srvVars
<1>3. QueueOK'
  <2>1. \A d \in Clients : Waits(d) => Waits(d)'
    BY <1>1 DEF Waits, srvVars
  <2>2. \A k \in 1 .. Len(backlog) : backlog[k] \in Clients
    BY DEF Inv, Typed, SrvTyped
  <2> QED BY <1>1, <2>1, <2>2 DEF Inv, QueueOK, Waits, srvVars
<1> QED BY <1>1, <1>2, <1>3

\* A client that gives up, or is killed, has read what it has read.
LEMMA LeavesKeeps ==
    ASSUME Inv, NEW c \in Clients, NEW to \in {"done", "failed"}, pc' = [pc EXCEPT ![c] = to],
           UNCHANGED <<srvVars, up, lines, typed, dots, ends, asked, got>>,
           down' = down \/ down' = [down EXCEPT ![c] = << >>]
    PROVE  Inv'
<1>1. /\ SrvTyped' /\ QueueOK' /\ pc' \in [Clients -> Places] /\ pc'[c] = to
      /\ \A d \in Clients : d # c => pc'[d] = pc[d]
  BY PlaceMoves DEF Places
<1>2. /\ down' \in [Clients -> Seq(Bytes)] /\ \A d \in Clients : d # c => down'[d] = down[d]
  <2>1. down \in [Clients -> Seq(Bytes)] /\ << >> \in Seq(Bytes)
    BY DEF Inv, Typed, BytesTyped
  <2>2. CASE down' = down
    BY <2>1, <2>2
  <2>3. CASE down' = [down EXCEPT ![c] = << >>]
    BY <2>1, <2>3
  <2> QED BY <2>2, <2>3
<1>3. BytesTyped' /\ CltTyped' /\ Counted'
  BY <1>1, <1>2 DEF Inv, Typed, BytesTyped, CltTyped, Counted, srvVars
<1>4. ASSUME NEW d \in Clients PROVE ConnOK(d)'
  <2>1. CASE d # c
    BY <1>1, <1>2, <2>1, ConnKept DEF Inv, srvVars
  <2>2. CASE d = c
    BY <1>1, <2>2, GoneKept DEF Inv, srvVars
  <2> QED BY <2>1, <2>2
<1> QED BY <1>1, <1>3, <1>4 DEF Inv, Typed

\* Nobody listens.
LEMMA ConnectFailsKeeps == ASSUME Inv, NEW c \in Clients, ConnectFails(c) PROVE Inv'
<1>1. /\ pc' = [pc EXCEPT ![c] = "failed"] /\ down' = down
      /\ UNCHANGED <<srvVars, up, lines, typed, dots, ends, asked, got>>
  BY DEF ConnectFails
<1> QED BY <1>1, LeavesKeeps

\* A client is killed.
LEMMA KillClientKeeps == ASSUME Inv, NEW c \in Clients, KillClient(c) PROVE Inv'
<1>1. /\ pc' = [pc EXCEPT ![c] = "failed"] /\ down' = [down EXCEPT ![c] = << >>]
      /\ UNCHANGED <<srvVars, up, lines, typed, dots, ends, asked, got>>
  BY DEF KillClient
<1> QED BY <1>1, LeavesKeeps

\* Of sock_c_i_srv a client stays that has been told of the end, or has no more input.
LEMMA StaysKeeps ==
    ASSUME Inv, NEW c \in Clients, Tcp, Present(c), NEW to \in {"prompt", "spinning"},
           pc' = [pc EXCEPT ![c] = to],
           UNCHANGED <<srvVars, up, down, lines, typed, dots, ends, asked, got>>
    PROVE  Inv'
<1>1. /\ SrvTyped' /\ QueueOK' /\ pc' \in [Clients -> Places] /\ pc'[c] = to
      /\ \A d \in Clients : d # c => pc'[d] = pc[d]
  BY PlaceMoves DEF Places
<1>2. BytesTyped' /\ CltTyped' /\ Counted'
  BY <1>1 DEF Inv, Typed, BytesTyped, CltTyped, Counted, srvVars
<1>3. ASSUME NEW d \in Clients PROVE ConnOK(d)'
  <2>1. CASE d # c
    BY <1>1, <2>1, ConnKept DEF Inv, srvVars
  <2>2. CASE d = c
    <3>1. Present(c)' /\ Tcp' /\ Held(c)' = Held(c) /\ pc'[c] # "start" /\ StreamOK(c)
      BY <1>1 DEF Present, Tcp, Held, srvVars, Inv, ConnOK
    <3>2. StreamOK(c)'
      BY <3>1 DEF StreamOK, Follows, srvVars
    <3>3. TurnOK(c)'
      BY <3>1 DEF TurnOK
    <3> QED BY <2>2, <3>2, <3>3 DEF ConnOK
  <2> QED BY <2>1, <2>2
<1> QED BY <1>1, <1>2, <1>3 DEF Inv, Typed

\* The connection has been closed.
LEMMA ReadEndKeeps == ASSUME Inv, NEW c \in Clients, ReadEnd(c) PROVE Inv'
<1>1. /\ pc[c] = "waiting" /\ UNCHANGED <<srvVars, up, down, lines, typed, dots, ends, asked, got>>
      /\ pc' = [pc EXCEPT ![c] = IF ~Tcp THEN "failed" ELSE IF ends[c] THEN "done" ELSE "prompt"]
  BY DEF ReadEnd
<1>2. CASE ~Tcp
  BY <1>1, <1>2, LeavesKeeps
<1>3. CASE Tcp /\ ends[c]
  BY <1>1, <1>3, LeavesKeeps
<1>4. CASE Tcp /\ ~ends[c]
  BY <1>1, <1>4, StaysKeeps DEF Present
<1> QED BY <1>2, <1>3, <1>4

\* The input is at its end.
LEMMA InputEndsKeeps == ASSUME Inv, NEW c \in Clients, InputEnds(c) PROVE Inv'
<1>1. /\ pc[c] = "prompt" /\ UNCHANGED <<srvVars, up, down, lines, typed, dots, ends, asked, got>>
      /\ pc' = [pc EXCEPT ![c] = IF Tcp THEN "spinning" ELSE "done"]
  BY DEF InputEnds
<1>2. CASE ~Tcp
  BY <1>1, <1>2, LeavesKeeps
<1>3. CASE Tcp
  BY <1>1, <1>3, StaysKeeps DEF Present
<1> QED BY <1>2, <1>3

\* The bytes of a line come behind all that have been typed.
LEMMA SendLineKeeps == ASSUME Inv, NEW c \in Clients, SendLine(c) PROVE Inv'
<1>1. PICK len \in 1 .. MaxBytes, dot \in {FALSE, Tcp} :
         /\ typed' = [typed EXCEPT ![c] = @ + len]
         /\ dots' = [dots EXCEPT ![c] = IF dot THEN @ \cup {typed[c] + 1} ELSE @]
         /\ ends' = [ends EXCEPT ![c] = dot]
         /\ asked' = [asked EXCEPT ![c] = len]
         /\ \/ /\ handler[c] # "closed" \/ Tcp
               /\ up' = [up EXCEPT ![c] = @ \o [n \in 1 .. len |-> <<c, typed[c] + n>>]]
               /\ pc' = [pc EXCEPT ![c] = "waiting"]
               /\ UNCHANGED down
            \/ /\ handler[c] = "closed"
               /\ pc' = [pc EXCEPT ![c] = "failed"]
               /\ down' = [down EXCEPT ![c] = << >>]
               /\ UNCHANGED up
  BY DEF SendLine
<1>2. /\ pc[c] = "prompt" /\ lines[c] < MaxLines[c] /\ lines' = [lines EXCEPT ![c] = @ + 1]
      /\ UNCHANGED <<srvVars, got>>
  BY DEF SendLine
<1>3. /\ len \in Nat /\ 1 <= len /\ len <= MaxBytes /\ dot \in BOOLEAN /\ MaxBytes \in Nat
      /\ MaxLines[c] \in Nat /\ lines[c] \in Nat /\ typed[c] \in Nat
  <2>1. MaxBytes \in Nat /\ MaxLines[c] \in Nat
    BY ConstantsAssumption
  <2>2. lines[c] \in Nat /\ typed[c] \in Nat
    BY DEF Inv, Typed, Counted
  <2>3. dot \in BOOLEAN
    BY DEF Tcp
  <2> QED BY <2>1, <2>2, <2>3
<1>4. Counted'
  <2>1. /\ lines' \in [Clients -> Nat] /\ lines'[c] = lines[c] + 1
        /\ \A d \in Clients : d # c => lines'[d] = lines[d]
    BY <1>2, <1>3 DEF Inv, Typed, Counted
  <2>2. /\ typed' \in [Clients -> Nat] /\ typed'[c] = typed[c] + len
        /\ \A d \in Clients : d # c => typed'[d] = typed[d]
    BY <1>1, <1>3 DEF Inv, Typed, Counted
  <2>3. /\ dots' \in [Clients -> SUBSET Nat] /\ dots'[c] \subseteq dots[c] \cup {typed[c] + 1}
        /\ \A d \in Clients : d # c => dots'[d] = dots[d]
    BY <1>1, <1>3 DEF Inv, Typed, Counted
  <2>4. lines[c] + 1 <= MaxLines[c]
    BY <1>2, <1>3
  <2>5. typed'[c] <= lines'[c] * MaxBytes
    <3>1. typed[c] <= lines[c] * MaxBytes
      BY DEF Inv, Typed, Counted
    <3>2. \A x, y \in Nat : (x + 1) * y = x * y + y /\ x * y \in Nat
      OBVIOUS
    <3>3. \A x, y, z, w \in Nat : x <= y /\ z <= w => x + z <= y + w
      OBVIOUS
    <3> QED BY <1>3, <2>1, <2>2, <3>1, <3>2, <3>3
  <2>6. dots'[c] \subseteq 1 .. typed'[c]
    <3>1. dots[c] \subseteq 1 .. typed[c]
      BY DEF Inv, Typed, Counted
    <3> QED BY <1>3, <2>2, <2>3, <3>1
  <2> QED BY <2>1, <2>2, <2>3, <2>4, <2>5, <2>6 DEF Inv, Typed, Counted
<1>5. asked' \in [Clients -> 0 .. MaxBytes] /\ ends' \in [Clients -> BOOLEAN]
  BY <1>1, <1>3 DEF Inv, Typed, CltTyped
<1>6. /\ chunk \in [Clients -> Seq(Bytes)] /\ up \in [Clients -> Seq(Bytes)]
      /\ down \in [Clients -> Seq(Bytes)] /\ got \in [Clients -> Seq(Bytes)]
      /\ UNCHANGED <<program, handler, chunk, got>>
  BY <1>2 DEF Inv, Typed, BytesTyped, srvVars
<1>7. typed'[c] = typed[c] + len /\ \A d \in Clients : d # c => typed'[d] = typed[d]
  BY <1>1, <1>3 DEF Inv, Typed, Counted
<1>8. CASE /\ handler[c] # "closed" \/ Tcp
           /\ up' = [up EXCEPT ![c] = @ \o [n \in 1 .. len |-> <<c, typed[c] + n>>]]
           /\ pc' = [pc EXCEPT ![c] = "waiting"]
           /\ UNCHANGED down
  <2>1. /\ SrvTyped' /\ QueueOK' /\ pc' \in [Clients -> Places] /\ pc'[c] = "waiting"
        /\ \A d \in Clients : d # c => pc'[d] = pc[d]
    BY <1>2, <1>8, PlaceMoves DEF Places
  <2> DEFINE line == [n \in 1 .. len |-> <<c, typed[c] + n>>]
             k == Len(got[c]) + Len(down[c]) + Held(c)
             b == up[c]
  <2>2. line \in Seq(Bytes) /\ Len(line) = len /\ Follows(c, line, typed[c])
    <3>1. \A n \in 1 .. len : <<c, typed[c] + n>> \in Bytes
      BY <1>3 DEF Bytes
    <3>2. line \in [1 .. len -> Bytes]
      BY <3>1
    <3>3. line \in Seq(Bytes)
      BY <1>3, <3>2, SeqDef
    <3>4. Len(line) = len
      BY <1>3, <3>2, <3>3, LenProperties
    <3> QED BY <3>3, <3>4 DEF Follows
  <2>3. /\ Len(got[c]) \in Nat /\ Len(down[c]) \in Nat /\ Held(c) \in Nat /\ k \in Nat
        /\ b \in Seq(Bytes) /\ Len(b) \in Nat
    <3>1. Len(chunk[c]) \in Nat /\ Len(got[c]) \in Nat /\ Len(down[c]) \in Nat /\ Len(b) \in Nat
      BY <1>6, LenProperties
    <3>2. Held(c) \in Nat
      BY <3>1 DEF Held
    <3>3. \A x, y, z \in Nat : x + y + z \in Nat
      OBVIOUS
    <3>4. k \in Nat
      BY <3>1, <3>2, <3>3
    <3> QED BY <1>6, <3>1, <3>2, <3>4
  <2>4. ConnOK(c) /\ Present(c) /\ Present(c)' /\ Held(c)' = Held(c) /\ (Tcp' <=> Tcp)
    BY <1>2, <1>6, <2>1 DEF Inv, Present, Held, Tcp
  <2>5. up' = [up EXCEPT ![c] = b \o line]
    BY <1>8
  <2>6. handler[c] # "closed" => Follows(c, b, k) /\ k + Len(b) = typed[c]
    BY <2>4 DEF ConnOK, StreamOK
  <2> HIDE DEF line, k, b
  <2>7. b \o line \in Seq(Bytes) /\ Len(b \o line) = Len(b) + len
    BY <2>2, <2>3, ConcatProperties
  <2>8. handler[c] # "closed" => Follows(c, b \o line, k) /\ k + Len(b \o line) = typed[c] + len
    <3>1. SUFFICES ASSUME handler[c] # "closed"
                   PROVE  Follows(c, b \o line, k) /\ k + Len(b \o line) = typed[c] + len
      OBVIOUS
    <3>2. Follows(c, line, k + Len(b))
      BY <2>2, <2>6, <3>1
    <3>3. Follows(c, b \o line, k)
      BY <2>2, <2>3, <2>6, <3>1, <3>2, FollowsConcat
    <3>4. \A x, y, z \in Nat : x + (y + z) = (x + y) + z
      OBVIOUS
    <3> QED BY <1>3, <2>3, <2>6, <2>7, <3>1, <3>3, <3>4
  <2>9. /\ up' \in [Clients -> Seq(Bytes)] /\ up'[c] = b \o line
        /\ \A d \in Clients : d # c => up'[d] = up[d]
    BY <1>6, <2>5, <2>7
  <2>10. StreamOK(c)'
    <3>1. handler[c] # "closed" =>
            /\ Follows(c, up'[c], Len(got[c]) + Len(down[c]) + Held(c))
            /\ Len(got[c]) + Len(down[c]) + Held(c) + Len(up'[c]) = typed'[c]
      BY <1>7, <2>8, <2>9 DEF k
    <3>2. /\ Follows(c, got[c], 0) /\ Follows(c, down[c], Len(got[c]))
          /\ handler[c] = "sending" => Follows(c, chunk[c], Len(got[c]) + Len(down[c]))
      BY <2>4 DEF ConnOK, StreamOK
    <3>3. pc'[c] # "start" /\ UNCHANGED <<got, down, handler, chunk>>
      BY <1>6, <1>8, <2>1
    <3> QED BY <2>4, <3>1, <3>2, <3>3 DEF StreamOK, Follows
  <2>11. TurnOK(c)'
    BY <1>2, <1>6, <1>8, <2>1, <2>4 DEF ConnOK, TurnOK
  <2>12. ASSUME NEW d \in Clients PROVE ConnOK(d)'
    <3>1. CASE d # c
      BY <1>6, <1>7, <1>8, <2>1, <2>9, <3>1, ConnKept DEF Inv
    <3> QED BY <2>10, <2>11, <3>1 DEF ConnOK
  <2>13. BytesTyped' /\ CltTyped'
    BY <1>5, <1>6, <1>8, <2>1, <2>9 DEF BytesTyped, CltTyped
  <2> QED BY <1>4, <2>1, <2>12, <2>13 DEF Inv, Typed
<1>9. CASE /\ handler[c] = "closed"
           /\ pc' = [pc EXCEPT ![c] = "failed"]
           /\ down' = [down EXCEPT ![c] = << >>]
           /\ UNCHANGED up
  <2>1. /\ SrvTyped' /\ QueueOK' /\ pc' \in [Clients -> Places] /\ pc'[c] = "failed"
        /\ \A d \in Clients : d # c => pc'[d] = pc[d]
    BY <1>2, <1>9, PlaceMoves DEF Places
  <2>2. down' \in [Clients -> Seq(Bytes)] /\ \A d \in Clients : d # c => down'[d] = down[d]
    BY <1>6, <1>9
  <2>3. BytesTyped' /\ CltTyped'
    BY <1>5, <1>6, <1>9, <2>1, <2>2 DEF BytesTyped, CltTyped
  <2>4. ASSUME NEW d \in Clients PROVE ConnOK(d)'
    <3>1. CASE d # c
      BY <1>6, <1>7, <1>9, <2>1, <2>2, <3>1, ConnKept DEF Inv
    <3>2. CASE d = c
      BY <1>6, <2>1, <3>2, GoneKept DEF Inv
    <3> QED BY <3>1, <3>2
  <2> QED BY <1>4, <2>1, <2>3, <2>4 DEF Inv, Typed
<1> QED BY <1>1, <1>8, <1>9

\* What a client reads comes behind what it has read; with echo_client it is the whole line.
LEMMA ReadEchoKeeps == ASSUME Inv, NEW c \in Clients, ReadEcho(c) PROVE Inv'
<1>1. PICK n \in Sizes(asked[c], down[c]) :
         /\ got' = [got EXCEPT ![c] = @ \o SubSeq(down[c], 1, n)]
         /\ down' = [down EXCEPT ![c] = Drop(n, @)]
  BY DEF ReadEcho
<1>2. /\ pc[c] = "waiting" /\ down[c] # << >>
      /\ ends' = [ends EXCEPT ![c] = BeginsWithDot(c, down[c])]
      /\ pc' = [pc EXCEPT ![c] = IF ends'[c] THEN "done" ELSE "prompt"]
      /\ UNCHANGED <<srvVars, up, lines, typed, dots, asked>>
  BY DEF ReadEcho
<1>3. /\ got \in [Clients -> Seq(Bytes)] /\ down \in [Clients -> Seq(Bytes)]
      /\ up \in [Clients -> Seq(Bytes)] /\ chunk \in [Clients -> Seq(Bytes)]
      /\ UNCHANGED <<program, handler, chunk>>
  BY <1>2 DEF Inv, Typed, BytesTyped, srvVars
<1>4. PICK to \in {"done", "prompt"} : pc' = [pc EXCEPT ![c] = to]
  BY <1>2
<1>5. /\ SrvTyped' /\ QueueOK' /\ pc' \in [Clients -> Places] /\ pc'[c] = to
      /\ \A d \in Clients : d # c => pc'[d] = pc[d]
  BY <1>2, <1>4, PlaceMoves DEF Places
<1>6. CltTyped' /\ Counted'
  <2>1. ends' \in [Clients -> BOOLEAN]
    BY <1>2 DEF Inv, Typed, CltTyped, BeginsWithDot
  <2> QED BY <1>2, <1>5, <2>1 DEF Inv, Typed, CltTyped, Counted
<1> DEFINE b == down[c]
           g == got[c]
<1>7. n \in 1 .. Len(b) /\ (~Tcp => n = Len(b))
  <2>1. b \in Seq(Bytes) /\ asked[c] \in Nat /\ b # << >> /\ n \in Sizes(asked[c], b)
    <3>1. asked[c] \in 0 .. MaxBytes /\ MaxBytes \in Nat
      BY ConstantsAssumption DEF Inv, Typed, CltTyped
    <3> QED BY <1>2, <1>3, <3>1
  <2> HIDE DEF b
  <2> QED BY <2>1, SizesFacts
<1>8. /\ b \in Seq(Bytes) /\ g \in Seq(Bytes) /\ Len(b) \in Nat /\ Len(g) \in Nat
      /\ n \in Nat /\ n <= Len(b)
  <2>1. b \in Seq(Bytes) /\ g \in Seq(Bytes) /\ Len(b) \in Nat /\ Len(g) \in Nat
    BY <1>3, LenProperties
  <2> HIDE DEF b, g
  <2> QED BY <1>7, <2>1
<1>9. /\ got' = [got EXCEPT ![c] = g \o SubSeq(b, 1, n)] /\ down' = [down EXCEPT ![c] = Drop(n, b)]
  BY <1>1
<1>10. ConnOK(c) /\ Follows(c, g, 0) /\ Follows(c, b, Len(g))
  BY <1>2 DEF Inv, ConnOK, StreamOK, Present
<1>11. ~Tcp => up[c] = << >> /\ handler[c] # "sending" /\ Len(g) + Len(b) = typed[c]
  BY <1>2, <1>10 DEF ConnOK, TurnOK
<1>12. /\ SubSeq(b, 1, n) \in Seq(Bytes) /\ Len(SubSeq(b, 1, n)) = n
       /\ Drop(n, b) \in Seq(Bytes) /\ Len(Drop(n, b)) = Len(b) - n
       /\ n = Len(b) => Drop(n, b) = << >>
       /\ Follows(c, SubSeq(b, 1, n), Len(g)) /\ Follows(c, Drop(n, b), Len(g) + n)
  <2> HIDE DEF b, g
  <2> QED BY <1>7, <1>8, <1>10, FollowsCut
<1>13. /\ g \o SubSeq(b, 1, n) \in Seq(Bytes) /\ Len(g \o SubSeq(b, 1, n)) = Len(g) + n
       /\ Follows(c, g \o SubSeq(b, 1, n), 0)
  <2> DEFINE h == SubSeq(b, 1, n)
  <2>1. h \in Seq(Bytes) /\ Len(h) = n /\ Follows(c, h, 0 + Len(g))
    BY <1>8, <1>12
  <2> HIDE DEF b, g, h
  <2>2. /\ g \o h \in Seq(Bytes) /\ Len(g \o h) = Len(g) + Len(h)
        /\ Follows(c, g \o h, 0)
    BY <1>8, <1>10, <2>1, FollowsConcat
  <2> QED BY <2>1, <2>2 DEF h
<1>14. /\ got' \in [Clients -> Seq(Bytes)] /\ got'[c] = g \o SubSeq(b, 1, n)
       /\ down' \in [Clients -> Seq(Bytes)] /\ down'[c] = Drop(n, b)
       /\ \A d \in Clients : d # c => got'[d] = got[d] /\ down'[d] = down[d]
  BY <1>3, <1>9, <1>12, <1>13
<1>15. BytesTyped'
  BY <1>2, <1>3, <1>14 DEF BytesTyped
<1>16. /\ Follows(c, got'[c], 0) /\ Follows(c, down'[c], Len(got'[c]))
       /\ Len(got'[c]) + Len(down'[c]) = Len(g) + Len(b)
       /\ ~Tcp => Len(got'[c]) = typed[c] /\ down'[c] = << >>
  <2>1. \A x, y \in Nat : (x + n) + (y - n) = x + y
    BY <1>8
  <2> HIDE DEF b, g
  <2>2. Len(got'[c]) = Len(g) + n /\ Len(down'[c]) = Len(b) - n
    BY <1>12, <1>13, <1>14
  <2>3. Len(got'[c]) + Len(down'[c]) = Len(g) + Len(b)
    BY <1>8, <2>1, <2>2
  <2>4. ~Tcp => Len(got'[c]) = typed[c] /\ down'[c] = << >>
    BY <1>7, <1>11, <1>12, <1>14, <2>2
  <2> QED BY <1>12, <1>13, <1>14, <2>2, <2>3, <2>4
<1>17. ASSUME NEW d \in Clients PROVE ConnOK(d)'
  <2>1. CASE d # c
    BY <1>2, <1>3, <1>5, <1>14, <2>1, ConnKept DEF Inv
  <2>2. CASE d = c
    <3>1. Held(c)' = Held(c) /\ (Tcp' <=> Tcp) /\ Present(c)
      BY <1>2, <1>3 DEF Held, Tcp, Present
    <3>2. handler[c] # "closed" =>
            /\ handler[c] = "sending" => Follows(c, chunk[c], Len(got'[c]) + Len(down'[c]))
            /\ Follows(c, up[c], Len(got'[c]) + Len(down'[c]) + Held(c))
            /\ Len(got'[c]) + Len(down'[c]) + Held(c) + Len(up[c]) = typed[c]
      BY <1>10, <1>16, <3>1 DEF ConnOK, StreamOK
    <3>3. StreamOK(c)'
      BY <1>2, <1>3, <1>5, <1>16, <3>1, <3>2 DEF StreamOK, Follows
    <3>4. TurnOK(c)'
      BY <1>2, <1>3, <1>5, <1>11, <1>16, <3>1 DEF TurnOK
    <3> QED BY <2>2, <3>3, <3>4 DEF ConnOK
  <2> QED BY <2>1, <2>2
<1> QED BY <1>5, <1>6, <1>15, <1>17 DEF Inv, Typed

-----------------------------------------------------------------------------
(***************************************************************************)
(* The theorems.                                                           *)
(***************************************************************************)

\* Nothing changes.
LEMMA StutterKeeps == Inv /\ UNCHANGED vars => Inv'
<1> SUFFICES ASSUME Inv, UNCHANGED vars PROVE Inv'
  OBVIOUS
<1>1. UNCHANGED <<program, server, backlog, new, handler, chunk, up, down, cltVars>>
  BY DEF vars, srvVars
<1>2. SrvTyped' /\ QueueOK'
  BY <1>1 DEF Inv, Typed, SrvTyped, QueueOK, Waits, cltVars
<1> QED BY <1>1, <1>2, QuietKeeps DEF Inv, Typed

\* Every step keeps the invariant.
LEMMA InvStep == Inv /\ [Next]_vars => Inv'
<1> SUFFICES ASSUME Inv, [Next]_vars PROVE Inv'
  OBVIOUS
<1>1. CASE Start
  BY <1>1, StartKeeps
<1>2. CASE Accept
  BY <1>2, AcceptKeeps
<1>3. CASE ServeItself \/ Fork
  BY <1>3, ServeKeeps DEF ServeItself, Fork
<1>4. CASE Spawn \/ SpawnFails
  BY <1>4, ServeKeeps DEF Spawn, SpawnFails
<1>5. CASE KillServer
  BY <1>5, ServerDiesKeeps DEF KillServer
<1>6. ASSUME NEW c \in Clients, HandlerStep(c) PROVE Inv'
  BY <1>6, ThreadBeginsKeeps, HandlerReadsKeeps, HandlerReadsEndKeeps, HandlerSendsKeeps,
     HandlerSendFailsKeeps DEF HandlerStep
<1>7. ASSUME NEW c \in Clients,
             \/ Connect(c) \/ ConnectFails(c) \/ SendLine(c) \/ ReadEcho(c) \/ ReadEnd(c)
             \/ InputEnds(c) \/ KillClient(c)
      PROVE  Inv'
  BY <1>7, ConnectKeeps, ConnectFailsKeeps, SendLineKeeps, ReadEchoKeeps, ReadEndKeeps,
     InputEndsKeeps, KillClientKeeps
<1>8. CASE UNCHANGED vars
  BY <1>8, StutterKeeps
<1> QED BY <1>1, <1>2, <1>3, <1>4, <1>5, <1>6, <1>7, <1>8 DEF Next, ServerStep

\* In every state the bytes of each connection, put one behind the other from what has been
\* read back to what waits to be read by the handler, are what has been typed; and whoever
\* waits has no handler.
THEOREM EchoInvariant == Spec => []Inv
BY InvInit, InvStep, ConstantsAssumption, PTL DEF Spec

\* Every variable of the servers and clients keeps its type; a client types no more bytes
\* than its lines hold, and no more connections wait than listen allows.
THEOREM EchoTypeCorrect == Spec => []TypeOK
<1>1. Inv => TypeOK
  <2> SUFFICES ASSUME Inv PROVE TypeOK
    OBVIOUS
  <2>1. ASSUME NEW c \in Clients
        PROVE  /\ lines[c] \in 0 .. MaxLines[c] /\ typed[c] \in 0 .. MaxLines[c] * MaxBytes
               /\ dots[c] \subseteq 1 .. MaxLines[c] * MaxBytes
    <3>1. MaxBytes \in Nat /\ MaxLines[c] \in Nat
      BY ConstantsAssumption
    <3>2. /\ lines[c] \in Nat /\ typed[c] \in Nat /\ lines[c] <= MaxLines[c]
          /\ typed[c] <= lines[c] * MaxBytes /\ dots[c] \subseteq 1 .. typed[c]
      BY DEF Inv, Typed, Counted
    <3>3. \A x, y, z \in Nat : x <= y => x * z \in Nat /\ y * z \in Nat /\ x * z <= y * z
      <4>1. \A x, y, z \in Nat : x <= y => \E d \in Nat : y = x + d
        <5> SUFFICES ASSUME NEW x \in Nat, NEW y \in Nat, x <= y PROVE \E d \in Nat : y = x + d
          OBVIOUS
        <5>1. y - x \in Nat /\ y = x + (y - x)
          OBVIOUS
        <5> QED BY <5>1
      <4>2. \A x, d, z \in Nat : (x + d) * z = x * z + d * z /\ x * z \in Nat /\ d * z \in Nat
        OBVIOUS
      <4>3. \A x, y \in Nat : x <= x + y /\ x + y \in Nat
        OBVIOUS
      <4> QED BY <4>1, <4>2, <4>3
    <3>4. lines[c] * MaxBytes \in Nat /\ MaxLines[c] * MaxBytes \in Nat
          /\ lines[c] * MaxBytes <= MaxLines[c] * MaxBytes
      BY <3>1, <3>2, <3>3
    <3>5. \A x, y, z \in Nat : x <= y /\ y <= z => x \in 0 .. z /\ 1 .. x \subseteq 1 .. z
      OBVIOUS
    <3>6. typed[c] \in 0 .. MaxLines[c] * MaxBytes /\ 1 .. typed[c] \subseteq 1 .. MaxLines[c] * MaxBytes
      BY <3>2, <3>4, <3>5
    <3> QED BY <3>1, <3>2, <3>6
  <2>2. \A f \in {chunk, up, down, got} : f \in [Clients -> Seq(Clients \X Nat)]
    BY DEF Inv, Typed, BytesTyped, Bytes
  <2> QED BY <2>1, <2>2 DEF Inv, Typed, SrvTyped, CltTyped, Handlers, Places, TypeOK
<1> QED BY <1>1, EchoInvariant, PTL

\* Whatever the three servers, their threads and children and all clients do, a client reads
\* its own bytes in the order in which it sent them, and when echo_client asks for a line
\* again the whole line before has come back.
THEOREM BytesEchoedInOrder == Spec => []EchoInOrder
<1>1. Inv => EchoInOrder
  <2> SUFFICES ASSUME Inv, NEW c \in Clients
               PROVE  /\ \A n \in 1 .. Len(got[c]) : got[c][n] = <<c, n>>
                      /\ ~Tcp /\ pc[c] = "prompt" => Len(got[c]) = typed[c]
    BY DEF EchoInOrder
  <2>1. Follows(c, got[c], 0) /\ TurnOK(c)
    BY DEF Inv, ConnOK, StreamOK
  <2>2. \A n \in 1 .. Len(got[c]) : got[c][n] = <<c, n>>
    <3>1. ASSUME NEW n \in 1 .. Len(got[c]) PROVE got[c][n] = <<c, n>>
      <4>1. got[c][n] = <<c, 0 + n>> /\ 0 + n = n
        BY <2>1 DEF Follows
      <4> QED BY <4>1
    <3> QED BY <3>1
  <2> QED BY <2>1, <2>2 DEF TurnOK
<1> QED BY <1>1, EchoInvariant, PTL

\* A child that ends closes no connection that another one serves.
LEMMA EndsAlone ==
    ASSUME Inv, NEW c \in Clients, NEW d \in Clients, Active(c), handler'[c] = "closed",
           handler[d] \in {"reading", "sending"}, HandlerEnds(d)
    PROVE  c = d
<1>1. pc[d] # "start"
  BY DEF Inv, ConnOK, StreamOK
<1>2. ASSUME NEW alive, alive = (server # "down"), NEW gone \in SUBSET Clients, gone = {d}
      PROVE  handler'[c] # handler[c] => c \in gone \/ handler[c] = "none"
  <2>1. Close(gone, alive) /\ \A e \in gone : pc[e] # "start"
    BY <1>1, <1>2 DEF HandlerEnds
  <2> QED BY <2>1, CloseFacts DEF Inv
<1>3. handler'[c] # handler[c] /\ handler[c] # "none"
  BY DEF Active
<1>4. {d} \in SUBSET Clients
  OBVIOUS
<1> QED BY <1>2, <1>3, <1>4

\* The server's end closes no connection of a child.
LEMMA DiesAlone ==
    ASSUME Inv, Tcp, NEW c \in Clients, Active(c), ServerDies
    PROVE  handler'[c] # "closed"
<1> DEFINE mine == {d \in Clients : Active(d) /\ ~Tcp} \cup (IF server = "got" THEN {new} ELSE {})
<1>1. Close(mine, FALSE) /\ mine \in SUBSET Clients
  BY DEF ServerDies, Inv, QueueOK
<1>2. \A d \in mine : pc[d] # "start" /\ handler[d] = "none"
  BY DEF Inv, QueueOK, Waits
<1> HIDE DEF mine
<1>3. handler'[c] # handler[c] => c \in mine \/ handler[c] = "none"
  BY <1>1, <1>2, CloseFacts DEF Inv
<1> QED BY <1>2, <1>3 DEF Active

\* A step that closes the connection of a child is the child's own, which has found its client
\* gone or has sent back what begins with '.'.
LEMMA ClosedByItsChild ==
    ASSUME Inv, Next, NEW c \in Clients, Tcp, Active(c), handler'[c] = "closed"
    PROVE  ~Present(c) \/ (handler[c] = "sending" /\ BeginsWithDot(c, chunk[c]))
<1>1. handler[c] \in {"pending", "reading", "sending"} /\ handler \in [Clients -> Handlers]
  BY DEF Active, Inv, Typed, SrvTyped
<1>2. handler' # handler
  BY <1>1
<1>3. ASSUME NEW label, NEW state, Serve(label, state) PROVE FALSE
  BY <1>1, <1>3 DEF Serve, Inv, QueueOK, Waits
<1>4. ~ServerDies
  BY DiesAlone
<1>5. ASSUME NEW d \in Clients, HandlerStep(d)
      PROVE  ~Present(c) \/ (handler[c] = "sending" /\ BeginsWithDot(c, chunk[c]))
  <2>1. ASSUME NEW to \in {"reading", "sending"}, handler' = [handler EXCEPT ![d] = to] PROVE FALSE
    BY <1>1, <2>1
  <2>2. CASE ThreadBegins(d)
    BY <2>1, <2>2 DEF ThreadBegins
  <2>3. CASE HandlerReads(d)
    BY <2>1, <2>3 DEF HandlerReads
  <2>4. CASE HandlerReadsEnd(d)
    BY <2>4, EndsAlone DEF HandlerReadsEnd
  <2>5. CASE HandlerSends(d)
    <3>1. handler[d] = "sending" /\ HandlerEnds(d) /\ BeginsWithDot(d, chunk[d])
      BY <2>1, <2>5 DEF HandlerSends
    <3> QED BY <3>1, EndsAlone
  <2>6. CASE HandlerSendFails(d)
    <3>1. handler[d] = "sending" /\ HandlerEnds(d) /\ ~Present(d)
      BY <1>4, <2>1, <2>6 DEF HandlerSendFails
    <3> QED BY <3>1, EndsAlone
  <2> QED BY <1>5, <2>2, <2>3, <2>4, <2>5, <2>6 DEF HandlerStep
<1>6. CASE Start \/ Accept
  BY <1>2, <1>6 DEF Start, Accept
<1>7. CASE ServeItself \/ Spawn \/ Fork \/ SpawnFails
  BY <1>3, <1>7 DEF ServeItself, Spawn, Fork, SpawnFails
<1>8. CASE KillServer
  BY <1>4, <1>8 DEF KillServer
<1>9. ASSUME NEW d \in Clients,
             \/ Connect(d) \/ ConnectFails(d) \/ SendLine(d) \/ ReadEcho(d) \/ ReadEnd(d)
             \/ InputEnds(d) \/ KillClient(d)
      PROVE  FALSE
  BY <1>2, <1>9 DEF Connect, ConnectFails, SendLine, ReadEcho, ReadEnd, InputEnds, KillClient, srvVars
<1> QED BY <1>5, <1>6, <1>7, <1>8, <1>9 DEF Next, ServerStep

\* A child of sock_c_i_srv serves its client until that client has gone or has sent a '.':
\* neither other clients and children nor the end of the parent close its connection.
THEOREM ChildrenLeftAlone == Spec => ForkIsolates
<1>1. Inv /\ [Next]_vars =>
        [ \A c \in Clients :
            Tcp /\ Active(c) /\ handler'[c] = "closed" =>
                ~Present(c) \/ (handler[c] = "sending" /\ BeginsWithDot(c, chunk[c])) ]_vars
  BY ClosedByItsChild
<1> QED BY <1>1, EchoInvariant, PTL DEF Spec, ForkIsolates
=============================================================================
