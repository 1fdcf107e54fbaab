------------------------- MODULE FifoServiceProofs --------------------------
(***************************************************************************)
(* Proofs about the two services whose clients talk to them through FIFOs. *)
(*                                                                         *)
(* FifoService, for any number of clients, commands, parts of an answer    *)
(* and attempts, and any room in the FIFOs: types, that a request is never *)
(* lost without a word (Counted), and that an answer of a child arrives    *)
(* whole (Whole).                                                          *)
(*                                                                         *)
(* SignalService, the service of signal/6.7, at the end of the module as   *)
(* the instance S: that one server at most is there (ModInv).              *)
(***************************************************************************)
EXTENDS FifoService, TLAPS

Parts == Nat \X Nat

SrvStates == {"start", "opening", "reading", "got", "answering", "waiting", "dead"}

CltStates == {"start", "opening", "prompt", "sent", "waiting", "reading",
              "done", "failed", "killed"}

\* TypeOK with what the actions need of it: the functions have their domain, and a
\* server that works on a request has one.
Typed ==
    /\ TypeOK
    /\ private \in [Clients -> Seq(Parts)] /\ got \in [Clients -> Seq(Parts)]
    /\ server \in {"got", "answering", "waiting"} => msg \in Clients
    /\ server = "got" => n < TRIES

\* Only the server of "basic" answers itself, and it has no children.
Kinds ==
    /\ server = "answering" => program = "basic"
    /\ program = "basic" => \A c \in Clients : writer[c] # "opening"

\* Where the request of client c can be.
InPublic(c) == \E k \in 1 .. Len(public) : public[k] = c
Held(c)     == server = "got" /\ msg = c
Asked(c)    == InPublic(c) \/ Held(c) \/ writer[c] = "opening"

AccountedAt(c) == pc[c] \in {"sent", "waiting"} => Asked(c) \/ c \in dropped

Counted == Typed /\ Kinds /\ \A c \in Clients : AccountedAt(c)

\* It is in one place at most.
Once(c) ==
    /\ \A j, k \in 1 .. Len(public) : public[j] = c /\ public[k] = c => j = k
    /\ InPublic(c) => ~Held(c) /\ writer[c] # "opening"
    /\ Held(c) => writer[c] # "opening"

\* What client c has read and what is in its FIFO are the beginning of the answer that
\* has been written, and all of it when the writer has closed.
Piece(c) ==
    /\ Len(got[c]) + Len(private[c]) = IF writer[c] = "writing" THEN written[c] ELSE Output + 1
    /\ \A j \in 1 .. Len(got[c]) : got[c][j] = <<sent[c], j>>
    /\ \A j \in 1 .. Len(private[c]) : private[c][j] = <<sent[c], Len(got[c]) + j>>

\* The conversation of client c with the children of a server: nothing of a request is
\* left when the next one is made.
TalkAt(c) ==
    /\ pc[c] \in {"start", "opening", "prompt", "sent", "waiting"} =>
         private[c] = << >> /\ writer[c] # "writing"
    /\ pc[c] \in {"start", "opening", "prompt", "reading"} => ~Asked(c)
    /\ pc[c] \in {"start", "opening"} => sent[c] = 0
    /\ pc[c] \in {"sent", "waiting"} => got[c] = << >> /\ Once(c)
    /\ pc[c] = "reading" => Piece(c)
    /\ pc[c] = "prompt" /\ sent[c] > 0 => got[c] = Answer(sent[c])

Whole == program # "basic" => \A c \in Clients : TalkAt(c)

Inv == Counted /\ Whole

-----------------------------------------------------------------------------
(***************************************************************************)
(* FIFOs.                                                                  *)
(***************************************************************************)

\* The end of a write to a FIFO.
LEMMA AppendFacts ==
    ASSUME NEW S, NEW s \in Seq(S), NEW e \in S
    PROVE  /\ Append(s, e) \in Seq(S)
           /\ Len(Append(s, e)) = Len(s) + 1
           /\ \A j \in 1 .. Len(s) : Append(s, e)[j] = s[j]
           /\ Append(s, e)[Len(s) + 1] = e
OBVIOUS

\* The end of a read from a FIFO.
LEMMA TailFacts ==
    ASSUME NEW S, NEW s \in Seq(S), s # << >>
    PROVE  /\ Head(s) \in S /\ Head(s) = s[1]
           /\ Tail(s) \in Seq(S)
           /\ Len(s) \in Nat \ {0} /\ Len(Tail(s)) = Len(s) - 1
           /\ \A j \in 1 .. Len(Tail(s)) : Tail(s)[j] = s[j + 1]
OBVIOUS

\* An empty FIFO, of requests or of parts.
LEMMA EmptyFacts ==
    ASSUME NEW S
    PROVE  << >> \in Seq(S) /\ Len(<< >>) = 0
OBVIOUS

\* Whoever closes PUBLIC, it keeps its contents or loses all of them; it loses nothing
\* while a client other than the one that closes it has it open.
LEMMA CloseFacts ==
    ASSUME Typed, ConstantsAssumption, NEW c \in Clients, ClosePublic(c) \/ ServerClosesPublic
    PROVE  /\ public' \in Seq(Clients) /\ Len(public') <= Room
           /\ public' = public \/ public' = << >>
           /\ \A d \in Clients \ {c} : HasPublic(d) => public' = public
<1>1. << >> \in Seq(Clients) /\ Len(<< >>) = 0 /\ 0 <= Room
  BY EmptyFacts DEF ConstantsAssumption
<1>2. public \in Seq(Clients) /\ Len(public) <= Room
  BY DEF Typed, TypeOK
<1> QED BY <1>1, <1>2 DEF ClosePublic, ServerClosesPublic

-----------------------------------------------------------------------------
(***************************************************************************)
(* Types.                                                                  *)
(***************************************************************************)

\* The types hold at first.
LEMMA TypedInit == ConstantsAssumption /\ Init => Typed
<1> SUFFICES ASSUME ConstantsAssumption, Init PROVE Typed
  OBVIOUS
<1>1. /\ 0 \in 0 .. TRIES /\ 0 \in 0 .. MaxCmds /\ 0 \in 0 .. Output + 1
      /\ 0 <= Room /\ 0 <= Capacity
  BY DEF ConstantsAssumption
<1>2. << >> \in Seq(Clients) /\ << >> \in Seq(Parts) /\ Len(<< >>) = 0
  BY EmptyFacts
<1>3. << >> \in Seq(Nat \X Nat)
  BY EmptyFacts
<1> QED BY <1>1, <1>2, <1>3 DEF Init, Typed, TypeOK

\* What a client does alone keeps the types.
LEMMA TypedClient ==
    ASSUME ConstantsAssumption, Typed, NEW c \in Clients,
           \/ MakePrivate(c) \/ ClientFails(c) \/ OpenPublic(c) \/ SendCommand(c)
           \/ OpenPrivate(c) \/ SendKills(c) \/ Quit(c) \/ ReadPart(c) \/ ReadEnd(c)
           \/ KillClient(c)
    PROVE  Typed'
<1>1. CASE MakePrivate(c) \/ ClientFails(c) \/ OpenPrivate(c) \/ ReadEnd(c)
  BY <1>1 DEF MakePrivate, ClientFails, OpenPrivate, ReadEnd, Typed, TypeOK, srvVars
<1>2. CASE OpenPublic(c)
  BY <1>2 DEF OpenPublic, Typed, TypeOK
<1>3. CASE SendCommand(c)
  <2>1. /\ public' \in Seq(Clients) /\ Len(public') <= Room
    <3>1. public \in Seq(Clients) /\ Room \in Nat
      BY DEF Typed, TypeOK, ConstantsAssumption
    <3> QED BY <1>3, <3>1, AppendFacts DEF SendCommand
  <2>2. sent' \in [Clients -> 0 .. MaxCmds]
    BY SMTT(30), <1>3 DEF SendCommand, Typed, TypeOK, ConstantsAssumption
  <2>3. got' \in [Clients -> Seq(Parts)]
    BY <1>3, EmptyFacts DEF SendCommand, Typed
  <2> QED BY <1>3, <2>1, <2>2, <2>3 DEF SendCommand, Typed, TypeOK, srvVars
<1>4. CASE SendKills(c) \/ Quit(c)
  <2>1. public' \in Seq(Clients) /\ Len(public') <= Room
    BY <1>4, CloseFacts DEF SendKills, Quit
  <2> QED BY <1>4, <2>1 DEF SendKills, Quit, Typed, TypeOK, srvVars
<1>5. CASE ReadPart(c)
  <2>1. private[c] \in Seq(Parts) /\ got[c] \in Seq(Parts) /\ Len(private[c]) <= Capacity
    BY DEF Typed, TypeOK
  <2>2. /\ Head(private[c]) \in Parts /\ Tail(private[c]) \in Seq(Parts)
        /\ Len(Tail(private[c])) <= Capacity
    BY <1>5, <2>1, TailFacts DEF ReadPart, ConstantsAssumption
  <2>3. Append(got[c], Head(private[c])) \in Seq(Parts)
    BY <2>1, <2>2, AppendFacts
  <2>4. got' \in [Clients -> Seq(Parts)]
    BY <1>5, <2>3 DEF ReadPart, Typed
  <2>5. private' \in [Clients -> Seq(Parts)]
    BY <1>5, <2>2 DEF ReadPart, Typed
  <2>6. \A d \in Clients : private'[d] \in Seq(Nat \X Nat) /\ Len(private'[d]) <= Capacity
    BY <1>5, <2>2 DEF ReadPart, Typed, TypeOK, Parts
  <2> QED BY <1>5, <2>4, <2>5, <2>6 DEF ReadPart, Typed, TypeOK, srvVars
<1>6. CASE KillClient(c)
  <2>1. public' \in Seq(Clients) /\ Len(public') <= Room
    BY <1>6, CloseFacts DEF KillClient
  <2>2. << >> \in Seq(Parts) /\ << >> \in Seq(Nat \X Nat) /\ Len(<< >>) <= Capacity
    BY EmptyFacts DEF ConstantsAssumption
  <2>3. private' \in [Clients -> Seq(Parts)]
    BY <1>6, <2>2 DEF KillClient, Typed
  <2>4. \A d \in Clients : private'[d] \in Seq(Nat \X Nat) /\ Len(private'[d]) <= Capacity
    BY <1>6, <2>2 DEF KillClient, Typed, TypeOK
  <2> QED BY <1>6, <2>1, <2>3, <2>4 DEF KillClient, Typed, TypeOK, srvVars
<1> QED BY <1>1, <1>2, <1>3, <1>4, <1>5, <1>6

\* What a writer does keeps the types.
LEMMA TypedWriter ==
    ASSUME ConstantsAssumption, Typed, NEW c \in Clients, WriterStep(c)
    PROVE  Typed'
<1>1. CASE ChildOpens(c)
  <2>1. 0 \in 0 .. Output + 1
    BY DEF ConstantsAssumption
  <2> QED BY <1>1, <2>1 DEF ChildOpens, Meet, Typed, TypeOK, srvVars
<1>2. CASE WritePart(c)
  <2>1. /\ private[c] \in Seq(Parts) /\ Len(private[c]) <= Capacity
        /\ <<sent[c], written[c] + 1>> \in Parts
        /\ written[c] + 1 \in 0 .. Output + 1
    BY SMTT(30), <1>2 DEF WritePart, Typed, TypeOK, Parts, ConstantsAssumption
  <2>2. /\ private'[c] \in Seq(Parts) /\ Len(private'[c]) <= Capacity
        /\ \A d \in Clients : d # c => private'[d] = private[d]
        /\ DOMAIN private' = Clients
    BY <1>2, <2>1, AppendFacts DEF WritePart, Typed, ConstantsAssumption
  <2>3. private' \in [Clients -> Seq(Parts)]
    BY <1>2, <2>1, AppendFacts DEF WritePart, Typed, ConstantsAssumption
  <2>4. \A d \in Clients : private'[d] \in Seq(Nat \X Nat) /\ Len(private'[d]) <= Capacity
    BY <2>2 DEF Typed, TypeOK, Parts
  <2>5. written' \in [Clients -> 0 .. Output + 1]
    BY <1>2, <2>1 DEF WritePart, Typed, TypeOK
  <2> QED BY <1>2, <2>3, <2>4, <2>5 DEF WritePart, Typed, TypeOK, srvVars
<1>3. CASE CloseWriter(c)
  BY <1>3 DEF CloseWriter, Typed, TypeOK
<1>4. CASE WriterKilled(c)
  <2>1. public' \in Seq(Clients) /\ Len(public') <= Room
    BY <1>4, CloseFacts DEF WriterKilled, Typed, TypeOK
  <2> QED BY <1>4, <2>1 DEF WriterKilled, Typed, TypeOK
<1> QED BY <1>1, <1>2, <1>3, <1>4 DEF WriterStep

\* What the server does keeps the types.
LEMMA TypedServer ==
    ASSUME ConstantsAssumption, Typed, ServerStep \/ ForkFails \/ KillServer \/ Restart
    PROVE  Typed'
<1>1. CASE ServerStarts \/ ChildReaped \/ Restart
  BY <1>1 DEF ServerStarts, ChildReaped, Restart, Typed, TypeOK
<1>2. CASE ReadRequest
  <2>1. public \in Seq(Clients) /\ Len(public) <= Room /\ Room \in Nat
    BY DEF Typed, TypeOK, ConstantsAssumption
  <2>2. msg' \in Clients /\ public' \in Seq(Clients) /\ Len(public') <= Room
    BY <1>2, <2>1, TailFacts DEF ReadRequest
  <2>3. n' \in 0 .. TRIES /\ n' < TRIES
    BY <1>2 DEF ReadRequest, ConstantsAssumption
  <2> QED BY <1>2, <2>2, <2>3 DEF ReadRequest, Typed, TypeOK
<1>3. CASE Try
  <2>1. n \in Nat /\ n < TRIES /\ TRIES \in Nat /\ msg \in Clients /\ 0 \in 0 .. Output + 1
    BY <1>3 DEF Try, Typed, TypeOK, ConstantsAssumption
  <2>2. CASE Reads(msg)
    <3>1. /\ Meet(msg) /\ server' = "answering"
          /\ UNCHANGED <<n, dropped, program, fifo, msg, public, sent, private, got>>
      BY <1>3, <2>2 DEF Try
    <3>2. /\ pc' \in [Clients -> CltStates]
          /\ writer' \in [Clients -> {"none", "opening", "writing"}]
          /\ written' \in [Clients -> 0 .. Output + 1]
      BY <2>1, <3>1 DEF Meet, Typed, TypeOK, CltStates
    <3> QED BY <2>1, <3>1, <3>2 DEF Typed, TypeOK, CltStates
  <2>3. CASE ~Reads(msg)
    BY <1>3, <2>1, <2>3 DEF Try, Typed, TypeOK
  <2> QED BY <2>2, <2>3
<1>4. CASE Fork \/ ForkFails
  BY <1>4 DEF Fork, ForkFails, Typed, TypeOK
<1>5. CASE KillServer
  <2>1. public' \in Seq(Clients) /\ Len(public') <= Room
    <3>1. << >> \in Seq(Clients) /\ Len(<< >>) = 0 /\ 0 <= Room
      BY EmptyFacts DEF ConstantsAssumption
    <3> QED BY <1>5, <3>1 DEF KillServer, ServerClosesPublic, Typed, TypeOK
  <2> QED BY <1>5, <2>1 DEF KillServer, Typed, TypeOK
<1> QED BY <1>1, <1>2, <1>3, <1>4, <1>5 DEF ServerStep

\* Every step keeps the types.
LEMMA TypedStep == ConstantsAssumption /\ Typed /\ [Next]_vars => Typed'
<1> SUFFICES ASSUME ConstantsAssumption, Typed, [Next]_vars PROVE Typed'
  OBVIOUS
<1>1. CASE UNCHANGED vars
  BY <1>1 DEF vars, srvVars, Typed, TypeOK
<1>2. CASE Next
  BY <1>2, TypedClient, TypedWriter, TypedServer DEF Next
<1> QED BY <1>1, <1>2

\* Every variable keeps to its type, for any number of commands and any sizes: no FIFO
\* holds more than it has room for, and "basic" makes at most TRIES attempts.
THEOREM FifoTypeCorrect == Spec => []TypeOK
<1>1. ConstantsAssumption
  BY ConstantsAssumption
<1>2. Typed => TypeOK
  BY DEF Typed
<1> QED BY <1>1, <1>2, TypedInit, TypedStep, PTL DEF Spec

-----------------------------------------------------------------------------
(***************************************************************************)
(* Requests.                                                               *)
(***************************************************************************)

\* A request that is sent comes behind the others.
LEMMA InAppended ==
    ASSUME Typed, NEW c \in Clients, public' = Append(public, c)
    PROVE  \A d \in Clients : InPublic(d)' <=> InPublic(d) \/ d = c
<1>1. public \in Seq(Clients) /\ Len(public) \in Nat
  BY DEF Typed, TypeOK
<1>2. /\ Len(public') = Len(public) + 1
      /\ \A j \in 1 .. Len(public) : public'[j] = public[j]
      /\ public'[Len(public) + 1] = c
  BY <1>1, AppendFacts
<1>3. \A k \in 1 .. Len(public') : k \in 1 .. Len(public) \/ k = Len(public) + 1
  BY <1>1, <1>2
<1>4. \A k \in 1 .. Len(public) : k \in 1 .. Len(public')
  BY <1>1, <1>2
<1>5. Len(public) + 1 \in 1 .. Len(public')
  BY <1>1, <1>2
<1> QED BY <1>2, <1>3, <1>4, <1>5 DEF InPublic

\* The request that is read is the first one.
LEMMA InTaken ==
    ASSUME Typed, public # << >>, public' = Tail(public)
    PROVE  \A d \in Clients : /\ InPublic(d) <=> InPublic(d)' \/ d = Head(public)
                              /\ Head(public) \in Clients
<1>1. public \in Seq(Clients)
  BY DEF Typed, TypeOK
<1>2. /\ Len(public) \in Nat \ {0} /\ Len(public') = Len(public) - 1
      /\ \A j \in 1 .. Len(public') : public'[j] = public[j + 1]
      /\ Head(public) = public[1] /\ Head(public) \in Clients
  BY <1>1, TailFacts
<1>3. \A k \in 1 .. Len(public) : k = 1 \/ (k - 1 \in 1 .. Len(public') /\ public'[k - 1] = public[k])
  BY <1>2
<1>4. \A k \in 1 .. Len(public') : k + 1 \in 1 .. Len(public)
  BY <1>2
<1>5. 1 \in 1 .. Len(public)
  BY <1>2
<1> QED BY ZenonT(30), <1>2, <1>3, <1>4, <1>5 DEF InPublic

\* No request has been made at first.
LEMMA CountedInit == ConstantsAssumption /\ Init => Counted
BY TypedInit DEF Init, Counted, Kinds, AccountedAt

\* What a client does alone keeps requests.
LEMMA CountedClient ==
    ASSUME ConstantsAssumption, Counted, Typed', NEW c \in Clients,
           \/ MakePrivate(c) \/ ClientFails(c) \/ OpenPublic(c) \/ SendCommand(c)
           \/ OpenPrivate(c) \/ SendKills(c) \/ Quit(c) \/ ReadPart(c) \/ ReadEnd(c)
           \/ KillClient(c)
    PROVE  Counted'
<1>t. Typed /\ Kinds /\ \A d \in Clients : AccountedAt(d)
  BY DEF Counted
<1>1. CASE \/ MakePrivate(c) \/ ClientFails(c) \/ OpenPublic(c) \/ OpenPrivate(c)
           \/ ReadPart(c) \/ ReadEnd(c)
  <2>1. Kinds'
    BY <1>1, <1>t DEF MakePrivate, ClientFails, OpenPublic, OpenPrivate, ReadPart, ReadEnd,
                      Kinds, srvVars
  <2>2. \A d \in Clients : AccountedAt(d)'
    BY ZenonT(30), <1>1, <1>t DEF MakePrivate, ClientFails, OpenPublic, OpenPrivate, ReadPart, ReadEnd,
                      AccountedAt, Asked, InPublic, Held, srvVars, Typed, TypeOK
  <2> QED BY <2>1, <2>2 DEF Counted
<1>2. CASE SendCommand(c)
  <2>1. Kinds'
    BY <1>2, <1>t DEF SendCommand, Kinds, srvVars
  <2>2. \A d \in Clients : InPublic(d)' <=> InPublic(d) \/ d = c
    BY <1>2, <1>t, InAppended DEF SendCommand
  <2>3. \A d \in Clients : AccountedAt(d)'
    BY <1>2, <1>t, <2>2 DEF SendCommand, AccountedAt, Asked, Held, srvVars, Typed, TypeOK
  <2> QED BY <2>1, <2>3 DEF Counted
<1>3. CASE SendKills(c) \/ Quit(c) \/ KillClient(c)
  <2>1. Kinds'
    BY <1>3, <1>t DEF SendKills, Quit, KillClient, Kinds, srvVars
  <2>2. \A d \in Clients \ {c} : HasPublic(d) => public' = public
    BY <1>3, <1>t, CloseFacts DEF SendKills, Quit, KillClient
  <2>3. /\ pc'[c] \notin {"sent", "waiting"}
        /\ \A d \in Clients : d # c => pc'[d] = pc[d]
        /\ UNCHANGED <<server, msg, writer, dropped>>
    BY <1>3, <1>t DEF SendKills, Quit, KillClient, srvVars, Typed, TypeOK
  <2>4. ASSUME NEW d \in Clients PROVE AccountedAt(d)'
    <3>1. CASE d = c
      BY <2>3, <3>1 DEF AccountedAt
    <3>2. CASE d # c
      BY <1>t, <2>2, <2>3, <3>2 DEF AccountedAt, Asked, InPublic, Held, HasPublic
    <3> QED BY <3>1, <3>2
  <2> QED BY <2>1, <2>4 DEF Counted
<1> QED BY <1>1, <1>2, <1>3

\* What a writer does keeps requests.
LEMMA CountedWriter ==
    ASSUME ConstantsAssumption, Counted, Typed', NEW c \in Clients, WriterStep(c)
    PROVE  Counted'
<1>t. Typed /\ Kinds /\ \A d \in Clients : AccountedAt(d)
  BY DEF Counted
<1>1. CASE ChildOpens(c) \/ WritePart(c) \/ CloseWriter(c)
  <2>1. Kinds'
    BY <1>1, <1>t DEF ChildOpens, WritePart, CloseWriter, Meet, Kinds, srvVars, Typed, TypeOK
  <2>2. \A d \in Clients : AccountedAt(d)'
    BY ZenonT(30), <1>1, <1>t DEF ChildOpens, WritePart, CloseWriter, Meet, AccountedAt, Asked, InPublic,
                      Held, srvVars, Typed, TypeOK
  <2> QED BY <2>1, <2>2, <1>1 DEF Counted
<1>2. CASE WriterKilled(c)
  <2>1. Kinds'
    BY <1>2, <1>t DEF WriterKilled, Kinds, Typed, TypeOK
  <2>2. \A d \in Clients : HasPublic(d) => public' = public
    BY <1>2 DEF WriterKilled, ServerClosesPublic
  <2>3. \A d \in Clients : AccountedAt(d)'
    BY <1>2, <1>t, <2>2 DEF WriterKilled, AccountedAt, Asked, InPublic, Held, HasPublic,
                            Typed, TypeOK
  <2> QED BY <2>1, <2>3 DEF Counted
<1> QED BY <1>1, <1>2 DEF WriterStep

\* What the server does keeps requests, or it says that it does not.
LEMMA CountedServer ==
    ASSUME ConstantsAssumption, Counted, Typed', ServerStep \/ ForkFails \/ KillServer \/ Restart
    PROVE  Counted'
<1>t. Typed /\ Kinds /\ \A d \in Clients : AccountedAt(d)
  BY DEF Counted
<1>1. CASE ServerStarts \/ ChildReaped \/ Restart \/ ForkFails
  <2>1. Kinds'
    BY <1>1, <1>t DEF ServerStarts, ChildReaped, Restart, ForkFails, Kinds
  <2>2. \A d \in Clients : AccountedAt(d)'
    BY <1>1, <1>t DEF ServerStarts, ChildReaped, Restart, ForkFails, AccountedAt, Asked,
                      InPublic, Held
  <2> QED BY <2>1, <2>2 DEF Counted
<1>2. CASE ReadRequest
  <2>1. Kinds'
    BY <1>2, <1>t DEF ReadRequest, Kinds
  <2>2. \A d \in Clients : InPublic(d) <=> InPublic(d)' \/ d = msg'
    BY <1>2, <1>t, InTaken DEF ReadRequest
  <2>3. \A d \in Clients : AccountedAt(d)'
    BY <1>2, <1>t, <2>2 DEF ReadRequest, AccountedAt, Asked, Held
  <2> QED BY <2>1, <2>3 DEF Counted
<1>3. CASE Try
  <2>1. Kinds'
    BY <1>3, <1>t DEF Try, Meet, Kinds, Typed, TypeOK
  <2>2. CASE Reads(msg)
    <3>1. /\ pc' = [pc EXCEPT ![msg] = "reading"] /\ server' = "answering" /\ server = "got"
          /\ writer' = [writer EXCEPT ![msg] = "writing"]
          /\ UNCHANGED <<msg, public, dropped>>
      BY <1>3, <2>2 DEF Try, Meet
    <3>2. \A d \in Clients : AccountedAt(d)'
      BY <1>t, <3>1 DEF AccountedAt, Asked, InPublic, Held, Typed, TypeOK
    <3> QED BY <2>1, <3>2 DEF Counted
  <2>3. CASE ~Reads(msg)
    BY <1>3, <1>t, <2>1, <2>3 DEF Try, Counted, AccountedAt, Asked, InPublic, Held
  <2> QED BY <2>2, <2>3
<1>4. CASE Fork
  <2>1. Kinds'
    BY <1>4, <1>t DEF Fork, Kinds, Typed, TypeOK
  <2>2. \A d \in Clients : AccountedAt(d)'
    BY <1>4, <1>t DEF Fork, AccountedAt, Asked, InPublic, Held, Typed, TypeOK
  <2> QED BY <2>1, <2>2 DEF Counted
<1>5. CASE KillServer
  <2>1. Kinds'
    BY <1>5, <1>t DEF KillServer, Kinds, Typed, TypeOK
  <2>2. \A d \in Clients : HasPublic(d) => public' = public
    BY <1>5 DEF KillServer, ServerClosesPublic
  <2>3. \A d \in Clients : AccountedAt(d)'
    BY <1>5, <1>t, <2>2 DEF KillServer, AccountedAt, Asked, InPublic, Held, HasPublic, Kinds,
                            Typed, TypeOK
  <2> QED BY <2>1, <2>3 DEF Counted
<1> QED BY <1>1, <1>2, <1>3, <1>4, <1>5 DEF ServerStep

\* Every step keeps Counted.
LEMMA CountedStep == ConstantsAssumption /\ Counted /\ [Next]_vars => Counted'
<1> SUFFICES ASSUME ConstantsAssumption, Counted, [Next]_vars PROVE Counted'
  OBVIOUS
<1>1. Typed'
  BY TypedStep DEF Counted
<1>2. CASE UNCHANGED vars
  BY <1>1, <1>2 DEF vars, srvVars, Counted, Kinds, AccountedAt, Asked, InPublic, Held
<1>3. CASE Next
  BY <1>1, <1>3, CountedClient, CountedWriter, CountedServer DEF Next
<1> QED BY <1>2, <1>3

\* With any of the three servers, any number of clients, kills of all of them and
\* restarts of the server, a client that waits has its request in PUBLIC, with the server
\* or with a child, or a server has reported it or died with it (pipe_client.cpp:26-28,
\* pipe_server.cpp:19-34).
THEOREM RequestsNotLost == Spec => []RequestAccounted
<1>1. ConstantsAssumption
  BY ConstantsAssumption
<1>2. Counted => RequestAccounted
  BY DEF Counted, AccountedAt, Asked, InPublic, Held, RequestAccounted
<1> QED BY <1>1, <1>2, CountedInit, CountedStep, PTL DEF Spec

-----------------------------------------------------------------------------
(***************************************************************************)
(* Answers of the children of pipe_server_m and pipe_server_mod.           *)
(***************************************************************************)

\* TalkAt of client d looks at d's own state, at its places in PUBLIC, and at whether the
\* server has its request.
LEMMA TalkFrame ==
    ASSUME NEW d \in Clients, TalkAt(d),
           public' = public \/ public' = << >>,
           Held(d)' => Held(d),
           UNCHANGED <<pc[d], sent[d], private[d], writer[d], written[d], got[d]>>
    PROVE  TalkAt(d)'
<1>1. InPublic(d)' => InPublic(d)
  BY DEF InPublic
<1>2. Once(d) => Once(d)'
  BY <1>1 DEF Once, InPublic
<1>3. Asked(d)' => Asked(d)
  BY <1>1 DEF Asked
<1>4. Piece(d) => Piece(d)'
  BY DEF Piece
<1> QED BY <1>2, <1>3, <1>4 DEF TalkAt, Answer

\* Nobody has asked for anything at first.
LEMMA WholeInit == ConstantsAssumption /\ Init => Whole
<1> SUFFICES ASSUME Init, NEW c \in Clients PROVE TalkAt(c)
  BY DEF Whole
<1>1. ~Asked(c)
  BY EmptyFacts DEF Init, Asked, InPublic, Held
<1> QED BY <1>1 DEF Init, TalkAt

\* A client that has come to its prompt has read the whole answer.
LEMMA PieceIsAnswer ==
    ASSUME ConstantsAssumption, Typed, NEW c \in Clients, Piece(c), private[c] = << >>,
           writer[c] # "writing"
    PROVE  got[c] = Answer(sent[c])
<1>1. got[c] \in Seq(Parts) /\ Len(private[c]) = 0 /\ Output + 1 \in Nat
  BY EmptyFacts DEF Typed, ConstantsAssumption
<1>2. Len(got[c]) = Output + 1 /\ \A j \in 1 .. Output + 1 : got[c][j] = <<sent[c], j>>
  BY <1>1 DEF Piece
<1>3. got[c] = [j \in 1 .. Output + 1 |-> got[c][j]]
  BY <1>1, <1>2
<1> QED BY <1>2, <1>3 DEF Answer

\* What a client does alone keeps Whole.
LEMMA WholeClient ==
    ASSUME ConstantsAssumption, Counted, program # "basic", program' = program,
           NEW c \in Clients, \A d \in Clients : TalkAt(d),
           \/ MakePrivate(c) \/ ClientFails(c) \/ OpenPublic(c) \/ SendCommand(c)
           \/ OpenPrivate(c) \/ SendKills(c) \/ Quit(c) \/ ReadPart(c) \/ ReadEnd(c)
           \/ KillClient(c),
           NEW d \in Clients
    PROVE  TalkAt(d)'
<1>t. Typed /\ TalkAt(c) /\ TalkAt(d)
  BY DEF Counted
<1>p. public \in Seq(Clients) /\ Len(public) \in Nat
  BY <1>t DEF Typed, TypeOK
<1>1. CASE SendCommand(c)
  <2>1. \A b \in Clients : InPublic(b)' <=> InPublic(b) \/ b = c
    BY <1>t, <1>1, InAppended DEF SendCommand
  <2>2. UNCHANGED <<server, msg, writer, written, private>>
    BY <1>1 DEF SendCommand, srvVars
  <2>3. /\ Len(public') = Len(public) + 1
        /\ \A j \in 1 .. Len(public) : public'[j] = public[j]
        /\ public'[Len(public) + 1] = c
    BY <1>1, <1>p, AppendFacts DEF SendCommand
  <2>4. \A k \in 1 .. Len(public') : k \in 1 .. Len(public) \/ k = Len(public) + 1
    BY <1>p, <2>3
  <2>5. CASE d = c
    <3>1. pc'[d] = "sent" /\ got'[d] = << >> /\ private[d] = << >> /\ writer[d] # "writing" /\ ~Asked(d)
      BY <1>1, <1>t, <2>5 DEF SendCommand, Typed, TypeOK, TalkAt
    <3>2. \A k \in 1 .. Len(public) : public[k] # d
      BY <3>1 DEF Asked, InPublic
    <3>3. \A k \in 1 .. Len(public') : public'[k] = d => k = Len(public) + 1
      BY <2>3, <2>4, <3>2
    <3>4. ~Held(d)' /\ writer'[d] # "opening"
      BY <2>2, <3>1 DEF Asked, Held
    <3>5. Once(d)'
      BY <3>3, <3>4 DEF Once
    <3> QED BY <2>2, <3>1, <3>5 DEF TalkAt
  <2>6. CASE d # c
    <3>1. UNCHANGED <<pc[d], sent[d], private[d], writer[d], written[d], got[d]>>
      BY <1>1, <1>t, <2>2, <2>6 DEF SendCommand, Typed, TypeOK
    <3>2. (Held(d)' <=> Held(d)) /\ (InPublic(d)' <=> InPublic(d))
      BY <2>1, <2>2, <2>6 DEF Held
    <3>3. \A k \in 1 .. Len(public') : public'[k] = d => k \in 1 .. Len(public) /\ public[k] = d
      BY <2>3, <2>4, <2>6
    <3>4. Once(d) => Once(d)'
      BY <3>1, <3>2, <3>3 DEF Once
    <3>5. Asked(d)' => Asked(d)
      BY <3>1, <3>2 DEF Asked
    <3>6. Piece(d) => Piece(d)'
      BY <3>1 DEF Piece
    <3> QED BY <1>t, <3>1, <3>4, <3>5, <3>6 DEF TalkAt, Answer
  <2> QED BY <2>5, <2>6
<1>2. ASSUME ~SendCommand(c) PROVE TalkAt(d)'
  <2>1. (public' = public \/ public' = << >>) /\ UNCHANGED <<msg, sent, writer, written>>
    BY <1>2, <1>t, CloseFacts
    DEF MakePrivate, ClientFails, OpenPublic, OpenPrivate, SendKills, Quit, ReadPart, ReadEnd,
        KillClient, srvVars
  <2>2. \A b \in Clients : Held(b)' => Held(b)
    BY <1>2 DEF MakePrivate, ClientFails, OpenPublic, OpenPrivate, SendKills, Quit, ReadPart,
                ReadEnd, KillClient, srvVars, Held
  <2>3. \A b \in Clients : Asked(b)' => Asked(b)
    BY <2>1, <2>2 DEF Asked, InPublic
  <2>4. CASE d # c
    <3>1. UNCHANGED <<pc[d], private[d], got[d]>>
      BY <1>2, <1>t, <2>4
      DEF MakePrivate, ClientFails, OpenPublic, OpenPrivate, SendKills, Quit, ReadPart,
          ReadEnd, KillClient, srvVars, Typed, TypeOK
    <3> QED BY <1>t, <2>1, <2>2, <3>1, TalkFrame
  <2>5. CASE d = c /\ (MakePrivate(c) \/ ClientFails(c) \/ SendKills(c) \/ Quit(c) \/ KillClient(c))
    <3>1. pc'[d] \in {"opening", "failed", "killed", "done"} /\ (pc'[d] = "opening" => pc[d] = "start")
      BY <1>t, <2>5 DEF MakePrivate, ClientFails, SendKills, Quit, KillClient, Typed, TypeOK
    <3>2. pc'[d] = "opening" => private' = private
      BY <1>t, <2>5 DEF MakePrivate, ClientFails, SendKills, Quit, KillClient, Typed, TypeOK
    <3> QED BY <1>t, <2>1, <2>3, <3>1, <3>2 DEF TalkAt
  <2>6. CASE d = c /\ OpenPublic(c)
    <3>1. pc[d] = "opening" /\ pc'[d] = "prompt" /\ private' = private
      BY <1>t, <2>6 DEF OpenPublic, Typed, TypeOK
    <3>2. sent'[d] = 0
      BY <1>t, <2>1, <3>1 DEF TalkAt
    <3> QED BY <1>t, <2>1, <2>3, <3>1, <3>2 DEF TalkAt
  <2>7. CASE d = c /\ OpenPrivate(c)
    <3>1. pc[d] = "sent" /\ pc'[d] = "waiting" /\ UNCHANGED <<private, got, public, server>>
      BY <1>t, <2>7 DEF OpenPrivate, srvVars, Typed, TypeOK
    <3>2. Once(d) => Once(d)'
      BY <2>1, <3>1 DEF Once, InPublic, Held
    <3> QED BY <1>t, <2>1, <3>1, <3>2 DEF TalkAt
  <2>8. CASE d = c /\ ReadPart(c)
    <3>1. /\ pc[d] = "reading" /\ pc'[d] = "reading" /\ private[d] # << >>
          /\ got'[d] = Append(got[d], Head(private[d])) /\ private'[d] = Tail(private[d])
      BY <1>t, <2>8 DEF ReadPart, Typed
    <3>2. private[d] \in Seq(Parts) /\ got[d] \in Seq(Parts)
      BY <1>t DEF Typed
    <3>3. /\ Head(private[d]) \in Parts /\ Head(private[d]) = private[d][1]
          /\ Len(private[d]) \in Nat \ {0} /\ Len(private'[d]) = Len(private[d]) - 1
          /\ \A j \in 1 .. Len(private'[d]) : private'[d][j] = private[d][j + 1]
      BY <3>1, <3>2, TailFacts
    <3>4. /\ Len(got[d]) \in Nat /\ Len(got'[d]) = Len(got[d]) + 1
          /\ \A j \in 1 .. Len(got[d]) : got'[d][j] = got[d][j]
          /\ got'[d][Len(got[d]) + 1] = private[d][1]
      BY <3>1, <3>2, <3>3, AppendFacts
    <3>5. Piece(d)
      BY <1>t, <3>1 DEF TalkAt
    <3>6. Len(got'[d]) + Len(private'[d]) = Len(got[d]) + Len(private[d])
      <4>1. Len(got[d]) \in Int /\ Len(private[d]) \in Int
        BY <3>3, <3>4
      <4>2. \A x, y \in Int : (x + 1) + (y - 1) = x + y
        BY ONLY SMT
      <4> QED BY <3>3, <3>4, <4>1, <4>2
    <3>7. \A j \in 1 .. Len(got'[d]) : got'[d][j] = <<sent[d], j>>
      <4>1. private[d][1] = <<sent[d], Len(got[d]) + 1>>
        BY <3>3, <3>5 DEF Piece
      <4>2. \A j \in 1 .. Len(got'[d]) : j \in 1 .. Len(got[d]) \/ j = Len(got[d]) + 1
        BY <3>4
      <4> QED BY <3>4, <3>5, <4>1, <4>2 DEF Piece
    <3>8. \A j \in 1 .. Len(private'[d]) : private'[d][j] = <<sent[d], Len(got'[d]) + j>>
      <4>1. ASSUME NEW j \in 1 .. Len(private'[d])
            PROVE  private'[d][j] = <<sent[d], Len(got'[d]) + j>>
        <5>1. j + 1 \in 1 .. Len(private[d]) /\ Len(got[d]) + (j + 1) = Len(got'[d]) + j
          <6>1. j \in Int /\ Len(got[d]) \in Int /\ 1 <= j /\ j <= Len(private[d]) - 1
            BY <3>3, <3>4
          <6>2. \A x, y \in Int : x + (y + 1) = (x + 1) + y
            BY ONLY SMT
          <6>3. j + 1 \in 1 .. Len(private[d])
            BY <3>3, <6>1
          <6> QED BY <3>4, <6>1, <6>2, <6>3
        <5>2. private[d][j + 1] = <<sent[d], Len(got[d]) + (j + 1)>>
          BY <3>5, <5>1 DEF Piece
        <5> QED BY <3>3, <5>1, <5>2
      <4> QED BY <4>1
    <3>9. Piece(d)'
      BY <2>1, <3>5, <3>6, <3>7, <3>8 DEF Piece
    <3> QED BY <1>t, <2>3, <3>1, <3>9 DEF TalkAt
  <2>9. CASE d = c /\ ReadEnd(c)
    <3>1. /\ pc[d] = "reading" /\ pc'[d] = "prompt" /\ private[d] = << >>
          /\ writer[d] # "writing" /\ UNCHANGED <<private, got>>
      BY <1>t, <2>9 DEF ReadEnd, Typed, TypeOK
    <3>2. got[d] = Answer(sent[d])
      BY <1>t, <3>1, PieceIsAnswer DEF TalkAt
    <3> QED BY <1>t, <2>1, <2>3, <3>1, <3>2 DEF TalkAt, Answer
  <2> QED BY <1>2, <2>4, <2>5, <2>6, <2>7, <2>8, <2>9
<1> QED BY <1>1, <1>2

\* What a child does keeps Whole.
LEMMA WholeWriter ==
    ASSUME ConstantsAssumption, Counted, program # "basic", program' = program,
           NEW c \in Clients, \A d \in Clients : TalkAt(d), WriterStep(c),
           NEW d \in Clients
    PROVE  TalkAt(d)'
<1>t. Typed /\ TalkAt(c) /\ TalkAt(d)
  BY DEF Counted
<1>1. (public' = public \/ public' = << >>) /\ UNCHANGED <<msg, sent, got>>
  BY DEF WriterStep, ChildOpens, WritePart, CloseWriter, WriterKilled, ServerClosesPublic, srvVars
<1>2. \A b \in Clients : Held(b)' => Held(b)
  BY DEF WriterStep, ChildOpens, WritePart, CloseWriter, WriterKilled, srvVars, Held
<1>3. CASE d # c
  <2>1. UNCHANGED <<pc[d], private[d], writer[d], written[d]>>
    BY <1>t, <1>3 DEF WriterStep, ChildOpens, Meet, WritePart, CloseWriter, WriterKilled, Typed, TypeOK
  <2> QED BY <1>t, <1>1, <1>2, <2>1, TalkFrame
<1>4. CASE d = c /\ ChildOpens(c)
  <2>1. /\ writer[d] = "opening" /\ pc[d] \in {"waiting", "reading"} /\ private' = private
        /\ pc'[d] = "reading" /\ writer'[d] = "writing" /\ written'[d] = 0
    BY <1>t, <1>4 DEF ChildOpens, Meet, Reads, Typed, TypeOK
  <2>2. pc[d] = "waiting" /\ private[d] = << >> /\ got[d] = << >> /\ Once(d)
    BY <1>t, <2>1 DEF TalkAt, Asked
  <2>3. ~Asked(d)'
    BY <1>1, <1>2, <2>1, <2>2 DEF Once, Asked, InPublic
  <2>4. Piece(d)'
    BY <1>1, <2>1, <2>2, EmptyFacts DEF Piece
  <2> QED BY <2>1, <2>3, <2>4 DEF TalkAt
<1>5. CASE d = c /\ WritePart(c)
  <2>1. /\ writer[d] = "writing" /\ writer' = writer /\ pc' = pc
        /\ pc[d] \in {"waiting", "reading"} /\ written'[d] = written[d] + 1
        /\ private'[d] = Append(private[d], <<sent[d], written[d] + 1>>)
    BY <1>t, <1>5 DEF WritePart, Reads, Typed, TypeOK
  <2>2. pc[d] = "reading" /\ Piece(d) /\ ~Asked(d)
    BY <1>t, <2>1 DEF TalkAt
  <2>3. ~Asked(d)'
    BY <1>1, <1>2, <2>1, <2>2 DEF Asked, InPublic
  <2>4. /\ private[d] \in Seq(Parts) /\ <<sent[d], written[d] + 1>> \in Parts
        /\ written[d] \in Nat /\ Len(private[d]) \in Nat /\ Len(got[d]) \in Nat
    <3>1. sent[d] \in Nat /\ written[d] \in Nat
      BY <1>t DEF Typed, TypeOK, ConstantsAssumption
    <3>2. private[d] \in Seq(Parts) /\ got[d] \in Seq(Parts)
      BY <1>t DEF Typed
    <3> QED BY <3>1, <3>2 DEF Parts
  <2>5. /\ Len(private'[d]) = Len(private[d]) + 1
        /\ \A j \in 1 .. Len(private[d]) : private'[d][j] = private[d][j]
        /\ private'[d][Len(private[d]) + 1] = <<sent[d], written[d] + 1>>
    BY <2>1, <2>4, AppendFacts
  <2>6. Len(got[d]) + Len(private[d]) = written[d]
    BY <2>1, <2>2 DEF Piece
  <2>7. Len(got[d]) + (Len(private[d]) + 1) = written[d] + 1
    <3>1. \A x, y \in Int : x + (y + 1) = (x + y) + 1
      BY ONLY SMT
    <3>2. Len(got[d]) \in Int /\ Len(private[d]) \in Int
      BY <2>4
    <3> QED BY <2>6, <3>1, <3>2
  <2>8. \A j \in 1 .. Len(private'[d]) : j \in 1 .. Len(private[d]) \/ j = Len(private[d]) + 1
    BY <2>4, <2>5
  <2>9. Piece(d)'
    BY <1>1, <2>1, <2>2, <2>5, <2>7, <2>8 DEF Piece
  <2> QED BY <2>1, <2>2, <2>3, <2>9 DEF TalkAt
<1>6. CASE d = c /\ CloseWriter(c)
  <2>1. /\ writer[d] = "writing" /\ writer'[d] = "none" /\ written[d] = Output + 1
        /\ UNCHANGED <<pc, private, written>>
    BY <1>t, <1>6 DEF CloseWriter, Typed, TypeOK, ConstantsAssumption
  <2>2. Piece(d) => Piece(d)'
    BY <1>1, <2>1 DEF Piece
  <2>3. Asked(d)' => Asked(d)
    BY <1>1, <1>2, <2>1 DEF Asked, InPublic
  <2> QED BY <1>t, <2>1, <2>2, <2>3 DEF TalkAt
<1>7. CASE d = c /\ WriterKilled(c)
  <2>1. writer[d] = "writing" /\ pc'[d] = pc[d] /\ pc[d] \notin {"waiting", "reading"}
    BY <1>7 DEF WriterKilled, Reads
  <2>2. pc[d] \in {"done", "failed", "killed"}
    BY <1>t, <2>1 DEF TalkAt, Typed, TypeOK
  <2> QED BY <2>1, <2>2 DEF TalkAt
<1> QED BY <1>3, <1>4, <1>5, <1>6, <1>7 DEF WriterStep

\* What the server does keeps Whole.
LEMMA WholeServer ==
    ASSUME ConstantsAssumption, Counted, program # "basic", program' = program,
           \A d \in Clients : TalkAt(d), ServerStep \/ ForkFails \/ KillServer \/ Restart,
           NEW d \in Clients
    PROVE  TalkAt(d)'
<1>t. Typed /\ Kinds /\ TalkAt(d)
  BY DEF Counted
<1>1. CASE ServerStarts \/ ChildReaped \/ Restart \/ ForkFails \/ KillServer
  <2>1. /\ public' = public \/ public' = << >>
        /\ Held(d)' => Held(d)
        /\ UNCHANGED <<pc, sent, private, writer, written, got>>
    BY <1>1, <1>t DEF ServerStarts, ChildReaped, Restart, ForkFails, KillServer, Held,
                      ServerClosesPublic, Kinds
  <2> QED BY <1>t, <2>1, TalkFrame
<1>2. CASE ReadRequest
  <2>1. /\ server = "reading" /\ server' = "got"
        /\ UNCHANGED <<pc, sent, private, writer, written, got>>
    BY <1>2 DEF ReadRequest
  <2>2. InPublic(d) <=> InPublic(d)' \/ d = msg'
    BY <1>2, <1>t, InTaken DEF ReadRequest
  <2>3. ~Held(d) /\ (Held(d)' <=> d = msg')
    BY <2>1 DEF Held
  <2>4. Asked(d)' => Asked(d)
    BY <2>1, <2>2, <2>3 DEF Asked
  <2>5. Once(d) => Once(d)'
    <3>1. public \in Seq(Clients)
      BY <1>t DEF Typed, TypeOK
    <3>2. /\ Len(public) \in Nat \ {0} /\ Len(public') = Len(public) - 1
          /\ \A j \in 1 .. Len(public') : public'[j] = public[j + 1]
          /\ msg' = public[1]
      BY <1>2, <3>1, TailFacts DEF ReadRequest
    <3>3. \A j \in 1 .. Len(public') : j + 1 \in 1 .. Len(public) /\ j + 1 # 1
      BY <3>2
    <3>4. 1 \in 1 .. Len(public)
      BY <3>2
    <3>5. ASSUME Once(d) PROVE InPublic(d)' => d # msg'
      BY <3>2, <3>3, <3>4, <3>5 DEF Once, InPublic
    <3>6. ASSUME Once(d), NEW j \in 1 .. Len(public'), NEW k \in 1 .. Len(public'),
                 public'[j] = d, public'[k] = d
          PROVE  j = k
      <4>1. j + 1 = k + 1
        BY <3>2, <3>3, <3>6 DEF Once
      <4> QED BY <3>2, <4>1
    <3> QED BY <2>1, <2>2, <2>3, <3>5, <3>6 DEF Once
  <2>6. Piece(d) => Piece(d)'
    BY <2>1 DEF Piece
  <2> QED BY <1>t, <2>1, <2>4, <2>5, <2>6 DEF TalkAt, Answer
<1>3. CASE Try
  BY <1>3 DEF Try
<1>4. CASE Fork
  <2>1. /\ server = "got" /\ server' # "got" /\ msg \in Clients
        /\ writer' = [writer EXCEPT ![msg] = "opening"]
        /\ UNCHANGED <<public, pc, sent, private, written, got>>
    BY <1>4, <1>t DEF Fork, Typed
  <2>2. CASE d # msg
    <3>1. writer'[d] = writer[d] /\ ~Held(d)'
      BY <1>t, <2>1, <2>2 DEF Typed, TypeOK, Held
    <3> QED BY <1>t, <2>1, <3>1, TalkFrame
  <2>3. CASE d = msg
    <3>1. Held(d) /\ Asked(d) /\ writer'[d] = "opening" /\ ~Held(d)'
      BY <1>t, <2>1, <2>3 DEF Held, Asked, Typed, TypeOK
    <3>2. pc[d] \notin {"start", "opening", "prompt", "reading"}
      BY <1>t, <3>1 DEF TalkAt
    <3>3. Once(d) => Once(d)'
      BY <2>1, <3>1 DEF Once, InPublic
    <3> QED BY <1>t, <2>1, <3>1, <3>2, <3>3 DEF TalkAt
  <2> QED BY <2>2, <2>3
<1> QED BY <1>1, <1>2, <1>3, <1>4 DEF ServerStep

\* Every step keeps Inv.
LEMMA InvStep == ConstantsAssumption /\ Inv /\ [Next]_vars => Inv'
<1> SUFFICES ASSUME ConstantsAssumption, Inv, [Next]_vars PROVE Inv'
  OBVIOUS
<1>1. Counted'
  BY CountedStep DEF Inv
<1>2. program' = program
  BY DEF Next, vars, srvVars, ServerStep, ServerStarts, ReadRequest, Try, Fork, ChildReaped,
         ForkFails, KillServer, Restart, WriterStep, ChildOpens, WritePart, CloseWriter,
         WriterKilled, MakePrivate, ClientFails, OpenPublic, SendCommand, OpenPrivate,
         SendKills, Quit, ReadPart, ReadEnd, KillClient
<1>3. CASE program = "basic"
  BY <1>1, <1>2, <1>3 DEF Inv, Whole
<1>4. CASE program # "basic"
  <2>1. Counted /\ \A d \in Clients : TalkAt(d)
    BY <1>4 DEF Inv, Whole
  <2>2. ASSUME NEW d \in Clients PROVE TalkAt(d)'
    <3>1. CASE UNCHANGED vars
      BY <2>1, <3>1, TalkFrame DEF vars, srvVars, Held
    <3>2. CASE Next
      BY <1>2, <1>4, <2>1, <3>2, WholeClient, WholeWriter, WholeServer DEF Next
    <3> QED BY <3>1, <3>2
  <2> QED BY <1>1, <2>2 DEF Inv, Whole
<1> QED BY <1>3, <1>4

\* What a client of pipe_server_m or pipe_server_mod has on its screen when it prompts
\* again is the answer to what it asked, for any number of clients, commands and parts and
\* any capacity of the FIFO, whoever is killed when (pipe_server_mod.cpp:43-61,
\* pipe_client.cpp:26-36).
THEOREM AnswersWhole == Spec => []AnswerWhole
<1>1. ConstantsAssumption
  BY ConstantsAssumption
<1>2. Inv => AnswerWhole
  BY DEF Inv, Whole, TalkAt, AnswerWhole
<1>3. ConstantsAssumption /\ Init => Inv
  BY CountedInit, WholeInit DEF Inv
<1> QED BY <1>1, <1>2, <1>3, InvStep, PTL DEF Spec

-----------------------------------------------------------------------------
(***************************************************************************)
(* The service of signal/6.7, for any number of clients, servers, signals  *)
(* and attempts: "mod" has one server at most.  The lemmas and the theorem *)
(* are about SignalService alone, the specification S!Spec.  A name that   *)
(* the two services share (Clients, TRIES, program, public, private, msg,  *)
(* pc, ...) stands for that of SignalService in what follows.              *)
(***************************************************************************)
CONSTANTS Programs, MaxServers, MaxSignals
VARIABLES srv, inode, dummy, signals, running, to, requests, worker

S == INSTANCE SignalService

ModStates == {"off", "start", "open", "opening", "dummy", "reading", "try", "answering"}

ServersTyped ==
    /\ public \in Nat
    /\ srv \in [S!Servers -> ModStates]
    /\ inode \in [S!Servers -> Nat] /\ dummy \in [S!Servers -> Nat]

\* Server s is past its mkfifo.
Active(s) == srv[s] \notin {"off", "start"}

\* While a server is past its mkfifo the name stays, and stays the name of the FIFO that
\* the server has open, for writing too as soon as it reads: read never returns 0, and
\* PUBLIC is not unlinked.
NamedOK ==
    \A s \in S!Servers :
        /\ Active(s) => public # S!NoFifo
        /\ Active(s) /\ srv[s] # "open" => inode[s] = public
        /\ srv[s] \in {"reading", "try", "answering"} => dummy[s] = public

AloneOK == \A s, t \in S!Servers : Active(s) /\ Active(t) => s = t

ModInv == ServersTyped /\ (program = "mod" => NamedOK /\ AloneOK)

-----------------------------------------------------------------------------
\* No server runs at first.
LEMMA ModInit == S!Init => ModInv
BY DEF S!Init, ModInv, ServersTyped, NamedOK, AloneOK, Active, ModStates, S!NoFifo

\* A server that waits in open goes on; it is as active as before.
LEMMA AwakeFacts ==
    ASSUME ServersTyped
    PROVE  /\ S!Awake \in [S!Servers -> ModStates]
           /\ \A s \in S!Servers :
                \/ S!Awake[s] = srv[s]
                \/ srv[s] = "opening" /\ inode[s] = public /\ S!Awake[s] = "dummy"
BY DEF ServersTyped, ModStates, S!Awake

\* NamedOrNew leaves a name.
LEMMA NamedFacts ==
    ASSUME ServersTyped, S!NamedOrNew
    PROVE  public' \in Nat /\ (public # S!NoFifo => public' = public)
<1>1. \A last : 1 .. last \subseteq Nat
  OBVIOUS
<1>2. S!Fifos \subseteq Nat
  BY <1>1 DEF S!Fifos
<1> QED BY <1>2 DEF S!NamedOrNew, ServersTyped

\* Every step keeps ModInv.
LEMMA ModStep == ModInv /\ [S!Next]_(S!vars) => ModInv'
<1> SUFFICES ASSUME ModInv, [S!Next]_(S!vars) PROVE ModInv'
  OBVIOUS
<1> USE DEF ModInv, S!NoFifo
<1>t. ServersTyped
  OBVIOUS
<1>a. /\ S!Awake \in [S!Servers -> ModStates]
      /\ \A s \in S!Servers :
           \/ S!Awake[s] = srv[s]
           \/ srv[s] = "opening" /\ inode[s] = public /\ S!Awake[s] = "dummy"
  BY AwakeFacts
<1>same. ASSUME UNCHANGED <<program, S!srvVars>> PROVE ModInv'
  BY <1>same DEF S!srvVars, ServersTyped, NamedOK, AloneOK, Active
<1>1. CASE UNCHANGED S!vars
  BY <1>1, <1>same DEF S!vars
<1>2. ASSUME NEW c \in Clients, S!Client(c) PROVE ModInv'
  <2>1. CASE S!OpenPublic(c)
    BY <2>1, <1>a DEF S!OpenPublic, ServersTyped, NamedOK, AloneOK, Active, ModStates
  <2>2. CASE S!StartServer(c)
    BY <2>2 DEF S!StartServer, ServersTyped, NamedOK, AloneOK, Active, ModStates
  <2>3. CASE S!Top(c) \/ S!Access(c) \/ S!Write(c) \/ S!OpenPrivate(c) \/ S!ReadEnd(c)
    BY <2>3, <1>same DEF S!Top, S!Access, S!Write, S!OpenPrivate, S!ReadEnd
  <2> QED BY <1>2, <2>1, <2>2, <2>3 DEF S!Client
<1>3. ASSUME NEW c \in Clients,
             S!Child(c) \/ S!MakeByHand(c) \/ S!InterruptClient(c)
      PROVE  ModInv'
  BY <1>3, <1>same DEF S!Child, S!ChildTry, S!ChildEnds, S!MakeByHand, S!InterruptClient
<1>4. ASSUME NEW c \in Clients, S!InterruptChild(c) PROVE ModInv'
  <2>1. program = "test" /\ program' = program
    BY <1>4 DEF S!InterruptChild
  <2>2. ServersTyped'
    BY <1>4 DEF S!InterruptChild, ServersTyped
  <2> QED BY <2>1, <2>2
<1>5. ASSUME NEW s \in S!Servers, S!Create(s) PROVE ModInv'
  <2>1. public' \in Nat /\ (public # S!NoFifo => public' = public)
    BY <1>5, NamedFacts DEF S!Create
  <2>2. S!NamedOrNew => public' # S!NoFifo
    BY ONLY DEF S!NamedOrNew, S!Fifos
  <2> QED
    BY <1>5, <2>1, <2>2 DEF S!Create, ServersTyped, NamedOK, AloneOK, Active, ModStates
<1>6. ASSUME NEW s \in S!Servers, S!OpenFifo(s) PROVE ModInv'
  BY <1>6 DEF S!OpenFifo, ServersTyped, NamedOK, AloneOK, Active, ModStates
<1>7. ASSUME NEW s \in S!Servers, S!OpenDummy(s) PROVE ModInv'
  <2>1. ServersTyped'
    BY <1>7, <1>a DEF S!OpenDummy, ServersTyped, ModStates
  <2>2. ASSUME program = "mod" PROVE NamedOK' /\ AloneOK'
    <3>1. public # S!NoFifo /\ inode[s] = public
      BY <1>7, <2>2 DEF S!OpenDummy, NamedOK, Active
    <3>2. S!Read(public)
      BY <3>1 DEF S!Read
    <3> QED
      BY <1>7, <1>a, <2>2, <3>1, <3>2
      DEF S!OpenDummy, ServersTyped, NamedOK, AloneOK, Active, ModStates
  <2> QED BY <1>7, <2>1, <2>2 DEF S!OpenDummy
<1>8. ASSUME NEW s \in S!Servers, S!ReadRequest(s) PROVE ModInv'
  BY <1>8 DEF S!ReadRequest, ServersTyped, NamedOK, AloneOK, Active, ModStates
<1>9. ASSUME NEW s \in S!Servers, S!ReadNothing(s) PROVE ModInv'
  <2>1. program # "mod"
    BY <1>9 DEF S!ReadNothing, NamedOK, Active, S!Written
  <2>2. ServersTyped'
    BY <1>9 DEF S!ReadNothing, ServersTyped, ModStates
  <2> QED BY <1>9, <2>1, <2>2 DEF S!ReadNothing
<1>10. ASSUME NEW s \in S!Servers, S!Try(s) PROVE ModInv'
  BY <1>10 DEF S!Try, ServersTyped, NamedOK, AloneOK, Active, ModStates
<1>11. ASSUME NEW s \in S!Servers, S!Answer(s) PROVE ModInv'
  BY <1>11 DEF S!Answer, ServersTyped, NamedOK, AloneOK, Active, ModStates
<1>12. ASSUME NEW s \in S!Servers, S!InterruptServer(s) PROVE ModInv'
  BY <1>12 DEF S!InterruptServer, ServersTyped, NamedOK, AloneOK, Active, ModStates
<1> QED
  BY <1>1, <1>2, <1>3, <1>4, <1>5, <1>6, <1>7, <1>8, <1>9, <1>10, <1>11, <1>12
  DEF S!Next, S!Server

\* Among clients that start servers at the same time and servers that are interrupted
\* at any place, "mod" has at most one server past its mkfifo (pipe_server_mod.cpp:21).
THEOREM ServerAlone == S!Spec => []S!OneServer
<1>1. ModInv => S!OneServer
  BY DEF ModInv, AloneOK, Active, S!OneServer
<1> QED BY <1>1, ModInit, ModStep, PTL DEF S!Spec
=============================================================================
