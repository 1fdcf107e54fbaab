-------------------------- MODULE GuessGameProofs --------------------------
(***************************************************************************)
(* Proofs about GuessGame, for any number of players, any letters, any     *)
(* word, number of lives and number of characters typed: types, that a     *)
(* player who stays is judged by what it has typed itself, and whose game  *)
(* the end of the server takes.                                            *)
(*                                                                         *)
(* The game knows nothing of a player but the characters it has taken from *)
(* its connection.  What the server has done so far is therefore measured  *)
(* by these (JudgedBy), the characters still on their way being the last   *)
(* ones that were typed (WireOK).                                          *)
(***************************************************************************)
EXTENDS GuessGame, FiniteSetTheorems, TLAPS

\* The characters that the server has taken from p's connection, and the bad ones.
Taken(p) == Len(typed[p]) - Len(wire[p])
Bad(p)   == {k \in 1 .. Taken(p) : typed[p][k] \notin Word}

WireOK(p) ==
    /\ Len(wire[p]) <= Len(typed[p])
    /\ \A k \in 1 .. Len(wire[p]) : wire[p][k] = typed[p][Taken(p) + k]

\* What the lives, the letters and the state have to do with where the server is.
GameOK ==
    /\ server = "hello" => guess = NoLetter
    /\ server = "accept" => fd = NoOne
    /\ server \in {"hello", "board"} => part_word = {} /\ lives = maxlives
    /\ server \in {"hello", "board", "read"} => game_state = "I"
    /\ server \in {"hello", "board", "read", "reply"} /\ game_state = "I" => lives > 0
    /\ game_state = "W" => part_word = Word /\ lives > 0
    /\ game_state = "I" /\ part_word = Word => ~ended_word

Playing == {"hello", "board", "read", "reply", "close"}

JudgedBy(p) ==
    /\ game_state # "L" => \A c \in part_word : \E k \in 1 .. Taken(p) : typed[p][k] = c
    /\ maxlives - lives <= Cardinality(Bad(p))

\* Whoever waits or plays has connected.
Connected ==
    /\ \A k \in 1 .. Len(backlog) : link[backlog[k]] # "none"
    /\ server \in Playing => link[fd] # "none"

Inv ==
    /\ TypeOK /\ Connected
    /\ \A p \in Players : WireOK(p)
    /\ GameOK
    /\ server \in Playing /\ link[fd] = "up" => JudgedBy(fd)
    /\ NobodyDropped

-----------------------------------------------------------------------------
(***************************************************************************)
(* Counting characters, and taking them from a connection.                 *)
(***************************************************************************)

\* More characters have at least as many bad ones among them, and one more if the next one
\* is bad.
LEMMA BadGrows ==
    ASSUME NEW n \in Nat, NEW m \in Nat, n <= m, NEW f, NEW g,
           \A k \in 1 .. n : f[k] = g[k],
           NEW A, A = {k \in 1 .. n : f[k] \notin Word},
           NEW B, B = {k \in 1 .. m : g[k] \notin Word}
    PROVE  /\ Cardinality(A) \in Nat /\ Cardinality(B) \in Nat
           /\ Cardinality(A) <= Cardinality(B)
           /\ n < m /\ g[n + 1] \notin Word => Cardinality(A) + 1 <= Cardinality(B)
<1>1. IsFiniteSet(1 .. n) /\ IsFiniteSet(1 .. m)
  BY FS_Interval
<1>2. A \in SUBSET (1 .. n) /\ B \in SUBSET (1 .. m)
  OBVIOUS
<1>3. IsFiniteSet(A) /\ IsFiniteSet(B)
  BY <1>1, <1>2, FS_Subset
<1>4. A \in SUBSET B
  OBVIOUS
<1>5. n < m /\ g[n + 1] \notin Word => n + 1 \notin A /\ A \cup {n + 1} \in SUBSET B
  BY <1>4
<1>6. Cardinality(A) \in Nat /\ Cardinality(B) \in Nat
  BY <1>3, FS_CardinalityType
<1>7. Cardinality(A) <= Cardinality(B)
  BY <1>3, <1>4, FS_Subset
<1>8. ASSUME n < m, g[n + 1] \notin Word PROVE Cardinality(A) + 1 <= Cardinality(B)
  <2>1. n + 1 \notin A /\ A \cup {n + 1} \in SUBSET B
    BY <1>5, <1>8
  <2>2. Cardinality(A \cup {n + 1}) = Cardinality(A) + 1
    BY <1>3, <2>1, FS_AddElement
  <2>3. Cardinality(A \cup {n + 1}) <= Cardinality(B)
    BY <1>3, <2>1, FS_Subset
  <2> QED BY <2>2, <2>3
<1> QED BY <1>6, <1>7, <1>8

\* What has been taken stays taken: as long as the game does not change, a player is
\* judged by it.
LEMMA StillJudged ==
    ASSUME NEW p \in Players, TypeOK, WireOK(p), JudgedBy(p), UNCHANGED <<part_word, lives, game_state>>,
           Taken(p)' \in Nat, Taken(p) <= Taken(p)',
           \A k \in 1 .. Taken(p) : typed'[p][k] = typed[p][k]
    PROVE  JudgedBy(p)'
<1>1. Taken(p) \in Nat
  BY DEF TypeOK, WireOK, Taken
<1>2. Cardinality(Bad(p)) \in Nat /\ Cardinality(Bad(p)') \in Nat /\ Cardinality(Bad(p)) <= Cardinality(Bad(p)')
  <2> DEFINE n == Taken(p)
             m == Taken(p)'
             f == typed[p]
             g == typed'[p]
  <2>1. n \in Nat /\ m \in Nat /\ n <= m /\ \A k \in 1 .. n : f[k] = g[k]
    BY <1>1
  <2>2. Bad(p) = {k \in 1 .. n : f[k] \notin Word} /\ Bad(p)' = {k \in 1 .. m : g[k] \notin Word}
    BY DEF Bad
  <2> HIDE DEF n, m, f, g
  <2> QED BY <2>1, <2>2, BadGrows
<1>3. maxlives \in Int /\ lives \in Int
  BY GuessGameAssumption DEF TypeOK
<1>4. maxlives - lives' <= Cardinality(Bad(p)')
  BY <1>2, <1>3 DEF JudgedBy
<1>5. game_state' # "L" => \A c \in part_word' : \E k \in 1 .. Taken(p)' : typed'[p][k] = c
  BY <1>1 DEF JudgedBy
<1> QED BY <1>4, <1>5 DEF JudgedBy

\* Nothing changes for a player whose connection is as it was.
LEMMA WireKept ==
    ASSUME NEW p \in Players, WireOK(p), wire'[p] = wire[p], typed'[p] = typed[p]
    PROVE  WireOK(p)' /\ Taken(p)' = Taken(p)
BY DEF WireOK, Taken

-----------------------------------------------------------------------------
(***************************************************************************)
(* The players and the network.                                            *)
(***************************************************************************)

\* At first nobody plays.
LEMMA InvInit == GuessGameAssumption /\ Init => Inv
<1> SUFFICES ASSUME GuessGameAssumption, Init PROVE Inv
  OBVIOUS
<1>1. TypeOK
  BY DEF Init, TypeOK, GuessGameAssumption
<1>2. \A p \in Players : WireOK(p)
  BY DEF Init, WireOK
<1>3. GameOK /\ NobodyDropped /\ server \notin Playing
  BY DEF Init, GameOK, NobodyDropped, Playing, GuessGameAssumption
<1> QED BY <1>1, <1>2, <1>3 DEF Init, Inv, Connected

\* Connecting has nothing to do with the game.
LEMMA ConnectKeeps == ASSUME Inv, NEW p \in Players, Connect(p) PROVE Inv'
<1>1. /\ link' = [link EXCEPT ![p] = "up"] /\ link[p] = "none" /\ backlog' = Append(backlog, p)
      /\ UNCHANGED <<server, fd, part_word, lives, guess, game_state, ended_word, wire, typed>>
      /\ server # "dead"
  BY DEF Connect, game
<1>2. TypeOK'
  BY <1>1 DEF Inv, TypeOK
<1>3. \A q \in Players : WireOK(q)' /\ Taken(q)' = Taken(q)
  BY <1>1, WireKept DEF Inv
<1>4. GameOK' /\ NobodyDropped'
  BY <1>1 DEF Inv, GameOK, NobodyDropped
<1>5. server \in Playing => fd \in Players /\ fd # p
  BY <1>1, <1>2 DEF Inv, TypeOK, Connected, Playing
<1>6. Connected'
  <2>1. backlog \in Seq(Players) /\ link \in [Players -> {"none", "up", "closed", "reset", "broken", "over"}]
    BY DEF Inv, TypeOK
  <2>2. \A q \in Players : link[q] # "none" => link'[q] # "none"
    BY <1>1, <2>1
  <2>3. ASSUME NEW k \in 1 .. Len(backlog') PROVE link'[backlog'[k]] # "none"
    <3>1. CASE k = Len(backlog) + 1
      BY <1>1, <2>1, <3>1
    <3>2. CASE k # Len(backlog) + 1
      <4>1. k \in 1 .. Len(backlog) /\ backlog'[k] = backlog[k] /\ backlog[k] \in Players
        BY <1>1, <2>1, <3>2
      <4> QED BY <2>2, <4>1 DEF Inv, Connected
    <3> QED BY <3>1, <3>2
  <2> QED BY <1>1, <1>5, <2>2, <2>3 DEF Inv, Connected
<1>7. server' \in Playing /\ link'[fd'] = "up" => JudgedBy(fd)'
  <2>1. SUFFICES ASSUME server' \in Playing, link'[fd'] = "up" PROVE JudgedBy(fd)'
    OBVIOUS
  <2>2. fd \in Players /\ fd # p /\ link[fd] = "up" /\ JudgedBy(fd)
    BY <1>1, <1>5, <2>1 DEF Inv, TypeOK
  <2>3. Taken(fd)' = Taken(fd) /\ fd' = fd
    BY <1>1, <1>3, <2>2 DEF Taken
  <2> QED BY <1>1, <2>2, <2>3 DEF JudgedBy, Bad
<1> QED BY <1>2, <1>3, <1>4, <1>6, <1>7 DEF Inv

\* A character that is typed goes behind those that are on their way.
LEMMA TypeKeeps == ASSUME Inv, NEW p \in Players, Type(p) PROVE Inv'
<1>1. PICK c \in Letters : /\ wire' = [wire EXCEPT ![p] = Append(@, c)]
                           /\ typed' = [typed EXCEPT ![p] = Append(@, c)]
  BY DEF Type
<1>2. /\ UNCHANGED <<server, fd, backlog, part_word, lives, guess, game_state, ended_word, link>>
      /\ wire \in [Players -> Seq(Letters)] /\ typed \in [Players -> Seq(Letters)]
  BY DEF Type, game, Inv, TypeOK
<1>3. TypeOK'
  <2>1. \A q \in Players : wire'[q] \in Seq(Letters) /\ typed'[q] \in Seq(Letters)
    BY <1>1, <1>2
  <2>2. wire' \in [Players -> Seq(Letters)] /\ typed' \in [Players -> Seq(Letters)]
    BY <1>1, <1>2, <2>1
  <2> QED BY <1>2, <2>2 DEF Inv, TypeOK
<1>4. ASSUME NEW q \in Players
      PROVE  /\ WireOK(q)' /\ Taken(q)' = Taken(q) /\ Taken(q) \in Nat
             /\ \A k \in 1 .. Taken(q) : typed'[q][k] = typed[q][k]
  <2>1. WireOK(q) /\ wire[q] \in Seq(Letters) /\ typed[q] \in Seq(Letters)
    BY <1>2 DEF Inv
  <2>2. Taken(q) \in Nat
    BY <2>1 DEF WireOK, Taken
  <2>3. CASE q # p
    BY <1>1, <1>2, <2>1, <2>2, <2>3, WireKept
  <2>4. CASE q = p
    <3>1. /\ Len(wire'[q]) = Len(wire[q]) + 1 /\ Len(typed'[q]) = Len(typed[q]) + 1
          /\ \A k \in 1 .. Len(wire[q]) : wire'[q][k] = wire[q][k]
          /\ \A k \in 1 .. Len(typed[q]) : typed'[q][k] = typed[q][k]
          /\ wire'[q][Len(wire[q]) + 1] = c /\ typed'[q][Len(typed[q]) + 1] = c
      BY <1>1, <1>2, <2>1, <2>4
    <3>2. Taken(q)' = Taken(q)
      BY <2>1, <3>1 DEF Taken
    <3>3. \A k \in 1 .. Taken(q) : typed'[q][k] = typed[q][k]
      BY <2>1, <3>1 DEF Taken, WireOK
    <3>4. ASSUME NEW k \in 1 .. Len(wire'[q]) PROVE wire'[q][k] = typed'[q][Taken(q) + k]
      <4>1. CASE k \in 1 .. Len(wire[q])
        <5>1. Taken(q) + k \in 1 .. Len(typed[q]) /\ wire[q][k] = typed[q][Taken(q) + k]
          <6>1. Len(wire[q]) \in Nat /\ Len(typed[q]) \in Nat /\ Len(wire[q]) <= Len(typed[q])
            BY <2>1 DEF WireOK
          <6>2. \A x, y \in Nat : x <= y /\ k \in 1 .. x => (y - x) + k \in 1 .. y
            OBVIOUS
          <6>3. Taken(q) + k \in 1 .. Len(typed[q])
            BY <4>1, <6>1, <6>2 DEF Taken
          <6> QED BY <2>1, <4>1, <6>3 DEF WireOK
        <5> QED BY <3>1, <4>1, <5>1
      <4>2. CASE k = Len(wire[q]) + 1
        <5>1. Taken(q) + k = Len(typed[q]) + 1
          <6>1. Len(wire[q]) \in Nat /\ Len(typed[q]) \in Nat
            BY <2>1
          <6>2. \A x, y \in Nat : (y - x) + (x + 1) = y + 1
            OBVIOUS
          <6> QED BY <4>2, <6>1, <6>2 DEF Taken
        <5> QED BY <3>1, <4>2, <5>1
      <4> QED BY <2>1, <3>1, <4>1, <4>2
    <3>5. WireOK(q)'
      BY <2>1, <3>1, <3>2, <3>4 DEF WireOK
    <3> QED BY <2>2, <3>2, <3>3, <3>5
  <2> QED BY <2>3, <2>4
<1>5. GameOK' /\ NobodyDropped' /\ Connected'
  BY <1>2 DEF Inv, GameOK, NobodyDropped, Connected
<1>6. ASSUME server' \in Playing, link'[fd'] = "up" PROVE JudgedBy(fd)'
  <2>1. fd \in Players /\ JudgedBy(fd) /\ fd' = fd /\ TypeOK
    BY <1>2, <1>6 DEF Inv, TypeOK, Playing
  <2>2. ASSUME NEW q \in Players, q = fd PROVE JudgedBy(q)'
    <3>1. JudgedBy(q) /\ WireOK(q) /\ UNCHANGED <<part_word, lives, game_state>>
      BY <1>2, <2>1, <2>2 DEF Inv
    <3>2. Taken(q)' = Taken(q) /\ Taken(q) \in Nat /\ \A k \in 1 .. Taken(q) : typed'[q][k] = typed[q][k]
      BY <1>4
    <3> QED BY <2>1, <3>1, <3>2, StillJudged
  <2>3. \A q \in Players : q = fd => JudgedBy(q)'
    BY <2>2
  <2> QED BY <2>1, <2>3 DEF JudgedBy, Taken, Bad
<1> QED BY <1>3, <1>4, <1>5, <1>6 DEF Inv

\* A connection that changes, and is not the player's any more, leaves only the server's
\* end to be thought of.
LEMMA LinkKeeps ==
    ASSUME Inv, NEW p \in Players, NEW how \in {"closed", "reset", "broken", "over"},
           link' = [link EXCEPT ![p] = how],
           UNCHANGED <<backlog, part_word, lives, guess, ended_word, game_state, wire, typed>>,
           TypeOK', GameOK', NobodyDropped',
           server' \in Playing => server \in Playing /\ fd' = fd
    PROVE  Inv'
<1>1. \A q \in Players : WireOK(q)' /\ Taken(q)' = Taken(q)
  BY WireKept DEF Inv
<1>2. Connected'
  <2>1. \A q \in Players : link[q] # "none" => link'[q] # "none"
    BY DEF Inv, TypeOK
  <2>2. \A k \in 1 .. Len(backlog) : backlog[k] \in Players
    BY DEF Inv, TypeOK
  <2>3. server \in Playing => fd \in Players
    BY DEF Inv, TypeOK, Playing
  <2> QED BY <2>1, <2>2, <2>3 DEF Inv, Connected
<1>3. ASSUME server' \in Playing, link'[fd'] = "up" PROVE JudgedBy(fd)'
  <2>1. fd \in Players /\ fd' = fd /\ link[fd] = "up" /\ JudgedBy(fd)
    BY <1>3 DEF Inv, TypeOK, Playing
  <2>2. Taken(fd)' = Taken(fd)
    BY <1>1, <2>1 DEF Taken
  <2> QED BY <2>1, <2>2 DEF JudgedBy, Bad
<1> QED BY <1>1, <1>2, <1>3 DEF Inv

\* A player that leaves was there, and the server is at work.
LEMMA LeaveKeeps == ASSUME Inv, NEW p \in Players, Leave(p) PROVE Inv'
<1>1. PICK how \in {"closed", "reset"} : link' = [link EXCEPT ![p] = how]
  BY DEF Leave
<1>2. /\ UNCHANGED <<server, fd, backlog, part_word, lives, guess, ended_word, game_state, wire, typed>>
      /\ link[p] = "up"
  BY DEF Leave, game
<1>3. TypeOK' /\ GameOK'
  BY <1>1, <1>2 DEF Inv, TypeOK, GameOK
<1>4. NobodyDropped'
  <2>1. fd # NoOne => fd \in Players
    BY DEF Inv, TypeOK
  <2>2. fd # NoOne /\ fd # p => link'[fd] = link[fd]
    BY <1>1, <2>1 DEF Inv, TypeOK
  <2>3. server = "dead" /\ fd # NoOne /\ fd = p => guess = NoLetter \/ (~ended_word /\ game_state = "L")
    BY <1>2 DEF Inv, NobodyDropped
  <2> QED BY <1>2, <2>2, <2>3 DEF Inv, NobodyDropped
<1> QED BY <1>1, <1>2, <1>3, <1>4, LinkKeeps

\* A reset changes nothing but the connection of the one who plays and has left.
LEMMA ResetKeeps == ASSUME Inv, ResetArrives PROVE Inv'
<1>1. /\ link' = [link EXCEPT ![fd] = "broken"] /\ fd \in Players /\ link[fd] = "closed"
      /\ server \in {"board", "read", "reply"}
      /\ UNCHANGED <<server, fd, backlog, part_word, lives, guess, ended_word, game_state, wire, typed>>
  BY DEF ResetArrives, game, Inv, TypeOK
<1>2. TypeOK' /\ GameOK' /\ NobodyDropped'
  BY <1>1 DEF Inv, TypeOK, GameOK, NobodyDropped
<1> QED BY <1>1, <1>2, LinkKeeps

-----------------------------------------------------------------------------
(***************************************************************************)
(* The server.                                                             *)
(***************************************************************************)

\* A step of the server that leaves the connections and the guesses alone keeps what
\* is not its own.
LEMMA ServerKeeps ==
    ASSUME Inv, UNCHANGED <<fd, backlog, part_word, lives, guess, ended_word, game_state, link, wire, typed>>,
           server' \in {"read", "close", "board", "dead"}, server \in Playing,
           GameOK', NobodyDropped'
    PROVE  Inv'
<1>1. TypeOK'
  BY DEF Inv, TypeOK, Playing
<1>2. \A q \in Players : WireOK(q)'
  BY WireKept DEF Inv
<1>3. Connected'
  BY DEF Inv, Connected
<1>4. ASSUME link'[fd'] = "up" PROVE JudgedBy(fd)'
  BY <1>4 DEF Inv, JudgedBy, Bad, Taken
<1> QED BY <1>1, <1>2, <1>3, <1>4 DEF Inv

\* The writes move the server on, or end it in a broken connection, or before the first
\* guess.
LEMMA WriteOutKeeps == ASSUME Inv, WriteOut PROVE Inv'
<1>1. /\ server \in {"hello", "board", "reply"} /\ fd \in Players /\ server \in Playing
      /\ UNCHANGED <<fd, backlog, part_word, lives, guess, ended_word, game_state, wire, typed>>
      /\ game_state \in {"I", "W", "L"}
  BY DEF WriteOut, game, Inv, TypeOK, Playing
<1>2. CASE /\ link[fd] # "broken"
           /\ link' = [link EXCEPT ![fd] = IF @ = "reset" THEN "broken" ELSE @]
           /\ server' = CASE server = "hello" -> "board" [] server = "board" -> "read"
                          [] server = "reply" -> IF game_state = "I" THEN "read" ELSE "close"
  <2>1. /\ server = "hello" => server' = "board"
        /\ server = "board" => server' = "read"
        /\ server = "reply" => server' = IF game_state = "I" THEN "read" ELSE "close"
    BY <1>2
  <2>2. server' \in {"board", "read", "close"}
    BY <1>1, <2>1
  <2>3. GameOK'
    BY <1>1, <2>1, <2>2 DEF Inv, GameOK
  <2>4. NobodyDropped'
    BY <2>2 DEF NobodyDropped
  <2>5. CASE link[fd] = "reset"
    <3>1. link' = [link EXCEPT ![fd] = "broken"]
      BY <1>2, <2>5
    <3>2. TypeOK'
      BY <1>1, <2>2, <3>1 DEF Inv, TypeOK
    <3> QED BY <1>1, <2>2, <2>3, <2>4, <3>1, <3>2, LinkKeeps
  <2>6. CASE link[fd] # "reset"
    <3>1. link' = link
      BY <1>2, <2>6 DEF Inv, TypeOK
    <3> QED BY <1>1, <2>2, <2>3, <2>4, <3>1, ServerKeeps
  <2> QED BY <2>5, <2>6
<1>3. CASE (link[fd] = "broken" \/ server = "hello") /\ server' = "dead" /\ UNCHANGED link
  <2>1. GameOK'
    BY <1>1, <1>3 DEF Inv, GameOK
  <2>2. NobodyDropped'
    BY <1>1, <1>3 DEF Inv, GameOK, NobodyDropped
  <2> QED BY <1>1, <1>3, <2>1, <2>2, ServerKeeps
<1> QED BY <1>2, <1>3 DEF WriteOut

\* A new game: nothing has been guessed, and no life is lost, whatever the player has
\* typed before.
LEMMA AcceptKeeps == ASSUME Inv, Accept PROVE Inv'
<1>1. /\ backlog # << >> /\ backlog \in Seq(Players) /\ maxlives \in Nat \ {0}
      /\ fd' = Head(backlog) /\ backlog' = Tail(backlog) /\ server' = "hello"
      /\ part_word' = {} /\ lives' = maxlives /\ guess' = NoLetter /\ game_state' = "I"
      /\ ended_word' \in BOOLEAN
      /\ UNCHANGED <<link, wire, typed>>
  BY GuessGameAssumption DEF Accept, Inv, TypeOK
<1>2. /\ fd' = backlog[1] /\ fd' \in Players /\ 1 \in 1 .. Len(backlog) /\ backlog' \in Seq(Players)
      /\ \A k \in 1 .. Len(backlog') : k + 1 \in 1 .. Len(backlog) /\ backlog'[k] = backlog[k + 1]
  BY <1>1
<1>3. TypeOK'
  BY <1>1, <1>2, GuessGameAssumption DEF Inv, TypeOK
<1>4. GameOK' /\ NobodyDropped'
  BY <1>1, GuessGameAssumption DEF GameOK, NobodyDropped
<1>5. Connected'
  BY <1>1, <1>2 DEF Inv, Connected
<1>6. \A q \in Players : WireOK(q)'
  BY <1>1, WireKept DEF Inv
<1>7. JudgedBy(fd)'
  <2> DEFINE n == Taken(fd)'
             f == typed'[fd']
  <2>1. n \in Nat
    BY <1>2, <1>3, <1>6 DEF TypeOK, WireOK, Taken
  <2>2. Bad(fd)' = {k \in 1 .. n : f[k] \notin Word}
    BY DEF Bad
  <2> HIDE DEF n, f
  <2>3. Cardinality(Bad(fd)') \in Nat
    BY <2>1, <2>2, BadGrows
  <2> QED BY <1>1, <2>3 DEF JudgedBy
<1> QED BY <1>3, <1>4, <1>5, <1>6, <1>7 DEF Inv

\* Who has no player takes no game from one.
LEMMA AcceptFailsKeeps == ASSUME Inv, AcceptFails PROVE Inv'
<1>1. /\ server = "accept" /\ server' = "dead"
      /\ UNCHANGED <<fd, backlog, part_word, lives, guess, ended_word, game_state, link, wire, typed>>
  BY DEF AcceptFails, game
<1>2. TypeOK' /\ GameOK' /\ Connected'
  BY <1>1 DEF Inv, TypeOK, GameOK, Connected, Playing
<1>3. NobodyDropped'
  BY <1>1 DEF Inv, GameOK, NobodyDropped
<1>4. \A q \in Players : WireOK(q)'
  BY <1>1, WireKept DEF Inv
<1>5. server' \notin Playing
  BY <1>1 DEF Playing
<1> QED BY <1>2, <1>3, <1>4, <1>5 DEF Inv

\* The game after a guess: lives are lost one at a time, and the last one ends it.  A bad
\* guess cannot complete the word, so whoever wins has a life left.
LEMMA JudgeFacts ==
    ASSUME Inv, server = "read", NEW g \in Letters, Judge(g), wire' \in [Players -> Seq(Letters)]
    PROVE  TypeOK' /\ GameOK' /\ NobodyDropped' /\ Connected'
<1>1. /\ UNCHANGED <<fd, backlog, ended_word, link, typed>> /\ guess' = g
      /\ lives' = Left(g) /\ game_state' = State(g)
      /\ part_word' = IF State(g) = "L" THEN Word ELSE Found(g)
      /\ server' \in {"reply"} \cup IF State(g) = "L" /\ ~ended_word THEN {"dead"} ELSE {}
  BY DEF Judge
<1>2. lives \in 0 .. maxlives /\ lives > 0 /\ fd \in Players /\ maxlives \in Nat /\ game_state = "I"
  BY GuessGameAssumption DEF Inv, TypeOK, GameOK
<1>3. Left(g) \in 0 .. maxlives
  BY <1>2 DEF Left
<1>4. server' \in {"reply", "dead"} /\ (server' = "dead" => game_state' = "L" /\ ~ended_word)
  BY <1>1
<1>5. TypeOK'
  <2>1. part_word' \subseteq Word /\ game_state' \in {"I", "W", "L"} /\ guess' \in Letters
    BY <1>1 DEF Inv, TypeOK, Found, State
  <2> QED BY <1>1, <1>2, <1>3, <1>4, <2>1 DEF Inv, TypeOK
<1>6. GameOK'
  <2>1. State(g) = "I" => Left(g) # 0 /\ ~(Found(g) = Word /\ ended_word)
    BY DEF State
  <2>2. State(g) = "W" => Found(g) = Word /\ Left(g) # 0
    <3>1. SUFFICES ASSUME State(g) = "W" PROVE Found(g) = Word /\ Left(g) # 0
      OBVIOUS
    <3>2. Found(g) = Word /\ ended_word
      BY <3>1 DEF State
    <3>3. part_word # Word
      BY <1>2, <3>2 DEF Inv, GameOK
    <3>4. g \in Word
      BY <3>2, <3>3 DEF Found
    <3> QED BY <1>2, <3>2, <3>4 DEF Left
  <2>3. game_state' = "I" => lives' > 0 /\ (part_word' = Word => ~ended_word')
    BY <1>1, <1>3, <2>1
  <2>4. game_state' = "W" => part_word' = Word /\ lives' > 0
    BY <1>1, <1>3, <2>2
  <2> QED BY <1>4, <2>3, <2>4 DEF GameOK
<1>7. NobodyDropped'
  BY <1>1, <1>4 DEF NobodyDropped
<1>8. Connected'
  BY <1>1, <1>2 DEF Inv, Connected, Playing
<1> QED BY <1>5, <1>6, <1>7, <1>8

\* A guess that is judged is the first one on its way; taking it, and perhaps some that
\* follow, a bad one costs one life.  Whoever has left is not judged by anything.
LEMMA ReadKeeps == ASSUME Inv, Read PROVE Inv'
<1>1. /\ server = "read" /\ fd \in Players /\ wire \in [Players -> Seq(Letters)]
      /\ typed \in [Players -> Seq(Letters)]
  BY DEF Read, Inv, TypeOK
<1>2. ASSUME wire[fd] # << >>, NEW k \in 1 .. Len(wire[fd]),
             wire' = [wire EXCEPT ![fd] = SubSeq(@, k + 1, Len(@))], Judge(Head(wire[fd]))
      PROVE  Inv'
  <2> DEFINE g == Head(wire[fd])
  <2>1. g \in Letters /\ g = wire[fd][1] /\ 1 \in 1 .. Len(wire[fd])
    BY <1>1, <1>2
  <2>2. /\ wire'[fd] \in Seq(Letters) /\ Len(wire'[fd]) = Len(wire[fd]) - k
        /\ \A j \in 1 .. Len(wire'[fd]) : j + k \in 1 .. Len(wire[fd]) /\ wire'[fd][j] = wire[fd][j + k]
        /\ \A q \in Players : q # fd => wire'[q] = wire[q]
    BY <1>1, <1>2
  <2>3. wire' \in [Players -> Seq(Letters)]
    BY <1>1, <1>2, <2>2
  <2>4. Judge(g)
    BY <1>2
  <2>5. /\ UNCHANGED <<fd, link, typed>> /\ game_state = "I"
        /\ game_state' # "L" => part_word' = part_word \cup ({g} \cap Word)
        /\ lives' = IF g \in Word THEN lives ELSE lives - 1
    BY <1>1, <2>4 DEF Judge, Found, Left, Inv, GameOK
  <2> HIDE DEF g
  <2>6. TypeOK' /\ GameOK' /\ NobodyDropped' /\ Connected'
    BY <1>1, <2>1, <2>3, <2>4, JudgeFacts
  <2>7. /\ WireOK(fd) /\ Taken(fd) \in Nat /\ Taken(fd) + 1 \in 1 .. Len(typed[fd])
        /\ typed[fd][Taken(fd) + 1] = g
    BY <1>1, <2>1 DEF Inv, WireOK, Taken
  <2>8. Len(wire[fd]) \in Nat /\ Len(typed[fd]) \in Nat /\ k \in Nat \ {0} /\ k <= Len(wire[fd])
    BY <1>1
  <2>9. Len(typed'[fd]) - Len(wire'[fd]) = Taken(fd) + k
    BY <2>2, <2>5, <2>8 DEF Taken
  <2>10. ASSUME NEW q \in Players PROVE WireOK(q)'
    <3>1. CASE q # fd
      BY <2>2, <2>5, <3>1, WireKept DEF Inv
    <3>2. CASE q = fd
      <4>1. Len(wire'[q]) <= Len(typed'[q])
        BY <2>2, <2>5, <2>7, <2>8, <3>2 DEF WireOK
      <4>2. ASSUME NEW j \in 1 .. Len(wire'[q]) PROVE wire'[q][j] = typed'[q][Taken(q)' + j]
        <5>1. j + k \in 1 .. Len(wire[q]) /\ wire'[q][j] = wire[q][j + k]
          BY <2>2, <3>2
        <5>2. wire[q][j + k] = typed[q][Taken(q) + (j + k)]
          BY <2>7, <3>2, <5>1 DEF WireOK
        <5>3. Taken(q)' = Taken(q) + k
          BY <2>9, <3>2 DEF Taken
        <5>4. Taken(q) + (j + k) = Taken(q)' + j
          BY <2>7, <2>8, <3>2, <5>3
        <5> QED BY <2>5, <5>1, <5>2, <5>4
      <4> QED BY <4>1, <4>2 DEF WireOK
    <3> QED BY <3>1, <3>2
  <2>11. ASSUME link'[fd'] = "up" PROVE JudgedBy(fd)'
    <3>1. JudgedBy(fd) /\ lives \in Int /\ maxlives \in Int
      BY <1>1, <2>5, <2>11, GuessGameAssumption DEF Inv, TypeOK, Playing
    <3> DEFINE n == Taken(fd)
               f == typed[fd]
    <3>2. fd' = fd /\ Taken(fd)' = n + k
      BY <2>5, <2>9 DEF Taken
    <3>3. /\ Bad(fd) = {j \in 1 .. n : f[j] \notin Word}
          /\ Bad(fd)' = {j \in 1 .. n + k : f[j] \notin Word}
      BY <2>5, <3>2 DEF Bad
    <3>4. n \in Nat /\ n + k \in Nat /\ n < n + k /\ f[n + 1] = g
      BY <2>7, <2>8
    <3>5. \A c \in part_word : \E j \in 1 .. n : f[j] = c
      BY <2>5, <3>1 DEF JudgedBy
    <3>6. game_state' # "L" => \A c \in part_word' : \E j \in 1 .. Taken(fd)' : typed'[fd'][j] = c
      <4>1. ASSUME game_state' # "L", NEW c \in part_word' PROVE \E j \in 1 .. n + k : f[j] = c
        <5>1. CASE c \in part_word
          BY <2>8, <3>4, <3>5, <5>1
        <5>2. CASE c = g
          <6>1. n + 1 \in 1 .. n + k
            BY <2>8, <3>4
          <6> QED BY <3>4, <5>2, <6>1
        <5> QED BY <2>5, <4>1, <5>1, <5>2
      <4> QED BY <2>5, <3>2, <4>1
    <3> HIDE DEF n, f
    <3>7. /\ Cardinality(Bad(fd)) \in Nat /\ Cardinality(Bad(fd)') \in Nat
          /\ Cardinality(Bad(fd)) <= Cardinality(Bad(fd)')
          /\ g \notin Word => Cardinality(Bad(fd)) + 1 <= Cardinality(Bad(fd)')
      BY <3>3, <3>4, BadGrows
    <3>8. maxlives - lives <= Cardinality(Bad(fd))
      BY <3>1 DEF JudgedBy
    <3>9. maxlives - lives' <= Cardinality(Bad(fd)')
      BY <2>5, <3>1, <3>7, <3>8
    <3> QED BY <3>6, <3>9 DEF JudgedBy
  <2> QED BY <2>6, <2>10, <2>11 DEF Inv
<1>3. ASSUME link[fd] \in {"closed", "broken"}, NEW g \in Letters, Judge(g), wire' = wire
      PROVE  Inv'
  <2>1. TypeOK' /\ GameOK' /\ NobodyDropped' /\ Connected'
    BY <1>1, <1>3, JudgeFacts
  <2>2. UNCHANGED <<fd, link, typed>>
    BY <1>3 DEF Judge
  <2>3. \A q \in Players : WireOK(q)'
    BY <1>3, <2>2, WireKept DEF Inv
  <2>4. link'[fd'] # "up"
    BY <1>3, <2>2
  <2> QED BY <2>1, <2>3, <2>4 DEF Inv
<1>4. ASSUME link[fd] = "reset", server' = "dead",
             UNCHANGED <<fd, backlog, game, link, wire, typed>>
      PROVE  Inv'
  <2>1. UNCHANGED <<part_word, lives, guess, ended_word, game_state>>
    BY <1>4 DEF game
  <2>2. GameOK'
    BY <1>4, <2>1 DEF Inv, GameOK
  <2>3. NobodyDropped'
    BY <1>4, <2>1 DEF NobodyDropped
  <2> QED BY <1>1, <1>4, <2>1, <2>2, <2>3, ServerKeeps DEF Playing
<1> QED BY <1>2, <1>3, <1>4 DEF Read

\* The game is over: nobody plays.
LEMMA CloseKeeps == ASSUME Inv, Close PROVE Inv'
<1>1. /\ server = "close" /\ server' = "accept" /\ fd' = NoOne /\ fd \in Players
      /\ link' = [link EXCEPT ![fd] = "over"]
      /\ UNCHANGED <<backlog, part_word, lives, guess, ended_word, game_state, wire, typed>>
  BY DEF Close, game, Inv, TypeOK
<1>2. TypeOK' /\ GameOK' /\ NobodyDropped'
  BY <1>1 DEF Inv, TypeOK, GameOK, NobodyDropped
<1>3. server' \notin Playing
  BY <1>1 DEF Playing
<1> QED BY <1>1, <1>2, <1>3, LinkKeeps

-----------------------------------------------------------------------------
(***************************************************************************)
(* The theorems.                                                           *)
(***************************************************************************)

\* Nothing happens in a step that changes nothing.
LEMMA StutterKeeps == ASSUME Inv, UNCHANGED vars PROVE Inv'
<1>1. UNCHANGED <<server, fd, backlog, part_word, lives, guess, game_state, ended_word, link, wire, typed>>
  BY DEF vars, game
<1>2. TypeOK' /\ GameOK' /\ NobodyDropped' /\ Connected'
  BY <1>1 DEF Inv, TypeOK, GameOK, NobodyDropped, Connected
<1>3. (\A p \in Players : WireOK(p)') /\ (server' \in Playing /\ link'[fd'] = "up" => JudgedBy(fd)')
  BY <1>1 DEF Inv, WireOK, JudgedBy, Bad, Taken
<1> QED BY <1>2, <1>3 DEF Inv

\* In every state a behaviour reaches, the invariant holds.
THEOREM GameInvariant == Spec => []Inv
<1>1. Init => Inv
  BY InvInit, GuessGameAssumption
<1>2. Inv /\ [Next]_vars => Inv'
  <2> SUFFICES ASSUME Inv, [Next]_vars PROVE Inv'
    OBVIOUS
  <2>1. CASE ServerStep
    BY <2>1, AcceptKeeps, WriteOutKeeps, ReadKeeps, CloseKeeps DEF ServerStep
  <2>2. CASE ResetArrives \/ AcceptFails
    BY <2>2, ResetKeeps, AcceptFailsKeeps
  <2>3. CASE \E p \in Players : Connect(p) \/ Type(p) \/ Leave(p)
    BY <2>3, ConnectKeeps, TypeKeeps, LeaveKeeps
  <2>4. CASE UNCHANGED vars
    BY <2>4, StutterKeeps
  <2> QED BY <2>1, <2>2, <2>3, <2>4 DEF Next
<1> QED BY <1>1, <1>2, PTL DEF Spec

\* The server's variables keep their types: lives never falls below 0, and whenever
\* server_game writes to or reads from a player it has one.
THEOREM GuessTypeCorrect == Spec => []TypeOK
<1>1. Inv => TypeOK
  BY DEF Inv
<1> QED BY <1>1, GameInvariant, PTL

\* guess_word judges a player who stays by what it has typed itself: no letter is shown
\* that it has not typed before it has lost, no life is lost but for a bad guess of its
\* own, and a game is won only with the whole word and a life left, however the
\* characters arrive and whoever played before.  The byte behind the word alone keeps a
\* game with all letters from its end.
THEOREM PlayersJudgedFairly == Spec => []JudgedFairly
<1>1. Inv => JudgedFairly
  <2> SUFFICES ASSUME Inv, fd # NoOne, link[fd] = "up", server \in {"read", "reply", "close"}
               PROVE  /\ game_state # "L" => part_word \subseteq Guesses(fd)
                      /\ maxlives - lives <= Cardinality({k \in 1 .. Len(typed[fd]) : typed[fd][k] \notin Word})
                      /\ game_state = "W" => lives > 0 /\ Word \subseteq Guesses(fd)
                      /\ game_state = "I" /\ part_word = Word => ~ended_word
    BY DEF JudgedFairly
  <2>1. fd \in Players /\ JudgedBy(fd) /\ WireOK(fd) /\ maxlives \in Int /\ lives \in Int
    BY GuessGameAssumption DEF Inv, TypeOK, Playing
  <2> DEFINE n == Taken(fd)
             m == Len(typed[fd])
             f == typed[fd]
  <2>2. n \in Nat /\ m \in Nat /\ n <= m
    BY <2>1 DEF Inv, TypeOK, WireOK, Taken
  <2>3. game_state # "L" => part_word \subseteq Guesses(fd)
    BY <2>1, <2>2 DEF JudgedBy, Guesses
  <2>4. Bad(fd) = {k \in 1 .. n : f[k] \notin Word}
    BY DEF Bad
  <2> HIDE DEF n, f, m
  <2>5. /\ Cardinality(Bad(fd)) \in Nat /\ Cardinality({k \in 1 .. m : f[k] \notin Word}) \in Nat
        /\ Cardinality(Bad(fd)) <= Cardinality({k \in 1 .. m : f[k] \notin Word})
    BY <2>2, <2>4, BadGrows
  <2>6. maxlives - lives <= Cardinality({k \in 1 .. m : f[k] \notin Word})
    BY <2>1, <2>5 DEF JudgedBy
  <2>7. /\ game_state = "W" => part_word = Word /\ lives > 0
        /\ game_state = "I" /\ part_word = Word => ~ended_word
    BY DEF Inv, GameOK
  <2>8. game_state = "W" => lives > 0 /\ Word \subseteq Guesses(fd)
    BY <2>3, <2>7
  <2> QED BY <2>3, <2>6, <2>7, <2>8 DEF m, f
<1> QED BY <1>1, GameInvariant, PTL

\* The end of server_game takes no game from a player whose connection is not reset, but
\* before the first guess, in the first write, or when the player has lost and the word
\* has no end: a guess, or a failing accept, never does.
THEOREM NobodyIsDropped == Spec => []NobodyDropped
<1>1. Inv => NobodyDropped
  BY DEF Inv
<1> QED BY <1>1, GameInvariant, PTL
=============================================================================
