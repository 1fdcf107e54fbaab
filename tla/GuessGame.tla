------------------------------ MODULE GuessGame ------------------------------
(***************************************************************************)
(* the_sockets_telnet/server_game: one player after the other guesses the  *)
(* letters of a word, over TCP.                                            *)
(*                                                                         *)
(* The server looks at read only for errors: when the player has closed    *)
(* its side read returns 0, and the last guess counts once more.  Nobody   *)
(* writes the byte behind the word, so whether strcmp finds it equal to    *)
(* the letters guessed is settled by what lies on the stack.  A copy that  *)
(* runs out of an array ends the server or overwrites nothing of use.      *)
(*                                                                         *)
(* What a player types is a stream of characters, the ends of its lines    *)
(* among them.  A read returns any part of what has come, and its first    *)
(* character is the guess: a line that comes in pieces is several guesses. *)
(*                                                                         *)
(* A player is gone when it has closed the connection.  The kernel answers *)
(* what is written after that with a reset, or it sends one at once if the *)
(* player had not read everything.                                         *)
(***************************************************************************)
EXTENDS Integers, Sequences, FiniteSets

CONSTANTS
    Players, NoOne,
    Letters, Word,   \* the characters that can be typed, and those of the word
    NoLetter,
    maxlives,        \* 12
    MaxTyped         \* bound: characters of a player

ASSUME GuessGameAssumption ==
    /\ NoOne \notin Players /\ NoLetter \notin Letters
    /\ Word \subseteq Letters /\ Word # {}
    /\ maxlives \in Nat \ {0} /\ MaxTyped \in Nat

VARIABLES
    server,     \* "accept", "hello" and "board" (the two writes before the game),
                \* "read", "reply", "close", or "dead"
    fd,         \* the player whose connection was accepted
    backlog,    \* players that wait for accept
    part_word,  \* the letters shown
    lives, guess, game_state,
    ended_word, \* the byte behind the word happens to be 0
    link,       \* a player's connection: "none", "up", "closed" by the player, "reset"
                \* instead, "broken" (the kernel knows), or "over" (closed by the server)
    wire,       \* characters on their way
    typed       \* all characters that a player has typed

game == <<part_word, lives, guess, game_state, ended_word>>
vars == <<server, fd, backlog, game, link, wire, typed>>

Init ==
    /\ server = "accept" /\ fd = NoOne /\ backlog = << >>
    /\ part_word = {} /\ lives = maxlives /\ guess = NoLetter /\ game_state = "I"
    /\ ended_word = TRUE
    /\ link = [p \in Players |-> "none"]
    /\ wire = [p \in Players |-> << >>] /\ typed = [p \in Players |-> << >>]

-----------------------------------------------------------------------------
(***************************************************************************)
(* The players and the network.                                            *)
(***************************************************************************)

Connect(p) ==
    /\ link[p] = "none" /\ server # "dead"
    /\ link' = [link EXCEPT ![p] = "up"]
    /\ backlog' = Append(backlog, p)
    /\ UNCHANGED <<server, fd, game, wire, typed>>

\* One more character of a line, or its end.
Type(p) ==
    /\ link[p] = "up" /\ Len(typed[p]) < MaxTyped
    /\ \E c \in Letters :
         /\ wire' = [wire EXCEPT ![p] = Append(@, c)]
         /\ typed' = [typed EXCEPT ![p] = Append(@, c)]
    /\ UNCHANGED <<server, fd, backlog, game, link>>

\* The player ends, or its connection is lost, which to the server is like a reset.
Leave(p) ==
    /\ link[p] = "up"
    /\ \E how \in {"closed", "reset"} : link' = [link EXCEPT ![p] = how]
    /\ UNCHANGED <<server, fd, backlog, game, wire, typed>>

\* The reset that answers a write to a player that is gone; it takes its time.
ResetArrives ==
    /\ fd # NoOne /\ link[fd] = "closed" /\ server \in {"board", "read", "reply"}
    /\ link' = [link EXCEPT ![fd] = "broken"]
    /\ UNCHANGED <<server, fd, backlog, game, wire, typed>>

-----------------------------------------------------------------------------
(***************************************************************************)
(* The server.                                                             *)
(***************************************************************************)

\* Slip: the lives are those of the last player.
AcceptKeepsLives ==
    /\ server = "accept" /\ backlog # << >>
    /\ fd' = Head(backlog) /\ backlog' = Tail(backlog)
    /\ part_word' = {} /\ guess' = NoLetter /\ game_state' = "I"
    /\ ended_word' \in BOOLEAN
    /\ server' = "hello"
    /\ UNCHANGED <<lives, link, wire, typed>>

\* accept, and the local variables of guess_word.
Accept ==
    /\ server = "accept" /\ backlog # << >>
    /\ fd' = Head(backlog) /\ backlog' = Tail(backlog)
    /\ part_word' = {} /\ lives' = maxlives /\ guess' = NoLetter /\ game_state' = "I"
    /\ ended_word' \in BOOLEAN
    /\ server' = "hello"
    /\ UNCHANGED <<link, wire, typed>>

\* An error of accept ends the program between two games.
AcceptFails ==
    /\ server = "accept" /\ server' = "dead"
    /\ UNCHANGED <<fd, backlog, game, link, wire, typed>>

\* The three writes, none of which is checked.  Before the first one a host name that
\* nobody has set is put into outbuf, and may run out of it: a crash.  The first write
\* after a reset fails, any later one, or one after the player's end and a reset, is a
\* SIGPIPE.
WriteOut ==
    /\ server \in {"hello", "board", "reply"}
    /\ \/ /\ link[fd] # "broken"
          /\ link' = [link EXCEPT ![fd] = IF @ = "reset" THEN "broken" ELSE @]
          /\ server' = CASE server = "hello" -> "board" [] server = "board" -> "read"
                         [] server = "reply" -> IF game_state = "I" THEN "read" ELSE "close"
       \/ /\ link[fd] = "broken" \/ server = "hello"
          /\ server' = "dead" /\ UNCHANGED link
    /\ UNCHANGED <<fd, backlog, game, wire, typed>>

\* After a guess g: the letters found, the lives left, and what strcmp and the lives say.
Found(g) == part_word \cup ({g} \cap Word)
Left(g)  == IF g \in Word THEN lives ELSE lives - 1
State(g) == IF Found(g) = Word /\ ended_word THEN "W" ELSE IF Left(g) = 0 THEN "L" ELSE "I"

\* Slip: the server ends with a lost game.
JudgeExits(g) ==
    /\ guess' = g /\ lives' = Left(g) /\ game_state' = State(g)
    /\ part_word' = IF State(g) = "L" THEN Word ELSE Found(g)
    /\ server' = IF State(g) = "L" THEN "dead" ELSE "reply"
    /\ UNCHANGED <<fd, backlog, ended_word, link, typed>>

\* Slip: the game is lost one life too late.
JudgeLate(g) ==
    /\ guess' = g /\ lives' = Left(g)
    /\ game_state' = IF Found(g) = Word /\ ended_word THEN "W" ELSE IF Left(g) < 0 THEN "L" ELSE "I"
    /\ part_word' = IF Left(g) < 0 THEN Word ELSE Found(g)
    /\ server' = "reply"
    /\ UNCHANGED <<fd, backlog, ended_word, link, typed>>

\* The guess g is judged, and a loser is shown the word.  When the word has no end, the
\* strcpy that does so may run out of its array: a crash.
Judge(g) ==
    /\ guess' = g /\ lives' = Left(g) /\ game_state' = State(g)
    /\ part_word' = IF State(g) = "L" THEN Word ELSE Found(g)
    /\ server' \in {"reply"} \cup IF State(g) = "L" /\ ~ended_word THEN {"dead"} ELSE {}
    /\ UNCHANGED <<fd, backlog, ended_word, link, typed>>

\* Slip: a guess of 0 characters is skipped.
ReadSkipsEnd ==
    /\ server = "read"
    /\ \/ /\ wire[fd] # << >>
          /\ \E k \in 1 .. Len(wire[fd]) :
               wire' = [wire EXCEPT ![fd] = SubSeq(@, k + 1, Len(@))]
          /\ Judge(Head(wire[fd]))
       \/ /\ wire[fd] = << >> /\ link[fd] = "reset"
          /\ server' = "dead"
          /\ UNCHANGED <<fd, backlog, game, link, wire, typed>>

\* read takes one or more characters, and the first of them is the guess.  Of a player that is
\* gone it gives nothing, and guess is what it was, at first anything; or it fails
\* with ECONNRESET, and the server exits.
Read ==
    /\ server = "read"
    /\ \/ /\ wire[fd] # << >>
          /\ \E k \in 1 .. Len(wire[fd]) :
               wire' = [wire EXCEPT ![fd] = SubSeq(@, k + 1, Len(@))]
          /\ Judge(Head(wire[fd]))
       \/ /\ wire[fd] = << >> /\ link[fd] \in {"closed", "broken"}
          /\ \E g \in Letters : (guess # NoLetter => g = guess) /\ Judge(g)
          /\ UNCHANGED wire
       \/ /\ wire[fd] = << >> /\ link[fd] = "reset"
          /\ server' = "dead"
          /\ UNCHANGED <<fd, backlog, game, link, wire, typed>>

Close ==
    /\ server = "close"
    /\ server' = "accept" /\ fd' = NoOne
    /\ link' = [link EXCEPT ![fd] = "over"]
    /\ UNCHANGED <<backlog, game, wire, typed>>

-----------------------------------------------------------------------------
ServerStep == Accept \/ WriteOut \/ Read \/ Close

Next ==
    \/ ServerStep \/ AcceptFails \/ ResetArrives
    \/ \E p \in Players : Connect(p) \/ Type(p) \/ Leave(p)

Spec == Init /\ [][Next]_vars

\* The server runs when it can, accept need not fail, and what has been written to a player
\* that is gone is answered at some time, however fast the server goes round.
FairSpec == Spec /\ WF_vars(ServerStep) /\ SF_vars(ResetArrives)

-----------------------------------------------------------------------------
(***************************************************************************)
(* Properties.                                                             *)
(***************************************************************************)

TypeOK ==
    /\ server \in {"accept", "hello", "board", "read", "reply", "close", "dead"}
    /\ fd \in Players \cup {NoOne} /\ (server \in {"hello", "board", "read", "reply", "close"} => fd # NoOne)
    /\ backlog \in Seq(Players)
    /\ part_word \subseteq Word /\ lives \in 0 .. maxlives
    /\ guess \in Letters \cup {NoLetter} /\ game_state \in {"I", "W", "L"}
    /\ ended_word \in BOOLEAN
    /\ link \in [Players -> {"none", "up", "closed", "reset", "broken", "over"}]
    /\ wire \in [Players -> Seq(Letters)] /\ typed \in [Players -> Seq(Letters)]

Guesses(p) == {typed[p][k] : k \in 1 .. Len(typed[p])}

\* As long as a player is there, it is shown only letters that it has typed itself, until
\* it has lost and is shown the word; it loses no more lives than it has typed characters
\* that are not in the word.  It wins with the whole word, typed by itself, and a life
\* left.  Whoever has all letters and no end of the game suffers from the byte behind the
\* word.
JudgedFairly ==
    fd # NoOne /\ link[fd] = "up" /\ server \in {"read", "reply", "close"} =>
        /\ game_state # "L" => part_word \subseteq Guesses(fd)
        /\ maxlives - lives <= Cardinality({k \in 1 .. Len(typed[fd]) : typed[fd][k] \notin Word})
        /\ game_state = "W" => lives > 0 /\ Word \subseteq Guesses(fd)
        /\ game_state = "I" /\ part_word = Word => ~ended_word

\* The end of the server takes no game from a player whose connection is not reset, but
\* in two places: before the first guess, where the host name runs out of outbuf, and
\* when the game is lost and the word has no end.  Between games nobody is served.
NobodyDropped ==
    server = "dead" /\ fd # NoOne /\ link[fd] \notin {"reset", "broken"} =>
        guess = NoLetter \/ (~ended_word /\ game_state = "L")

\* Everyone who waits gets to play, unless the server has come to its end or the one who
\* plays takes its time.  A player that has left is not waited for: the game is over
\* when its lives are, or the server is.
QueueMoves ==
    \A p \in Players :
        link[p] = "up" /\ server # "dead" ~>
            \/ fd = p \/ link[p] # "up" \/ server = "dead"
            \/ server = "read" /\ link[fd] = "up" /\ wire[fd] = << >>
=============================================================================
