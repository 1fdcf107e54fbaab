---------------------------- MODULE MCGuessGame ----------------------------
\* Instance of GuessGame: two players, a word of two letters and one other letter.
EXTENDS GuessGame
=============================================================================
