--------------------------- MODULE MCEchoService ---------------------------
(* Two clients, one with two lines and one with one line, of one or two    *)
(* bytes each, and any of the servers.                                     *)
EXTENDS EchoService, TLC

CONSTANTS c1, c2

MCClients == {c1, c2}
MCMaxLines == c1 :> 2 @@ c2 :> 1
=============================================================================
