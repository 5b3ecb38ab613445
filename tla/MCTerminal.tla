----------------------------- MODULE MCTerminal -----------------------------
(* TLC instance of Terminal: one thread reads the first terminal, what is     *)
(* typed on the second console is left unread.                               *)
EXTENDS Terminal, TLC

CONSTANT r1

OneReader == r1 :> 0
=============================================================================
