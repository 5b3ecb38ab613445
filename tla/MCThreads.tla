----------------------------- MODULE MCThreads -----------------------------
(* TLC instances of Threads. *)
EXTENDS Threads

CONSTANTS a, b, c, ev

StartOne == <<a>>
StartTwo == <<a, b>>
StartThree == <<a, b, c>>
=============================================================================
