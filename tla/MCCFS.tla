------------------------------- MODULE MCCFS -------------------------------
(* TLC instance of CFS. *)
EXTENDS CFS

CONSTANTS t1, t2, t3
=============================================================================
