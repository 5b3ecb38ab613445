------------------------------ MODULE MCScreen ------------------------------
(* TLC instance of Screen: two consoles of two lines. *)
EXTENDS Screen

CONSTANTS c0, c1

\* Lines that end and that are too long, a colour, and corrections, also at the
\* first position.
Samples == {<<"y", "nl", "x", "x">>, <<"bs", "esc", "y", "x", "cr">>}
=============================================================================
