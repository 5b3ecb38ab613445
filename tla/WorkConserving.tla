--------------------------- MODULE WorkConserving ---------------------------
(***************************************************************************)
(* What Scheduler::schedule promises whatever the scheduling algorithm: the *)
(* processor goes to an entity that is ready, and to the idle entity only   *)
(* when none is.  Between two scheduling events the running entity may      *)
(* cease to be ready, and keeps the processor until the next one.           *)
(***************************************************************************)
CONSTANTS Thread, Idle, NoEntity

VARIABLES
  ready,    \* the entities in the run queue
  running   \* Scheduler::_current

vars == <<ready, running>>

Init ==
  /\ ready = {}
  /\ running = NoEntity

BecomeReady(t) ==
  /\ t \notin ready
  /\ ready' = ready \cup {t}
  /\ UNCHANGED running

CeaseReady(t) ==
  /\ t \in ready
  /\ ready' = ready \ {t}
  /\ UNCHANGED running

Dispatch ==
  /\ running' \in IF ready = {} THEN {Idle} ELSE ready
  /\ UNCHANGED ready

Next == Dispatch \/ \E t \in Thread : BecomeReady(t) \/ CeaseReady(t)

Spec == Init /\ [][Next]_vars
=============================================================================
