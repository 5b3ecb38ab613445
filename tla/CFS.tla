--------------------------------- MODULE CFS ---------------------------------
(***************************************************************************)
(* The completely fair scheduling algorithm (kernel/sched-cfs.cpp) with the *)
(* process accounting (kernel/sched.cpp) and the clock (kernel/kernel.cpp,  *)
(* util/time.h) it rests on.  Time is counted in timer ticks: the handler   *)
(* of the timer interrupt is the only code that advances the runtime.       *)
(*                                                                          *)
(* A change of an entity's state is one step here; Threads takes it apart.  *)
(***************************************************************************)
EXTENDS Integers, Sequences, SequencesExt, FiniteSetsExt

CONSTANTS
  Thread,    \* the entities that can be queued
  Idle,      \* Scheduler::_idle_entity
  NoEntity,  \* a null Scheduler::_current
  MaxTicks   \* bound on the runtime

ASSUME ConstantsAssumption ==
  /\ Idle \notin Thread
  /\ NoEntity \notin Thread \cup {Idle}
  /\ MaxTicks \in Nat

Entity == Thread \cup {Idle}

VARIABLES
  runqueue,    \* CompletelyFairScheduler::runqueue
  current,     \* Scheduler::_current
  runtime,     \* Kernel::_runtime
  cpuRuntime,  \* SchedulingEntity::_cpu_runtime
  execStart,   \* SchedulingEntity::_exec_start_time
  picked       \* history: who has been picked while an entity was queued

vars == <<runqueue, current, runtime, cpuRuntime, execStart, picked>>

-----------------------------------------------------------------------------
(* Durations and time points.                                               *)

\* Mutant of DurationMinus: the operands the usual way round.
DurationMinusStraight(l, r) == l - r

\* operator- of Duration subtracts its left operand from its right one, ...
DurationMinus(l, r) == r - l

\* ... and that of TimepointImpl swaps the operands before it calls it.
TimepointMinus(lhs, rhs) == DurationMinus(rhs, lhs)

-----------------------------------------------------------------------------
(* The algorithm.                                                           *)

\* Mutant of Least: the comparison the other way round.
Most(i, rt) ==
  \A j \in 1..Len(runqueue) :
    IF j < i THEN rt[runqueue[i]] > rt[runqueue[j]]
             ELSE rt[runqueue[i]] >= rt[runqueue[j]]

\* The first of the queued entities with the least runtime is at position i.
Least(i, rt) ==
  \A j \in 1..Len(runqueue) :
    IF j < i THEN rt[runqueue[i]] < rt[runqueue[j]]
             ELSE rt[runqueue[i]] <= rt[runqueue[j]]

\* Mutant of PickNextEntity: a queue of one counts as empty.
PickFromTwo(rt) ==
  IF Len(runqueue) < 2 THEN Idle
  ELSE runqueue[CHOOSE i \in 1..Len(runqueue) : Least(i, rt)]

\* pick_next_entity; schedule() turns a null result into the idle entity.
PickNextEntity(rt) ==
  IF runqueue = <<>> THEN Idle
  ELSE runqueue[CHOOSE i \in 1..Len(runqueue) : Least(i, rt)]

\* The loop of pick_next_entity as it is written.
Scan(rt) ==
  FoldLeft(LAMBDA min, e : IF min = NoEntity \/ rt[e] < rt[min] THEN e ELSE min,
           NoEntity, runqueue)

\* Mutant of Schedule: the start time of the entity about to run is not set.
ScheduleKeepsStart(now, rt, es) ==
  /\ current' = PickNextEntity(rt)
  /\ execStart' = es
  /\ picked' = [t \in Thread |->
                  IF Contains(runqueue, t) THEN picked[t] \cup {current'} ELSE picked[t]]

\* Scheduler::schedule at time now, with runtimes rt and start times es.
Schedule(now, rt, es) ==
  /\ current' = PickNextEntity(rt)
  /\ execStart' = [es EXCEPT ![current'] = now]
  /\ picked' = [t \in Thread |->
                  IF Contains(runqueue, t) THEN picked[t] \cup {current'} ELSE picked[t]]

-----------------------------------------------------------------------------
(* set_entity_state.                                                        *)

\* to RUNNABLE: add_to_runqueue.
MakeRunnable(t) ==
  /\ ~Contains(runqueue, t)
  /\ runqueue' = Append(runqueue, t)
  /\ picked' = [picked EXCEPT ![t] = {}]
  /\ UNCHANGED <<current, runtime, cpuRuntime, execStart>>

\* to SLEEPING or STOPPED: remove_from_runqueue.
MakeUnrunnable(t) ==
  /\ Contains(runqueue, t)
  /\ runqueue' = RemoveFirst(runqueue, t)
  /\ picked' = [picked EXCEPT ![t] = {}]
  /\ UNCHANGED <<current, runtime, cpuRuntime, execStart>>

-----------------------------------------------------------------------------
(* Scheduling events.                                                       *)

\* kernel_syscall_handler: schedule() without accounting.
Yield ==
  /\ current # NoEntity
  /\ Schedule(runtime, cpuRuntime, execStart)
  /\ UNCHANGED <<runqueue, runtime, cpuRuntime>>

\* Scheduler::update_accounting: the new runtimes and start times.
UpdateAccounting(now) ==
  IF current = NoEntity THEN <<cpuRuntime, execStart>>
  ELSE <<[cpuRuntime EXCEPT ![current] = @ + TimepointMinus(now, execStart[current])],
         [execStart EXCEPT ![current] = now]>>

\* lapic_timer_irq_handler: update_runtime, update_accounting, schedule.
Tick ==
  /\ runtime < MaxTicks
  /\ runtime' = runtime + 1
  /\ cpuRuntime' = UpdateAccounting(runtime')[1]
  /\ Schedule(runtime', cpuRuntime', UpdateAccounting(runtime')[2])
  /\ UNCHANGED runqueue

Init ==
  /\ runqueue = <<>>
  /\ current = NoEntity
  /\ runtime = 0
  /\ cpuRuntime = [e \in Entity |-> 0]
  /\ execStart = [e \in Entity |-> 0]
  /\ picked = [t \in Thread |-> {}]

Next == Tick \/ Yield \/ \E t \in Thread : MakeRunnable(t) \/ MakeUnrunnable(t)

Spec == Init /\ [][Next]_vars

-----------------------------------------------------------------------------
(* Properties.                                                              *)

\* Types; the run queue holds no entity twice.
TypeOK ==
  /\ runqueue \in Seq(Thread)
  /\ \A i, j \in 1..Len(runqueue) : runqueue[i] = runqueue[j] => i = j
  /\ current \in Entity \cup {NoEntity}
  /\ runtime \in Nat
  /\ cpuRuntime \in [Entity -> Nat]
  /\ execStart \in [Entity -> Nat]
  /\ picked \in [Thread -> SUBSET Entity]

\* Every tick since the first scheduling event has been charged once: the
\* entities' runtimes add up to the time since then, whatever entities are
\* switched, woken and stopped in between (update_accounting, schedule).
ChargedOnce ==
  current # NoEntity =>
    FoldSet(LAMBDA e, n : cpuRuntime[e] + n, 0, Entity) = runtime - 1

\* Only a tick changes a runtime: it charges the entity that was running,
\* and no other, with exactly the time by which the clock advances.
ChargesTheRunning ==
  [][cpuRuntime' =
       IF runtime' # runtime /\ current # NoEntity
         THEN [cpuRuntime EXCEPT ![current] = @ + (runtime' - runtime)]
         ELSE cpuRuntime]_vars

\* What the fairness of pick_next_entity amounts to: while an entity is
\* queued, nobody is picked in its place who then gets more than one tick
\* ahead of it, and the idle entity is not picked at all.
NoOvertaking ==
  \A t \in Thread : Contains(runqueue, t) =>
    \A u \in picked[t] : u \in Thread /\ cpuRuntime[u] <= cpuRuntime[t] + 1

\* The loop of pick_next_entity finds the first entity with the least runtime.
ScanFindsLeast == runqueue # <<>> => Scan(cpuRuntime) = PickNextEntity(cpuRuntime)

\* Scheduling under CFS is work conserving: it implements WorkConserving.
Work == INSTANCE WorkConserving WITH ready <- ToSet(runqueue), running <- current

ImplementsWorkConserving == Work!Spec
=============================================================================
