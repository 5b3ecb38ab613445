----------------------------- MODULE CFSProofs -----------------------------
(***************************************************************************)
(* Proofs about CFS, for any set of threads: accounting is exact, no queued *)
(* entity is overtaken by more than a tick, and the algorithm is work       *)
(* conserving.                                                              *)
(*                                                                          *)
(* The inductive invariant adds two facts to the properties: the running    *)
(* entity's start time is the present (Fresh), so that the next tick        *)
(* charges exactly one tick; and an entity that runs because it was         *)
(* preferred to a queued one is not ahead of it (Behind), so that the tick  *)
(* takes it at most one ahead.                                              *)
(***************************************************************************)
EXTENDS CFS, ListLemmas

Fresh == current # NoEntity => execStart[current] = runtime

Behind ==
  \A t \in Thread : Contains(runqueue, t) /\ current \in picked[t]
                      => cpuRuntime[current] <= cpuRuntime[t]

IInv == TypeOK /\ Fresh /\ NoOvertaking /\ Behind

\* pick_next_entity returns a queued entity with the least runtime, and null,
\* which schedule() turns into the idle entity, only if there is none.
LEMMA PickLeast ==
  ASSUME TypeOK, NEW rt \in [Entity -> Nat]
  PROVE  /\ runqueue = <<>> => PickNextEntity(rt) = Idle
         /\ runqueue # <<>> =>
              /\ PickNextEntity(rt) \in ToSet(runqueue)
              /\ \A t \in ToSet(runqueue) : rt[PickNextEntity(rt)] <= rt[t]
<1>1. CASE runqueue = <<>>
  BY <1>1 DEF PickNextEntity
<1>2. CASE runqueue # <<>>
  <2> DEFINE n == Len(runqueue)
             R == {rt[runqueue[i]] : i \in 1..n}
  <2>1. /\ n \in Nat /\ 1 \in 1..n /\ DOMAIN runqueue = 1..n
        /\ \A i \in 1..n : runqueue[i] \in Thread /\ rt[runqueue[i]] \in Nat
    BY <1>2, LenProperties, EmptySeq, ElementOfSeq DEF TypeOK, Entity
  <2>2. R \subseteq Nat /\ R # {}
    BY <2>1
  <2>3. PICK m \in R : \A y \in R : m <= y
    BY <2>2, LeastElement
  <2> DEFINE J == {i \in 1..n : rt[runqueue[i]] = m}
  <2>4. J \subseteq Nat /\ J # {}
    BY <2>1, <2>3
  <2>5. PICK k \in J : \A y \in J : k <= y
    BY <2>4, LeastElement
  <2>6. k \in 1..n /\ m \in Nat /\ rt[runqueue[k]] = m
    BY <2>2, <2>3, <2>5
  <2>7. \A j \in 1..n : m <= rt[runqueue[j]] /\ (j < k => m # rt[runqueue[j]])
    BY <2>1, <2>3, <2>5, <2>6
  <2>8. Least(k, rt)
    BY <2>1, <2>6, <2>7 DEF Least
  <2> DEFINE c == CHOOSE i \in 1..n : Least(i, rt)
  <2>9. c \in 1..n /\ Least(c, rt)
    BY <2>6, <2>8
  <2>10. PickNextEntity(rt) = runqueue[c]
    BY <1>2 DEF PickNextEntity
  <2> HIDE DEF c
  <2>11. \A j \in 1..n : rt[runqueue[c]] <= rt[runqueue[j]]
    BY <2>1, <2>9 DEF Least
  <2> QED
    BY <1>2, <2>1, <2>9, <2>10, <2>11 DEF ToSet
<1> QED
  BY <1>1, <1>2

\* A scheduling event: rt and es are the runtimes and start times after the
\* accounting, if there was any.
LEMMA ScheduleInv ==
  ASSUME TypeOK, NEW now \in Nat, NEW rt \in [Entity -> Nat], NEW es \in [Entity -> Nat],
         Schedule(now, rt, es), UNCHANGED runqueue, cpuRuntime' = rt, runtime' = now,
         \A t \in Thread : Contains(runqueue, t) =>
           \A u \in picked[t] : u \in Thread /\ rt[u] <= rt[t] + 1
  PROVE  IInv'
<1>1. current' = PickNextEntity(rt) /\ current' \in Entity
  <2>1. ToSet(runqueue) \subseteq Thread
    BY Elements DEF TypeOK
  <2> QED
    BY <2>1, PickLeast DEF Schedule, Entity
<1>2. execStart' \in [Entity -> Nat] /\ execStart'[current'] = now
  BY <1>1 DEF Schedule
<1>3. /\ picked' \in [Thread -> SUBSET Entity]
      /\ \A t \in Thread : picked'[t] = IF Contains(runqueue, t) THEN picked[t] \cup {current'}
                                                                ELSE picked[t]
  BY <1>1 DEF Schedule, TypeOK
<1>4. TypeOK'
  BY <1>1, <1>2, <1>3 DEF TypeOK
<1>5. ASSUME NEW t \in Thread, Contains(runqueue, t)
      PROVE  current' \in Thread /\ rt[current'] <= rt[t]
  <2>1. t \in ToSet(runqueue) /\ ToSet(runqueue) \subseteq Thread /\ runqueue # <<>>
    BY <1>5, Elements DEF TypeOK
  <2> QED
    BY <1>1, <2>1, PickLeast
<1>6. Fresh'
  BY <1>1, <1>2 DEF Fresh
<1>7. NoOvertaking'
  <2> SUFFICES ASSUME NEW t \in Thread, Contains(runqueue, t), NEW u \in picked'[t]
               PROVE  u \in Thread /\ rt[u] <= rt[t] + 1
    BY DEF NoOvertaking
  <2>1. CASE u \in picked[t]
    BY <2>1
  <2>2. CASE u = current'
    <3>1. rt[u] \in Nat /\ rt[t] \in Nat
      BY <1>1, <2>2 DEF Entity
    <3> QED
      BY <1>5, <2>2, <3>1
  <2> QED
    BY <1>3, <2>1, <2>2
<1>8. Behind'
  BY <1>5 DEF Behind
<1> QED
  BY <1>4, <1>6, <1>7, <1>8 DEF IInv

\* The accounting of a tick charges the running entity with one tick.
LEMMA Accounting ==
  ASSUME IInv, NEW now, now = runtime + 1
  PROVE  /\ UpdateAccounting(now)[1] =
              IF current = NoEntity THEN cpuRuntime ELSE [cpuRuntime EXCEPT ![current] = @ + 1]
         /\ UpdateAccounting(now)[1] \in [Entity -> Nat]
         /\ UpdateAccounting(now)[2] \in [Entity -> Nat]
<1>1. CASE current = NoEntity
  BY <1>1 DEF UpdateAccounting, IInv, TypeOK
<1>2. CASE current # NoEntity
  <2>1. current \in Entity /\ runtime \in Nat /\ execStart[current] = runtime
    BY <1>2 DEF IInv, TypeOK, Fresh
  <2>2. TimepointMinus(now, execStart[current]) = 1
    BY <2>1 DEF TimepointMinus, DurationMinus
  <2>3. /\ UpdateAccounting(now)[1] = [cpuRuntime EXCEPT ![current] = @ + 1]
        /\ UpdateAccounting(now)[2] = [execStart EXCEPT ![current] = now]
    BY <1>2, <2>2 DEF UpdateAccounting
  <2>4. cpuRuntime \in [Entity -> Nat] /\ execStart \in [Entity -> Nat]
    BY DEF IInv, TypeOK
  <2> DEFINE rt == [cpuRuntime EXCEPT ![current] = @ + 1]
             es == [execStart EXCEPT ![current] = now]
  <2>5. cpuRuntime[current] + 1 \in Nat /\ now \in Nat
    BY <2>1, <2>4
  <2>6. rt \in [Entity -> Nat] /\ es \in [Entity -> Nat]
    BY <2>4, <2>5
  <2> QED
    BY <1>2, <2>3, <2>6
<1> QED
  BY <1>1, <1>2

\* The invariant holds before the first tick.
LEMMA InitIInv == Init => IInv
<1> SUFFICES ASSUME Init PROVE IInv
  OBVIOUS
<1>1. Len(runqueue) = 0 /\ runqueue \in Seq(Thread)
  BY EmptySeq DEF Init
<1>2. TypeOK
  BY <1>1 DEF Init, TypeOK
<1>3. \A t \in Thread : ~Contains(runqueue, t)
  BY <1>1 DEF Contains
<1> QED
  BY <1>2, <1>3 DEF Init, IInv, Fresh, NoOvertaking, Behind

\* Every step keeps it.
LEMMA NextIInv == IInv /\ [Next]_vars => IInv'
<1> SUFFICES ASSUME IInv, [Next]_vars PROVE IInv'
  OBVIOUS
<1>1. TypeOK
  BY DEF IInv
<1>2. CASE Tick
  <2> DEFINE rt == UpdateAccounting(runtime')[1]
             es == UpdateAccounting(runtime')[2]
  <2>1. runtime' = runtime + 1 /\ runtime' \in Nat /\ cpuRuntime' = rt /\ UNCHANGED runqueue
    BY <1>1, <1>2 DEF Tick, TypeOK
  <2>2. /\ rt = IF current = NoEntity THEN cpuRuntime ELSE [cpuRuntime EXCEPT ![current] = @ + 1]
        /\ rt \in [Entity -> Nat] /\ es \in [Entity -> Nat]
    BY <2>1, Accounting
  <2>3. Schedule(runtime', rt, es)
    BY <1>2 DEF Tick
  <2> HIDE DEF rt, es
  <2>4. ASSUME NEW t \in Thread, Contains(runqueue, t), NEW u \in picked[t]
        PROVE  u \in Thread /\ rt[u] <= rt[t] + 1
    <3>1. /\ u \in Thread /\ cpuRuntime[u] <= cpuRuntime[t] + 1
          /\ u = current => cpuRuntime[u] <= cpuRuntime[t]
      BY <2>4 DEF IInv, NoOvertaking, Behind
    <3>2. cpuRuntime[u] \in Nat /\ cpuRuntime[t] \in Nat /\ u \in Entity /\ t \in Entity
      BY <1>1, <3>1 DEF TypeOK, Entity
    <3>3. CASE current = NoEntity
      BY <2>2, <3>1, <3>3
    <3>4. CASE current # NoEntity
      <4>1. /\ rt[u] = IF u = current THEN cpuRuntime[u] + 1 ELSE cpuRuntime[u]
            /\ rt[t] = IF t = current THEN cpuRuntime[t] + 1 ELSE cpuRuntime[t]
        BY <1>1, <2>2, <3>2, <3>4 DEF TypeOK
      <4> QED
        BY <3>1, <3>2, <4>1
    <3> QED
      BY <3>3, <3>4
  <2> QED
    BY <1>1, <2>1, <2>2, <2>3, <2>4, ScheduleInv
<1>3. CASE Yield
  <2>1. /\ runtime \in Nat /\ cpuRuntime \in [Entity -> Nat] /\ execStart \in [Entity -> Nat]
        /\ Schedule(runtime, cpuRuntime, execStart) /\ UNCHANGED <<runqueue, runtime, cpuRuntime>>
        /\ \A t \in Thread : Contains(runqueue, t) =>
             \A u \in picked[t] : u \in Thread /\ cpuRuntime[u] <= cpuRuntime[t] + 1
    BY <1>1, <1>3 DEF Yield, TypeOK, IInv, NoOvertaking
  <2> QED
    BY <1>1, <2>1, ScheduleInv
<1>4. ASSUME NEW t \in Thread, MakeRunnable(t) \/ MakeUnrunnable(t) PROVE IInv'
  <2>1. runqueue \in Seq(Thread) /\ Distinct(runqueue)
    BY <1>1 DEF TypeOK, Distinct
  <2>2. /\ runqueue' \in Seq(Thread) /\ Distinct(runqueue')
        /\ ToSet(runqueue') \subseteq ToSet(runqueue) \cup {t}
    <3>1. CASE MakeRunnable(t)
      BY <2>1, <3>1, AppendDistinct DEF MakeRunnable
    <3>2. CASE MakeUnrunnable(t)
      <4>1. Contains(runqueue, t) /\ runqueue' = RemoveFirst(runqueue, t)
        BY <3>2 DEF MakeUnrunnable
      <4>2. /\ RemoveFirst(runqueue, t) \in Seq(Thread) /\ Distinct(RemoveFirst(runqueue, t))
            /\ ToSet(RemoveFirst(runqueue, t)) = ToSet(runqueue) \ {t}
        BY <2>1, <4>1, RemoveDistinct
      <4> QED
        BY <4>1, <4>2
    <3> QED
      BY <1>4, <3>1, <3>2
  <2>3. \A v \in Thread : Contains(runqueue', v) => Contains(runqueue, v) \/ v = t
    BY <2>1, <2>2, Elements
  <2>4. /\ UNCHANGED <<current, runtime, cpuRuntime, execStart>>
        /\ picked' = [picked EXCEPT ![t] = {}]
    BY <1>4 DEF MakeRunnable, MakeUnrunnable
  <2>5. /\ picked' \in [Thread -> SUBSET Entity]
        /\ \A v \in Thread : picked'[v] = IF v = t THEN {} ELSE picked[v]
    BY <1>1, <2>4 DEF TypeOK
  <2>6. TypeOK'
    BY <1>1, <2>2, <2>4, <2>5 DEF TypeOK, Distinct
  <2>7. Fresh' /\ NoOvertaking' /\ Behind'
    BY <2>3, <2>4, <2>5 DEF IInv, Fresh, NoOvertaking, Behind
  <2> QED
    BY <2>6, <2>7 DEF IInv
<1>5. CASE UNCHANGED vars
  BY <1>5 DEF vars, IInv, TypeOK, Fresh, NoOvertaking, Behind
<1> QED
  BY <1>2, <1>3, <1>4, <1>5 DEF Next

\* Bounded overtaking for any number of threads: while an entity is queued,
\* pick_next_entity prefers no entity to it that gets more than a tick ahead.
THEOREM BoundedOvertaking == Spec => []NoOvertaking
<1>1. IInv => NoOvertaking
  BY DEF IInv
<1> QED
  BY <1>1, InitIInv, NextIInv, PTL DEF Spec

\* Exact accounting for any number of threads: a tick is charged in full to
\* the entity it interrupts, and nothing else changes a runtime.
THEOREM ExactAccounting == Spec => ChargesTheRunning
<1>1. ASSUME IInv, [Next]_vars
      PROVE  cpuRuntime' = IF runtime' # runtime /\ current # NoEntity
                             THEN [cpuRuntime EXCEPT ![current] = @ + (runtime' - runtime)]
                             ELSE cpuRuntime
  <2>1. CASE Tick
    <3>1. runtime' = runtime + 1 /\ runtime \in Nat /\ cpuRuntime' = UpdateAccounting(runtime')[1]
      BY <1>1, <2>1 DEF Tick, IInv, TypeOK
    <3>2. runtime' - runtime = 1 /\ runtime' # runtime
      BY <3>1
    <3>3. cpuRuntime' = IF current = NoEntity THEN cpuRuntime
                                             ELSE [cpuRuntime EXCEPT ![current] = @ + 1]
      BY <1>1, <3>1, Accounting
    <3> QED
      BY <3>2, <3>3
  <2>2. CASE Yield
    BY <2>2 DEF Yield
  <2>3. CASE \E t \in Thread : MakeRunnable(t) \/ MakeUnrunnable(t)
    BY <2>3 DEF MakeRunnable, MakeUnrunnable
  <2>4. CASE UNCHANGED vars
    BY <2>4 DEF vars
  <2> QED
    BY <1>1, <2>1, <2>2, <2>3, <2>4 DEF Next
<1>2. IInv /\ [Next]_vars =>
        [cpuRuntime' = IF runtime' # runtime /\ current # NoEntity
                         THEN [cpuRuntime EXCEPT ![current] = @ + (runtime' - runtime)]
                         ELSE cpuRuntime]_vars
  BY <1>1
<1> QED
  BY <1>2, InitIInv, NextIInv, PTL DEF Spec, ChargesTheRunning

\* The algorithm is work conserving for any number of threads: seen as a set
\* of ready entities and a running one, every step is one of WorkConserving.
THEOREM CFSIsWorkConserving == Spec => ImplementsWorkConserving
<1>1. Init => Work!Init
  BY DEF Init, Work!Init, ToSet
<1>2. ASSUME IInv, [Next]_vars PROVE [Work!Next]_(Work!vars)
  <2> DEFINE ready == ToSet(runqueue)
  <2>1. TypeOK /\ runqueue \in Seq(Thread) /\ Distinct(runqueue)
    BY <1>2 DEF IInv, TypeOK, Distinct
  <2>2. ASSUME NEW rt \in [Entity -> Nat], current' = PickNextEntity(rt), UNCHANGED runqueue
        PROVE  Work!Dispatch
    <3>1. /\ runqueue = <<>> <=> ToSet(runqueue) = {}
          /\ current' \in IF ToSet(runqueue) = {} THEN {Idle} ELSE ToSet(runqueue)
      BY <2>1, <2>2, PickLeast, Elements
    <3> QED
      BY <2>2, <3>1 DEF Work!Dispatch
  <2>3. CASE Tick
    <3>1. /\ UpdateAccounting(runtime')[1] \in [Entity -> Nat]
          /\ current' = PickNextEntity(UpdateAccounting(runtime')[1])
          /\ UNCHANGED runqueue
      BY <1>2, <2>1, <2>3, Accounting DEF Tick, Schedule, TypeOK
    <3> QED
      BY <2>2, <3>1 DEF Work!Next
  <2>4. CASE Yield
    <3>1. /\ cpuRuntime \in [Entity -> Nat] /\ current' = PickNextEntity(cpuRuntime)
          /\ UNCHANGED runqueue
      BY <2>1, <2>4 DEF Yield, Schedule, TypeOK
    <3> QED
      BY <2>2, <3>1 DEF Work!Next
  <2>5. ASSUME NEW t \in Thread, MakeRunnable(t) PROVE Work!BecomeReady(t)
    <3>1. /\ ToSet(runqueue') = ToSet(runqueue) \cup {t} /\ t \notin ToSet(runqueue)
          /\ UNCHANGED current
      BY <2>1, <2>5, AppendDistinct, Elements DEF MakeRunnable
    <3> QED
      BY <3>1 DEF Work!BecomeReady
  <2>6. ASSUME NEW t \in Thread, MakeUnrunnable(t) PROVE Work!CeaseReady(t)
    <3>1. /\ ToSet(runqueue') = ToSet(runqueue) \ {t} /\ t \in ToSet(runqueue)
          /\ UNCHANGED current
      BY <2>1, <2>6, RemoveDistinct, Elements DEF MakeUnrunnable
    <3> QED
      BY <3>1 DEF Work!CeaseReady
  <2>7. CASE UNCHANGED vars
    BY <2>7 DEF vars, Work!vars
  <2> QED
    BY <1>2, <2>3, <2>4, <2>5, <2>6, <2>7 DEF Next, Work!Next
<1>3. IInv /\ [Next]_vars => [Work!Next]_(Work!vars)
  BY <1>2
<1> QED
  BY <1>1, <1>3, InitIInv, NextIInv, PTL DEF Spec, Work!Spec, ImplementsWorkConserving

=============================================================================
