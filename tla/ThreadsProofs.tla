--------------------------- MODULE ThreadsProofs ---------------------------
(***************************************************************************)
(* The theorems about Threads, for any threads, events and system calls:    *)
(* type correctness, exclusion of the wait queue locks and of the heap      *)
(* mutex, and uniqueness of the interrupt handler in service.               *)
(***************************************************************************)
EXTENDS ThreadsLocks

-----------------------------------------------------------------------------
(* Every step keeps the types of the other variables.                       *)

\* TypeOK without the stacks.
DataOK ==
  /\ state \in [Entity -> State]
  /\ runqueue \in Seq(Thread)
  /\ count \in Int
  /\ current \in Entity
  /\ waiters \in [Queue -> Seq(Thread)]
  /\ locked \in [Queue -> BOOLEAN]
  /\ heap \in BOOLEAN /\ isr \in BOOLEAN
  /\ aborted \in BOOLEAN /\ torn \in BOOLEAN
  /\ started \subseteq Thread /\ missed \subseteq Thread

\* List::append through a slot found earlier keeps a list of threads.
LEMMA LinkedType ==
  ASSUME NEW list \in Seq(Thread), NEW at, NEW e \in Thread
  PROVE  Linked(list, at, e) \in Seq(Thread)
<1>1. CASE at = NoNode
  BY <1>1 DEF Linked
<1>2. CASE at # NoNode /\ SlotFreed(list, at)
  BY <1>2 DEF Linked
<1>3. CASE at # NoNode /\ ~SlotFreed(list, at)
  <2> DEFINE First(j) == list[j] = at /\ \A k \in 1..(j - 1) : list[k] # at
             i == CHOOSE j \in 1..Len(list) : First(j)
             J == {j \in 1..Len(list) : list[j] = at}
  <2>1. Len(list) \in Nat /\ J \subseteq Nat /\ J # {}
    BY <1>3, LenProperties DEF SlotFreed, Contains
  <2>2. PICK m \in J : \A y \in J : m <= y
    BY <2>1, LeastElement
  <2>3. m \in 1..Len(list) /\ First(m)
    BY <2>1, <2>2
  <2>4. i \in 1..Len(list)
    BY <2>3
  <2> HIDE DEF i
  <2>5. \A j \in 1..i : list[j] \in Thread
    BY <2>1, <2>4, ElementOfSeq
  <2>6. SubSeq(list, 1, i) \in Seq(Thread)
    BY <2>4, <2>5, SubSeqProperties
  <2>7. Linked(list, at, e) = Append(SubSeq(list, 1, i), e)
    BY <1>3 DEF Linked, i
  <2> QED
    BY <2>6, <2>7, AppendProperties
<1> QED
  BY <1>1, <1>2, <1>3

\* set_entity_state keeps the types of states and of the run queue.
LEMMA SesData ==
  ASSUME TypeOK,
         SesTest \/ AddToRunqueue \/ AddSpin \/ RemoveFromRunqueue \/ RemoveSpin \/ StoreState
  PROVE  DataOK'
<1>1. stack[current] # <<>> /\ Top.pc \in SesPCs
  BY DEF SesTest, AddToRunqueue, AddSpin, RemoveFromRunqueue, RemoveSpin, StoreState, At, SesPCs
<1>2. Top.obj \in Thread /\ Top.st \in State /\ Thread \subseteq Entity
  BY <1>1, TopType, FrameSorts DEF Entity
<1>3. CASE SesTest
  BY <1>2, <1>3 DEF SesTest, NoSwitch, kvars, TypeOK, DataOK
<1>4. CASE AddToRunqueue
  <2>1. current' \in Entity /\ aborted' \in BOOLEAN
    BY <1>4, ScheduleType DEF AddToRunqueue, NoSwitch, TypeOK
  <2>2. runqueue' \in Seq(Thread) /\ count' \in Int /\ torn' \in BOOLEAN
    <3>1. Append(runqueue, Top.obj) \in Seq(Thread)
      BY <1>2, AppendProperties DEF TypeOK
    <3>2. /\ (runqueue' = Append(runqueue, Top.obj) /\ count' = count + 1) \/ UNCHANGED <<runqueue, count>>
          /\ UNCHANGED torn \/ torn' = TRUE
      BY <1>4 DEF AddToRunqueue
    <3>3. torn' \in BOOLEAN
      BY <3>2 DEF TypeOK
    <3>4. runqueue' \in Seq(Thread)
      BY <3>1, <3>2 DEF TypeOK
    <3>5. count' \in Int
      <4>1. count' = count + 1 \/ count' = count
        BY <3>2
      <4>2. count \in Int
        BY DEF TypeOK
      <4> QED
        BY <4>1, <4>2
    <3> QED
      BY <3>3, <3>4, <3>5
  <2> QED
    BY <1>4, <2>1, <2>2 DEF AddToRunqueue, TypeOK, DataOK
<1>5. CASE AddSpin
  <2>1. current' \in Entity /\ aborted' \in BOOLEAN
    BY <1>5, ScheduleType DEF AddSpin, NoSwitch, TypeOK
  <2>2. runqueue' \in Seq(Thread) /\ count' \in Int
    <3>1. Linked(runqueue, Top.at, Top.obj) \in Seq(Thread)
      BY <1>2, LinkedType DEF TypeOK
    <3> QED
      BY <1>5, <3>1 DEF AddSpin, TypeOK
  <2> QED
    BY <1>5, <2>1, <2>2 DEF AddSpin, TypeOK, DataOK
<1>6. CASE RemoveFromRunqueue
  <2>1. runqueue' \in Seq(Thread)
    BY <1>6, RemoveFirstType DEF RemoveFromRunqueue, TypeOK
  <2>2. current' \in Entity /\ aborted' \in BOOLEAN
    BY <1>6, <2>1, ScheduleType DEF RemoveFromRunqueue, NoSwitch, TypeOK
  <2>3. count' \in Int /\ torn' \in BOOLEAN
    <3>1. (count' = count - 1 \/ UNCHANGED count) /\ (UNCHANGED torn \/ torn' = TRUE)
      BY <1>6 DEF RemoveFromRunqueue
    <3>2. torn' \in BOOLEAN
      BY <3>1 DEF TypeOK
    <3> QED
      BY <3>1, <3>2 DEF TypeOK
  <2> QED
    BY <1>6, <2>1, <2>2, <2>3 DEF RemoveFromRunqueue, TypeOK, DataOK
<1>7. CASE RemoveSpin
  <2>1. current' \in Entity /\ aborted' \in BOOLEAN
    BY <1>7, ScheduleType DEF RemoveSpin, NoSwitch, TypeOK
  <2>2. count' \in Int
    BY <1>7 DEF RemoveSpin, TypeOK
  <2> QED
    BY <1>7, <2>1, <2>2 DEF RemoveSpin, TypeOK, DataOK
<1>8. CASE StoreState
  BY <1>2, <1>8 DEF StoreState, NoSwitch, TypeOK, DataOK
<1> QED
  BY <1>3, <1>4, <1>5, <1>6, <1>7, <1>8

\* Waiting and waking keep the types of the wait queues and of the locks.
LEMMA QueueData ==
  ASSUME TypeOK,
         \/ WakeLock \/ WakeOne \/ WakeDone \/ WakeClear
         \/ SleepLock \/ SleepAlloc \/ SleepLink
  PROVE  DataOK'
<1>1. stack[current] # <<>> /\ Top.pc \in QueuePCs
  BY DEF WakeLock, WakeOne, WakeDone, WakeClear, SleepLock, SleepAlloc, SleepLink, At, QueuePCs
<1>2. Top.obj \in Queue
  BY <1>1, TopType, FrameSorts
<1>3. CASE WakeLock
  <2>1. current' \in Entity /\ aborted' \in BOOLEAN
    BY <1>3, ScheduleType DEF WakeLock, NoSwitch, TypeOK
  <2> QED
    BY <1>2, <1>3, <2>1 DEF WakeLock, TypeOK, DataOK
<1>4. CASE WakeOne
  BY <1>4 DEF WakeOne, NoSwitch, kvars, TypeOK, DataOK
<1>5. CASE WakeDone
  <2>1. current' \in Entity /\ aborted' \in BOOLEAN
    BY <1>5, ScheduleType DEF WakeDone, NoSwitch, TypeOK
  <2> QED
    BY <1>2, <1>5, <2>1 DEF WakeDone, TypeOK, DataOK
<1>6. CASE WakeClear
  <2>1. waiters' \in [Queue -> Seq(Thread)]
    BY <1>2, <1>6, EmptySeq DEF WakeClear, TypeOK
  <2> QED
    BY <1>2, <1>6, <2>1 DEF WakeClear, NoSwitch, TypeOK, DataOK
<1>7. CASE SleepLock
  <2>1. current' \in Entity /\ aborted' \in BOOLEAN
    BY <1>7, ScheduleType DEF SleepLock, NoSwitch, TypeOK
  <2> QED
    BY <1>2, <1>7, <2>1 DEF SleepLock, TypeOK, DataOK
<1>8. CASE SleepAlloc
  <2>1. current' \in Entity /\ aborted' \in BOOLEAN
    BY <1>8, ScheduleType DEF SleepAlloc, NoSwitch, TypeOK
  <2> QED
    BY <1>2, <1>8, <2>1 DEF SleepAlloc, TypeOK, DataOK
<1>9. CASE SleepLink
  <2>1. current \in Thread
    <3>1. /\ Len(stack[current]) \in Nat \ {0} /\ Top = stack[current][Len(stack[current])]
          /\ Top.pc = "link"
      BY <1>1, <1>9, TopType DEF SleepLink, At
    <3>2. current # Idle
      BY <3>1 DEF TypeOK, StackOK, WaitPCs
    <3> QED
      BY <3>2 DEF TypeOK, Entity
  <2>2. waiters' \in [Queue -> Seq(Thread)]
    <3>1. Append(waiters[Top.obj], current) \in Seq(Thread)
      BY <1>2, <2>1, AppendProperties DEF TypeOK
    <3> QED
      BY <1>2, <1>9, <3>1 DEF SleepLink, TypeOK
  <2> QED
    BY <1>2, <1>9, <2>2 DEF SleepLink, NoSwitch, TypeOK, DataOK
<1> QED
  BY <1>3, <1>4, <1>5, <1>6, <1>7, <1>8, <1>9

\* So do the remaining steps.
LEMMA OtherData ==
  ASSUME TypeOK,
         \/ Yield \/ JoinTest \/ Tick \/ EndOfInterrupt \/ SystemCall
         \/ \E q \in Event : KeyboardIRQ(q)
  PROVE  DataOK'
<1>1. CASE Yield \/ Tick
  <2>1. current' \in Entity /\ aborted' \in BOOLEAN
    BY <1>1, ScheduleType DEF Yield, Tick, TypeOK
  <2> QED
    BY <1>1, <2>1 DEF Yield, Tick, kvars, TypeOK, DataOK
<1>2. CASE JoinTest \/ EndOfInterrupt
  BY <1>2 DEF JoinTest, EndOfInterrupt, NoSwitch, kvars, TypeOK, DataOK
<1>3. CASE SystemCall
  <2>1. /\ UNCHANGED <<kvars, isr, torn, missed, current, aborted>>
        /\ started' = started \/ \E t \in Thread : started' = started \cup {t}
    BY <1>3 DEF SystemCall, CallStart, CallJoin, CallExit, CallStop, CallWait, CallTrigger,
                NoSwitch
  <2> QED
    BY <2>1 DEF kvars, TypeOK, DataOK
<1>4. CASE \E q \in Event : KeyboardIRQ(q)
  BY <1>4 DEF KeyboardIRQ, NoSwitch, kvars, TypeOK, DataOK
<1> QED
  BY <1>1, <1>2, <1>3, <1>4

-----------------------------------------------------------------------------
(* The theorems.                                                            *)

\* The inductive invariant.
IInv == TypeOK /\ LocksExclude /\ OneHandler

\* The invariant holds at the start of Scheduler::run.
LEMMA InitIInv == Init => IInv
<1> SUFFICES ASSUME Init PROVE IInv
  OBVIOUS
<1>1. /\ stack \in [Entity -> Seq(Frame)] /\ \A e \in Entity : stack[e] = <<>>
      /\ \A e \in Entity : Len(stack[e]) = 0
  BY EmptySeq DEF Init
<1>2. StackOK
  BY <1>1 DEF StackOK, Entity
<1>3. ToSet(StartQueue) \subseteq Thread /\ Head(StartQueue) \in Thread /\ Len(StartQueue) \in Nat
  BY ConstantsAssumption, LenProperties, HeadTailProperties DEF ToSet
<1>4. TypeOK
  <2>1. state \in [Entity -> State]
    BY DEF Init, State
  <2>2. runqueue \in Seq(Thread) /\ count \in Int /\ current \in Entity
    BY <1>3, ConstantsAssumption DEF Init, Entity
  <2>3. waiters \in [Queue -> Seq(Thread)] /\ locked \in [Queue -> BOOLEAN]
    BY EmptySeq DEF Init
  <2>4. /\ heap \in BOOLEAN /\ isr \in BOOLEAN /\ aborted \in BOOLEAN /\ torn \in BOOLEAN
        /\ started \subseteq Thread /\ missed \subseteq Thread
    BY <1>3 DEF Init
  <2> QED
    BY <1>2, <2>1, <2>2, <2>3, <2>4 DEF TypeOK
<1>5. LocksExclude /\ OneHandler
  BY <1>1 DEF Init, LocksExclude, OneHandler, HeldOnce, Queue
<1> QED
  BY <1>4, <1>5 DEF IInv

\* Every step keeps it.
LEMMA NextIInv == IInv /\ [Next]_vars => IInv'
<1> SUFFICES ASSUME IInv, [Next]_vars PROVE IInv'
  OBVIOUS
<1>1. TypeOK /\ StackInv
  BY DEF IInv, StackInv, TypeOK
<1>2. CASE Next
  <2>1. StackInv'
    BY <1>1, <1>2, SesStack, WakeStack, SleepStack, OtherStack, SystemCallStack, InterruptStack
       DEF Next, KernelStep
  <2>2. DataOK'
    BY <1>1, <1>2, SesData, QueueData, OtherData DEF Next, KernelStep
  <2> QED
    BY <2>1, <2>2 DEF IInv, StackInv, TypeOK, DataOK
<1>3. CASE UNCHANGED vars
  BY <1>3 DEF IInv, TypeOK, StackOK, LocksExclude, OneHandler, vars
<1> QED
  BY <1>2, <1>3

\* Types: every frame of every kernel stack works on an object of its sort,
\* and only threads get into run and wait queues.
THEOREM TypeCorrect == Spec => []TypeOK
<1>1. Spec => []IInv
  BY InitIInv, NextIInv, PTL DEF Spec
<1>2. IInv => TypeOK
  BY DEF IInv
<1> QED
  BY <1>1, <1>2, PTL

\* Mutual exclusion: the wait queues' locks and the heap mutex always have
\* exactly one holder while locked and none while free, for any number of
\* threads and events and any system calls and interrupts.
THEOREM MutualExclusion == Spec => []LocksExclude
<1>1. Spec => []IInv
  BY InitIInv, NextIInv, PTL DEF Spec
<1>2. IInv => LocksExclude
  BY DEF IInv
<1> QED
  BY <1>1, <1>2, PTL

\* At most one interrupt handler is in service, and it is still on some stack.
THEOREM SingleHandler == Spec => []OneHandler
<1>1. Spec => []IInv
  BY InitIInv, NextIInv, PTL DEF Spec
<1>2. IInv => OneHandler
  BY DEF IInv
<1> QED
  BY <1>1, <1>2, PTL

=============================================================================
