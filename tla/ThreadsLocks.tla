---------------------------- MODULE ThreadsLocks ----------------------------
(***************************************************************************)
(* Every step of Threads keeps the invariant about stacks: the locks of the *)
(* wait queues and the heap mutex have their one holder, and there is one   *)
(* interrupt handler in service.                                            *)
(***************************************************************************)
EXTENDS ThreadsStacks

-----------------------------------------------------------------------------
(* Every step keeps the invariant about stacks.                             *)

\* set_entity_state moves no lock.
LEMMA SesStack ==
  ASSUME TypeOK, StackInv,
         SesTest \/ AddToRunqueue \/ AddSpin \/ RemoveFromRunqueue \/ RemoveSpin \/ StoreState
  PROVE  StackInv'
<1>1. /\ stack[current] # <<>> /\ Top.pc \in SesPCs
      /\ UNCHANGED <<locked, heap, isr>>
  BY DEF SesTest, AddToRunqueue, AddSpin, RemoveFromRunqueue, RemoveSpin, StoreState, At,
         SesPCs, kvars
<1>2. /\ Top \in Frame /\ Top.obj \in Thread /\ Top.st \in State
      /\ SesPCs \cap HolderPCs = {} /\ SesPCs \cap WaitPCs = {}
  BY <1>1, TopType, FrameSorts DEF SesPCs, HolderPCs, LockPCs, WaitPCs
<1>3. ASSUME NEW f \in Frame, f.pc \in SesPCs \cup {"wake"}, Goto(f) PROVE StackInv'
  <2>1. f.pc \notin HolderPCs /\ f.pc \notin WaitPCs
    BY <1>3 DEF SesPCs, HolderPCs, LockPCs, WaitPCs
  <2> QED
    BY <1>1, <1>2, <1>3, <2>1, NeutralGoto
<1>4. ASSUME NEW pc \in SesPCs, GotoPC(pc) PROVE StackInv'
  <2>1. [Top EXCEPT !.pc = pc] \in Frame /\ [Top EXCEPT !.pc = pc].pc = pc
    BY <1>1, <1>2, FrameSorts DEF Frame, FrameOf
  <2> QED
    BY <1>3, <1>4, <2>1 DEF GotoPC
<1>5. ASSUME Return PROVE StackInv'
  BY <1>1, <1>2, <1>5, NeutralReturn
<1>6. ASSUME UNCHANGED stack PROVE StackInv'
  BY <1>1, <1>6, NeutralNoStack
<1>7. CASE SesTest
  BY <1>4, <1>5, <1>7 DEF SesTest, SesPCs
<1>8. CASE AddToRunqueue
  <2>1. CASE GotoPC("store")
    BY <1>4, <2>1 DEF SesPCs
  <2>2. CASE Goto([Top EXCEPT !.pc = "add_spin",
                   !.at = IF runqueue = <<>> THEN NoNode ELSE Last(runqueue)])
    <3>1. (IF runqueue = <<>> THEN NoNode ELSE Last(runqueue)) \in Thread \cup {NoNode}
      BY FrontLast DEF TypeOK
    <3> DEFINE at == IF runqueue = <<>> THEN NoNode ELSE Last(runqueue)
               f == [Top EXCEPT !.pc = "add_spin", !.at = at]
    <3> HIDE DEF at
    <3>2. f \in Frame /\ f.pc \in SesPCs
      BY <1>1, <1>2, <3>1 DEF Frame, FrameOf, SesPCs, QueuePCs, OtherPCs, at
    <3> QED
      BY <1>3, <2>2, <3>2 DEF at
  <2> QED
    BY <1>8, <2>1, <2>2 DEF AddToRunqueue
<1>9. CASE AddSpin
  BY <1>4, <1>6, <1>9 DEF AddSpin, SesPCs
<1>10. CASE RemoveFromRunqueue
  BY <1>4, <1>10 DEF RemoveFromRunqueue, SesPCs
<1>11. CASE RemoveSpin
  BY <1>4, <1>6, <1>11 DEF RemoveSpin, SesPCs
<1>12. CASE StoreState
  <2>1. Wake(Top.obj) \in Frame /\ Wake(Top.obj).pc = "wake"
    BY <1>2, NewFrames DEF Queue, Wake, F
  <2> QED
    BY <1>3, <1>12, <2>1 DEF StoreState
<1> QED
  BY <1>7, <1>8, <1>9, <1>10, <1>11, <1>12

\* The part of the invariant about one step that replaces the top frame.
LEMMA StackInvFromParts ==
  ASSUME StackOK', OneHandler', HeldOnce(stack', HeapPCs, Object, heap'),
         \A q \in Queue : HeldOnce(stack', LockPCs, {q}, locked'[q])
  PROVE  StackInv'
BY DEF StackInv, LocksExclude

\* WakeQueue::wake takes the lock, wakes under it and releases it.
LEMMA WakeStack ==
  ASSUME TypeOK, StackInv, WakeLock \/ WakeOne \/ WakeDone \/ WakeClear
  PROVE  StackInv'
<1> DEFINE s == stack[current]
<1>1. /\ s # <<>> /\ Top.pc \in {"wake", "waking", "clear"} /\ UNCHANGED isr
  BY DEF WakeLock, WakeOne, WakeDone, WakeClear, At, kvars
<1>2. /\ Top \in Frame /\ Len(s) \in Nat \ {0} /\ Top = s[Len(s)]
      /\ Top.pc \in QueuePCs /\ Top.obj \in Queue /\ Top.n \in Nat \ {0}
  BY <1>1, TopType, FrameSorts DEF QueuePCs
<1>3. ASSUME NEW pc \in {"waking", "clear"}, GotoPC(pc)
      PROVE  \E new : /\ Replaces(new, Len(s) - 1) /\ Len(new) = Len(s)
                      /\ new[Len(s)].pc = pc /\ new[Len(s)].obj = Top.obj
                      /\ StackOK' /\ OneHandler'
  <2> DEFINE f == [Top EXCEPT !.pc = pc]
  <2>1. f \in Frame /\ f.pc = pc /\ f.obj = Top.obj
    BY <1>2, FrameSorts DEF QueuePCs, Frame, FrameOf
  <2> HIDE DEF f
  <2>2. PICK new : Replaces(new, Len(s) - 1) /\ Len(new) = Len(s) /\ new[Len(s)] = f
    BY <1>1, <1>3, <2>1, GotoReplaces DEF GotoPC, f
  <2>3. StackOK'
    BY <1>2, <2>1, <2>2, StackTyped DEF WaitPCs
  <2>4. OneHandler'
    BY <1>1, <1>2, <2>1, <2>2, HandlerKept DEF StackInv
  <2> QED
    BY <2>1, <2>2, <2>3, <2>4
<1>4. ASSUME Return
      PROVE  \E new : /\ Replaces(new, Len(s) - 1) /\ Len(new) = Len(s) - 1
                      /\ StackOK' /\ OneHandler'
  <2>1. PICK new : Replaces(new, Len(s) - 1) /\ Len(new) = Len(s) - 1
    BY <1>1, <1>4, ReturnReplaces
  <2>2. StackOK'
    BY <1>2, <2>1, StackTyped
  <2>3. OneHandler'
    BY <1>1, <1>2, <2>1, HandlerKept DEF StackInv
  <2> QED
    BY <2>1, <2>2, <2>3
<1>5. ASSUME UNCHANGED <<stack, locked, heap>> PROVE StackInv'
  BY <1>1, <1>5, NeutralNoStack
<1>6. CASE WakeLock
  <2>1. CASE UNCHANGED <<stack, locked>>
    BY <1>5, <1>6, <2>1 DEF WakeLock
  <2>2. CASE GotoPC("waking") /\ ~locked[Top.obj] /\ locked' = [locked EXCEPT ![Top.obj] = TRUE]
    <3>1. PICK new : /\ Replaces(new, Len(s) - 1) /\ Len(new) = Len(s)
                     /\ new[Len(s)].pc = "waking" /\ new[Len(s)].obj = Top.obj
                     /\ StackOK' /\ OneHandler'
      BY <1>3, <2>2
    <3>2. Top.pc = "wake" /\ UNCHANGED heap
      BY <1>6 DEF WakeLock, At
    <3>3. \A q \in Queue : HeldOnce(stack', LockPCs, {q}, locked'[q])
      BY <1>1, <1>2, <2>2, <3>1, <3>2, TakesLock DEF LockPCs
    <3>4. HeldOnce(stack', HeapPCs, Object, heap')
      BY <1>1, <1>2, <3>1, <3>2, KeepsHeap DEF HeapPCs
    <3> QED
      BY <3>1, <3>3, <3>4, StackInvFromParts
  <2> QED
    BY <1>6, <2>1, <2>2 DEF WakeLock
<1>7. CASE WakeOne
  <2> DEFINE f == [Top EXCEPT !.n = @ + 1]
             g == SetEntityState(waiters[Top.obj][Top.n], "RUNNABLE")
  <2>1. /\ Top.pc = "waking" /\ Call(f, g) /\ UNCHANGED <<locked, heap, isr>>
        /\ Top.n <= Len(waiters[Top.obj])
    BY <1>7 DEF WakeOne, At, kvars
  <2>2. f \in Frame /\ f.pc = "waking" /\ f.obj = Top.obj
    BY <1>2, <2>1, AdvancedFrame
  <2>3. g \in Frame /\ g.pc = "ses"
    <3>1. waiters[Top.obj] \in Seq(Thread) /\ Top.n \in 1..Len(waiters[Top.obj])
      <4>1. waiters[Top.obj] \in Seq(Thread)
        BY <1>2 DEF TypeOK
      <4> QED
        BY <1>2, <2>1, <4>1, LenProperties
    <3>2. waiters[Top.obj][Top.n] \in Thread
      BY <3>1, ElementOfSeq
    <3> QED
      BY <3>2, NewFrames DEF SetEntityState, F, State
  <2> HIDE DEF f, g
  <2>4. PICK new : /\ Replaces(new, Len(s) - 1) /\ Len(new) = Len(s) + 1
                   /\ new[Len(s)] = f /\ new[Len(s) + 1] = g
    BY <1>1, <2>1, <2>2, <2>3, CallReplaces
  <2>5. StackOK'
    BY <1>2, <2>2, <2>3, <2>4, StackTyped DEF WaitPCs
  <2>6. OneHandler'
    BY <1>2, <2>1, <2>2, <2>3, <2>4, HandlerKept DEF StackInv
  <2>7. \A q \in Queue : HeldOnce(stack', LockPCs, {q}, locked'[q])
    <3>1. /\ Top.pc \in LockPCs /\ Len(s) <= Len(new)
          /\ new[Len(s)].pc \in LockPCs /\ new[Len(s)].obj = Top.obj
          /\ \A i \in (Len(s) + 1)..Len(new) : new[i].pc \notin LockPCs
      BY <1>2, <2>1, <2>2, <2>3, <2>4 DEF LockPCs
    <3> QED
      BY <1>1, <2>1, <2>4, <3>1, PassesLock
  <2>8. HeldOnce(stack', HeapPCs, Object, heap')
    BY <1>1, <1>2, <2>1, <2>2, <2>3, <2>4, KeepsHeap DEF HeapPCs
  <2> QED
    BY <2>5, <2>6, <2>7, <2>8, StackInvFromParts
<1>8. CASE WakeDone
  <2>1. Top.pc = "waking"
    BY <1>8 DEF WakeDone, At
  <2>2. CASE Return /\ locked' = [locked EXCEPT ![Top.obj] = FALSE] /\ UNCHANGED heap
    <3>1. PICK new : /\ Replaces(new, Len(s) - 1) /\ Len(new) = Len(s) - 1
                     /\ StackOK' /\ OneHandler'
      BY <1>4, <2>2
    <3>2. \A q \in Queue : HeldOnce(stack', LockPCs, {q}, locked'[q])
      <4>1. Top.pc \in LockPCs /\ \A i \in Len(s)..Len(new) : new[i].pc \notin LockPCs
        BY <1>2, <2>1, <3>1 DEF LockPCs
      <4> QED
        BY <1>1, <2>2, <3>1, <4>1, ReleasesLock
    <3>3. HeldOnce(stack', HeapPCs, Object, heap')
      BY <1>1, <1>2, <2>1, <2>2, <3>1, KeepsHeap DEF HeapPCs
    <3> QED
      BY <3>1, <3>2, <3>3, StackInvFromParts
  <2>3. CASE GotoPC("clear") /\ ~heap /\ heap' = TRUE /\ UNCHANGED locked
    <3>1. PICK new : /\ Replaces(new, Len(s) - 1) /\ Len(new) = Len(s)
                     /\ new[Len(s)].pc = "clear" /\ new[Len(s)].obj = Top.obj
                     /\ StackOK' /\ OneHandler'
      BY <1>3, <2>3
    <3>2. \A q \in Queue : HeldOnce(stack', LockPCs, {q}, locked'[q])
      <4>1. /\ Top.pc \in LockPCs /\ Len(s) <= Len(new) /\ new[Len(s)].pc \in LockPCs
            /\ \A i \in (Len(s) + 1)..Len(new) : new[i].pc \notin LockPCs
        BY <1>2, <2>1, <3>1 DEF LockPCs
      <4> QED
        BY <1>1, <2>3, <3>1, <4>1, PassesLock
    <3>3. HeldOnce(stack', HeapPCs, Object, heap')
      BY <1>1, <1>2, <2>3, <3>1, TakesHeap DEF HeapPCs
    <3> QED
      BY <3>1, <3>2, <3>3, StackInvFromParts
  <2>4. CASE UNCHANGED <<stack, locked, heap>>
    BY <1>5, <2>4
  <2> QED
    BY <1>8, <2>2, <2>3, <2>4 DEF WakeDone
<1>9. CASE WakeClear
  <2>1. /\ Top.pc = "clear" /\ Return /\ heap' = FALSE
        /\ locked' = [locked EXCEPT ![Top.obj] = FALSE]
    BY <1>9 DEF WakeClear, At
  <2>2. PICK new : /\ Replaces(new, Len(s) - 1) /\ Len(new) = Len(s) - 1
                   /\ StackOK' /\ OneHandler'
    BY <1>4, <2>1
  <2>3. \A q \in Queue : HeldOnce(stack', LockPCs, {q}, locked'[q])
    <3>1. Top.pc \in LockPCs /\ \A i \in Len(s)..Len(new) : new[i].pc \notin LockPCs
      BY <1>2, <2>1, <2>2 DEF LockPCs
    <3> QED
      BY <1>1, <2>1, <2>2, <3>1, ReleasesLock
  <2>4. HeldOnce(stack', HeapPCs, Object, heap')
    <3>1. Top.pc \in HeapPCs /\ \A i \in Len(s)..Len(new) : new[i].pc \notin HeapPCs
      BY <1>2, <2>1, <2>2 DEF HeapPCs
    <3> QED
      BY <1>1, <2>1, <2>2, <3>1, ReleasesHeap
  <2> QED
    BY <2>2, <2>3, <2>4, StackInvFromParts
<1> QED
  BY <1>6, <1>7, <1>8, <1>9

\* WakeQueue::sleep takes the lock, appends under it and releases it.
LEMMA SleepStack ==
  ASSUME TypeOK, StackInv, SleepLock \/ SleepAlloc \/ SleepLink
  PROVE  StackInv'
<1> DEFINE s == stack[current]
<1>1. /\ s # <<>> /\ Top.pc \in {"sleep", "append", "link"} /\ UNCHANGED isr
  BY DEF SleepLock, SleepAlloc, SleepLink, At
<1>2. /\ Top \in Frame /\ Len(s) \in Nat \ {0} /\ Top = s[Len(s)]
      /\ Top.pc \in QueuePCs /\ Top.obj \in Queue
  BY <1>1, TopType, FrameSorts DEF QueuePCs
<1>3. current \in Thread
  <2>1. current # Idle
    BY <1>1, <1>2 DEF TypeOK, StackOK, WaitPCs
  <2> QED
    BY <2>1 DEF TypeOK, Entity
<1>4. current # Idle
  BY <1>3, ConstantsAssumption
<1>5. ASSUME NEW pc \in {"append", "link"}, GotoPC(pc)
      PROVE  \E new : /\ Replaces(new, Len(s) - 1) /\ Len(new) = Len(s)
                      /\ new[Len(s)].pc = pc /\ new[Len(s)].obj = Top.obj
                      /\ StackOK' /\ OneHandler'
  <2> DEFINE f == [Top EXCEPT !.pc = pc]
  <2>1. f \in Frame /\ f.pc = pc /\ f.obj = Top.obj
    BY <1>2, FrameSorts DEF QueuePCs, Frame, FrameOf
  <2> HIDE DEF f
  <2>2. PICK new : Replaces(new, Len(s) - 1) /\ Len(new) = Len(s) /\ new[Len(s)] = f
    BY <1>1, <1>5, <2>1, GotoReplaces DEF GotoPC, f
  <2>3. StackOK'
    BY <1>4, <2>2, StackTyped
  <2>4. OneHandler'
    BY <1>1, <1>2, <2>1, <2>2, HandlerKept DEF StackInv
  <2> QED
    BY <2>1, <2>2, <2>3, <2>4
<1>6. ASSUME UNCHANGED <<stack, locked, heap>> PROVE StackInv'
  BY <1>1, <1>6, NeutralNoStack
<1>7. CASE SleepLock
  <2>1. CASE UNCHANGED <<stack, locked>>
    BY <1>6, <1>7, <2>1 DEF SleepLock
  <2>2. CASE GotoPC("append") /\ ~locked[Top.obj] /\ locked' = [locked EXCEPT ![Top.obj] = TRUE]
    <3>1. PICK new : /\ Replaces(new, Len(s) - 1) /\ Len(new) = Len(s)
                     /\ new[Len(s)].pc = "append" /\ new[Len(s)].obj = Top.obj
                     /\ StackOK' /\ OneHandler'
      BY <1>5, <2>2
    <3>2. Top.pc = "sleep" /\ UNCHANGED heap
      BY <1>7 DEF SleepLock, At
    <3>3. \A q \in Queue : HeldOnce(stack', LockPCs, {q}, locked'[q])
      BY <1>1, <1>2, <2>2, <3>1, <3>2, TakesLock DEF LockPCs
    <3>4. HeldOnce(stack', HeapPCs, Object, heap')
      BY <1>1, <1>2, <3>1, <3>2, KeepsHeap DEF HeapPCs
    <3> QED
      BY <3>1, <3>3, <3>4, StackInvFromParts
  <2> QED
    BY <1>7, <2>1, <2>2 DEF SleepLock
<1>8. CASE SleepAlloc
  <2>1. Top.pc = "append" /\ UNCHANGED locked
    BY <1>8 DEF SleepAlloc, At
  <2>2. CASE UNCHANGED <<stack, heap>>
    BY <1>6, <2>1, <2>2
  <2>3. CASE GotoPC("link") /\ ~heap /\ heap' = TRUE
    <3>1. PICK new : /\ Replaces(new, Len(s) - 1) /\ Len(new) = Len(s)
                     /\ new[Len(s)].pc = "link" /\ new[Len(s)].obj = Top.obj
                     /\ StackOK' /\ OneHandler'
      BY <1>5, <2>3
    <3>2. \A q \in Queue : HeldOnce(stack', LockPCs, {q}, locked'[q])
      <4>1. /\ Top.pc \in LockPCs /\ Len(s) <= Len(new) /\ new[Len(s)].pc \in LockPCs
            /\ \A i \in (Len(s) + 1)..Len(new) : new[i].pc \notin LockPCs
        BY <1>2, <2>1, <3>1 DEF LockPCs
      <4> QED
        BY <1>1, <2>1, <3>1, <4>1, PassesLock
    <3>3. HeldOnce(stack', HeapPCs, Object, heap')
      BY <1>1, <1>2, <2>3, <3>1, TakesHeap DEF HeapPCs
    <3> QED
      BY <3>1, <3>2, <3>3, StackInvFromParts
  <2> QED
    BY <1>8, <2>2, <2>3 DEF SleepAlloc
<1>9. CASE SleepLink
  <2> DEFINE f == Yielding(current)
             g == SetEntityState(current, "SLEEPING")
  <2>1. /\ Top.pc = "link" /\ Call(f, g) /\ heap' = FALSE
        /\ locked' = [locked EXCEPT ![Top.obj] = FALSE]
    BY <1>9 DEF SleepLink, At
  <2>2. f \in Frame /\ f.pc = "yield" /\ g \in Frame /\ g.pc = "ses"
    <3>1. current \in Entity /\ "SLEEPING" \in State
      BY DEF TypeOK, State
    <3>2. f.pc = "yield" /\ g.pc = "ses"
      BY DEF Yielding, SetEntityState, F
    <3>3. f \in Frame /\ g \in Frame
      BY <1>3, <3>1, NewFrames
    <3> QED
      BY <3>2, <3>3
  <2> HIDE DEF f, g
  <2>3. PICK new : /\ Replaces(new, Len(s) - 1) /\ Len(new) = Len(s) + 1
                   /\ new[Len(s)] = f /\ new[Len(s) + 1] = g
    BY <1>1, <2>1, <2>2, CallReplaces
  <2>4. /\ \A i \in Len(s)..Len(new) : new[i].pc \in {"yield", "ses"}
        /\ \A i \in (Len(s) - 1 + 1)..Len(new) : new[i].pc # "eoi"
        /\ \A i \in (Len(s) - 1 + 1)..Len(s) : s[i].pc # "eoi"
    <3> DEFINE n == Len(s)
    <3>1. /\ n \in Nat \ {0} /\ Len(new) = n + 1 /\ s[n].pc = "link"
          /\ new[n].pc = "yield" /\ new[n + 1].pc = "ses"
      BY <1>2, <2>1, <2>2, <2>3
    <3> HIDE DEF n
    <3>2. /\ \A i \in n..Len(new) : i = n \/ i = n + 1
          /\ \A i \in (n - 1 + 1)..Len(new) : i = n \/ i = n + 1
          /\ \A i \in (n - 1 + 1)..n : i = n
      BY <3>1
    <3>3. /\ \A i \in n..Len(new) : new[i].pc \in {"yield", "ses"}
          /\ \A i \in (n - 1 + 1)..Len(new) : new[i].pc # "eoi"
          /\ \A i \in (n - 1 + 1)..n : s[i].pc # "eoi"
      BY <3>1, <3>2
    <3> QED
      BY <3>3 DEF n
  <2>5. StackOK'
    BY <1>4, <2>3, StackTyped
  <2>6. OneHandler'
    <3> DEFINE k == Len(s) - 1
    <3>1. /\ Replaces(new, k)
          /\ \A i \in (k + 1)..Len(s) : s[i].pc # "eoi"
          /\ \A i \in (k + 1)..Len(new) : new[i].pc # "eoi"
      BY <2>3, <2>4
    <3> HIDE DEF k
    <3> QED
      BY <1>1, <3>1, HandlerKept DEF StackInv
  <2>7. \A q \in Queue : HeldOnce(stack', LockPCs, {q}, locked'[q])
    <3>1. Top.pc \in LockPCs /\ \A i \in Len(s)..Len(new) : new[i].pc \notin LockPCs
      BY <2>1, <2>4 DEF LockPCs
    <3> QED
      BY <1>1, <2>1, <2>3, <3>1, ReleasesLock
  <2>8. HeldOnce(stack', HeapPCs, Object, heap')
    <3>1. Top.pc \in HeapPCs /\ \A i \in Len(s)..Len(new) : new[i].pc \notin HeapPCs
      BY <2>1, <2>4 DEF HeapPCs
    <3> QED
      BY <1>1, <2>1, <2>3, <3>1, ReleasesHeap
  <2> QED
    BY <2>5, <2>6, <2>7, <2>8, StackInvFromParts
<1> QED
  BY <1>7, <1>8, <1>9

\* The yield after sleep and stop, the loop of sys_join_thread, and the timer.
LEMMA OtherStack ==
  ASSUME TypeOK, StackInv, Yield \/ JoinTest \/ Tick
  PROVE  StackInv'
<1>1. UNCHANGED <<locked, heap, isr>>
  BY DEF Yield, JoinTest, Tick, kvars
<1>2. CASE Yield
  <2>1. stack[current] # <<>> /\ Top.pc \notin HolderPCs /\ Return
    BY <1>2 DEF Yield, At, HolderPCs, LockPCs
  <2> QED
    BY <1>1, <2>1, NeutralReturn
<1>3. CASE JoinTest
  <2>1. stack[current] # <<>> /\ Top.pc = "join" /\ Top.pc \notin HolderPCs
    BY <1>3 DEF JoinTest, At, HolderPCs, LockPCs
  <2>2. CASE Return
    BY <1>1, <2>1, <2>2, NeutralReturn
  <2>3. CASE Call(Top, Sleep(Top.obj))
    <3>1. /\ Top \in Frame /\ Len(stack[current]) \in Nat \ {0}
          /\ Top = stack[current][Len(stack[current])]
      BY <2>1, TopType
    <3>2. current # Idle
      BY <2>1, <3>1 DEF TypeOK, StackOK, WaitPCs
    <3>3. Top.obj \in Thread
      BY <2>1, <3>1, FrameSorts
    <3>4. Sleep(Top.obj) \in Frame /\ Sleep(Top.obj).pc \notin HolderPCs
      BY <3>3, NewFrames DEF Sleep, F, Queue, HolderPCs, LockPCs
    <3> QED
      BY <1>1, <2>1, <2>3, <3>1, <3>2, <3>4, NeutralCall
  <2> QED
    BY <1>3, <2>2, <2>3 DEF JoinTest
<1>4. CASE Tick
  BY <1>1, <1>4, NeutralNoStack DEF Tick
<1> QED
  BY <1>2, <1>3, <1>4

\* System calls push frames that hold nothing.
LEMMA SystemCallStack ==
  ASSUME TypeOK, StackInv, SystemCall
  PROVE  StackInv'
<1>1. /\ UNCHANGED <<locked, heap, isr>> /\ current \in Thread
  BY DEF SystemCall, CallStart, CallJoin, CallExit, CallStop, CallWait, CallTrigger, kvars, InUser
<1>2. current # Idle /\ current \in Entity
  BY <1>1, ConstantsAssumption DEF Entity
<1>3. ASSUME NEW f \in Frame, f.pc \notin HolderPCs, Enter(<<f>>) PROVE StackInv'
  BY <1>1, <1>2, <1>3, NeutralEnter
<1>4. ASSUME NEW t \in Thread, NEW st \in State
      PROVE  SetEntityState(t, st) \in Frame /\ SetEntityState(t, st).pc \notin HolderPCs
  BY NewFrames DEF SetEntityState, F, HolderPCs, LockPCs
<1>5. ASSUME NEW t \in Thread, CallStart(t) PROVE StackInv'
  BY <1>3, <1>4, <1>5 DEF CallStart, State
<1>6. ASSUME NEW t \in Thread, CallStop(t) PROVE StackInv'
  BY <1>3, <1>4, <1>6 DEF CallStop, State
<1>7. ASSUME NEW t \in Thread, CallJoin(t) PROVE StackInv'
  <2>1. F("join", t, "STOPPED") \in Frame /\ F("join", t, "STOPPED").pc \notin HolderPCs
    BY NewFrames DEF F, HolderPCs, LockPCs, State
  <2> QED
    BY <1>3, <1>7, <2>1 DEF CallJoin
<1>8. ASSUME NEW q \in Event, CallWait(q) PROVE StackInv'
  <2>1. Sleep(q) \in Frame /\ Sleep(q).pc \notin HolderPCs
    BY NewFrames DEF Sleep, F, HolderPCs, LockPCs, Queue
  <2> QED
    BY <1>3, <1>8, <2>1 DEF CallWait
<1>9. ASSUME NEW q \in Event, CallTrigger(q) PROVE StackInv'
  <2>1. Wake(q) \in Frame /\ Wake(q).pc \notin HolderPCs
    BY NewFrames DEF Wake, F, HolderPCs, LockPCs, Queue
  <2> QED
    BY <1>3, <1>9, <2>1 DEF CallTrigger
<1>10. CASE CallExit
  <2> DEFINE f == Yielding(current)
             g == SetEntityState(current, "STOPPED")
  <2>1. f \in Frame /\ f.pc \notin HolderPCs
    BY <1>2, NewFrames DEF Yielding, F, HolderPCs, LockPCs
  <2>2. g \in Frame /\ g.pc \notin HolderPCs
    BY <1>1, <1>4 DEF State
  <2>3. Enter(<<f, g>>)
    BY <1>10 DEF CallExit
  <2> HIDE DEF f, g
  <2> QED
    BY <1>1, <1>2, <2>1, <2>2, <2>3, NeutralEnterTwo
<1> QED
  BY <1>5, <1>6, <1>7, <1>8, <1>9, <1>10 DEF SystemCall

\* A handler begins only when none is in service, and ends with its EOI.
LEMMA InterruptStack ==
  ASSUME TypeOK, StackInv, EndOfInterrupt \/ \E q \in Event : KeyboardIRQ(q)
  PROVE  StackInv'
<1> DEFINE s == stack[current]
<1>1. UNCHANGED <<locked, heap>>
  BY DEF EndOfInterrupt, KeyboardIRQ, kvars
<1>2. s \in Seq(Frame) /\ Len(s) \in Nat /\ stack \in Stacks /\ current \in Entity
  BY LenProperties DEF TypeOK, StackOK, Stacks
<1>3. ASSUME NEW new, NEW k, Replaces(new, k),
             \A i \in (k + 1)..Len(s) : s[i].pc \notin LockPCs,
             \A i \in (k + 1)..Len(new) : new[i].pc \notin LockPCs
      PROVE  LocksExclude'
  <2>1. /\ new \in Seq(Frame) /\ k \in Nat /\ k <= Len(s) /\ k <= Len(new)
        /\ \A i \in 1..k : new[i] = s[i]
        /\ stack' = [stack EXCEPT ![current] = new]
    BY <1>3 DEF Replaces
  <2>2. ASSUME NEW q \in Queue PROVE HeldOnce(stack', LockPCs, {q}, locked[q])
    <3>1. HeldOnce(stack, LockPCs, {q}, locked[q])
      BY DEF StackInv, LocksExclude
    <3>2. /\ \A i \in (k + 1)..Len(s) : ~In(s[i], LockPCs, {q})
          /\ \A i \in (k + 1)..Len(new) : ~In(new[i], LockPCs, {q})
      BY <1>3 DEF In
    <3> QED
      BY <1>2, <2>1, <3>1, <3>2, HeldUnchanged
  <2>3. HeldOnce(stack', HeapPCs, Object, heap)
    <3>1. HeldOnce(stack, HeapPCs, Object, heap)
      BY DEF StackInv, LocksExclude
    <3>2. /\ \A i \in (k + 1)..Len(s) : ~In(s[i], HeapPCs, Object)
          /\ \A i \in (k + 1)..Len(new) : ~In(new[i], HeapPCs, Object)
      BY <1>3 DEF In, LockPCs, HeapPCs
    <3> QED
      BY <1>2, <2>1, <3>1, <3>2, HeldUnchanged
  <2> QED
    BY <1>1, <2>2, <2>3 DEF LocksExclude
<1>4. CASE EndOfInterrupt
  <2>1. s # <<>> /\ Top.pc = "eoi" /\ Return /\ isr' = FALSE
    BY <1>4 DEF EndOfInterrupt, At
  <2>2. PICK new : Replaces(new, Len(s) - 1) /\ Len(new) = Len(s) - 1
    BY <2>1, ReturnReplaces
  <2> DEFINE k == Len(s) - 1
  <2>3. /\ Len(s) \in Nat \ {0} /\ Top = s[Len(s)] /\ Top \in Frame /\ k \in Nat
        /\ k <= Len(s) /\ k <= Len(new) /\ Len(s) \in (k + 1)..Len(s)
        /\ (\A i \in (k + 1)..Len(s) : i = Len(s)) /\ (\A i \in (k + 1)..Len(new) : FALSE)
    BY <2>1, <2>2, TopType
  <2>4. Replaces(new, k)
    BY <2>2
  <2> HIDE DEF k
  <2>5. /\ new \in Seq(Frame) /\ \A i \in 1..k : new[i] = s[i]
        /\ stack' = [stack EXCEPT ![current] = new]
    BY <2>4 DEF Replaces
  <2>6. LocksExclude'
    BY <1>3, <2>1, <2>3, <2>4 DEF LockPCs
  <2>7. StackOK'
    BY <2>3, <2>4, StackTyped
  <2>8. HeldOnce(stack, {"eoi"}, Object, isr) /\ In(s[Len(s)], {"eoi"}, Object)
    BY <2>1, <2>3, FrameSorts DEF StackInv, OneHandler, In
  <2>9. HeldOnce(stack', {"eoi"}, Object, FALSE)
    BY <1>2, <2>3, <2>5, <2>8, HeldReleased
  <2> QED
    BY <2>1, <2>6, <2>7, <2>9 DEF StackInv, OneHandler
<1>5. ASSUME NEW q \in Event, KeyboardIRQ(q) PROVE StackInv'
  <2> DEFINE f == F("eoi", current, "RUNNABLE")
             g == Wake(q)
             k == Len(s)
  <2>1. ~isr /\ isr' = TRUE /\ Enter(<<f, g>>)
    BY <1>5 DEF KeyboardIRQ, Interruptible
  <2>2. f \in Frame /\ f.pc = "eoi" /\ f.obj \in Object /\ g \in Frame /\ g.pc = "wake"
    <3>1. f \in Frame /\ g \in Frame
      BY <1>2, NewFrames DEF Queue, State
    <3>2. f.pc = "eoi" /\ g.pc = "wake"
      BY DEF F, Wake
    <3> QED
      BY <3>1, <3>2, FrameSorts
  <2> HIDE DEF f, g
  <2>3. PICK new : /\ Replaces(new, k) /\ Len(new) = k + 2
                   /\ new[k + 1] = f /\ new[k + 2] = g
    BY <2>1, <2>2, EnterTwoReplaces
  <2>4. /\ k \in Nat /\ k <= Len(new) /\ k + 1 \in (k + 1)..Len(new)
        /\ (\A i \in (k + 1)..Len(s) : FALSE)
        /\ \A i \in (k + 1)..Len(new) : i = k + 1 \/ i = k + 2
    BY <1>2, <2>3
  <2>5. /\ new \in Seq(Frame) /\ k <= Len(s) /\ \A i \in 1..k : new[i] = s[i]
        /\ stack' = [stack EXCEPT ![current] = new]
    BY <2>3 DEF Replaces
  <2> HIDE DEF k
  <2>6. LocksExclude'
    BY <1>3, <2>2, <2>3, <2>4 DEF LockPCs
  <2>7. StackOK'
    BY <2>2, <2>3, <2>4, StackTyped DEF WaitPCs
  <2>8. HeldOnce(stack, {"eoi"}, Object, FALSE)
    BY <2>1 DEF StackInv, OneHandler, HeldOnce
  <2>9. /\ In(new[k + 1], {"eoi"}, Object)
        /\ \A i \in (k + 1)..Len(new) : In(new[i], {"eoi"}, Object) => i = k + 1
    BY <2>2, <2>3, <2>4 DEF In
  <2>10. HeldOnce(stack', {"eoi"}, Object, TRUE)
    BY <1>2, <2>4, <2>5, <2>8, <2>9, HeldAcquired
  <2> QED
    BY <2>1, <2>6, <2>7, <2>10 DEF StackInv, OneHandler
<1> QED
  BY <1>4, <1>5

=============================================================================
