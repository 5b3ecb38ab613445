--------------------------- MODULE ThreadsStacks ---------------------------
(***************************************************************************)
(* Lemmas about the kernel stacks of Threads.  Every step replaces the top  *)
(* frame of one stack, or adds to it; a lock's holders are the frames at    *)
(* the program points between its acquisition and its release; so it is     *)
(* enough to compare the holders among the frames a step removes with the   *)
(* holders among the frames it adds.                                        *)
(***************************************************************************)
EXTENDS Threads, ListLemmas

-----------------------------------------------------------------------------
(* Holders.  new replaces the stack of e and agrees with it up to position k; *)
(* the frames above k are the ones that a step removes and adds.             *)

Stacks == [Entity -> Seq(Frame)]

\* No holder is removed, none is added.
LEMMA HeldUnchanged ==
  ASSUME NEW stk \in Stacks, NEW e \in Entity, NEW new \in Seq(Frame), NEW k \in Nat,
         k <= Len(stk[e]), k <= Len(new), \A i \in 1..k : new[i] = stk[e][i],
         NEW pcs, NEW objs, NEW held, HeldOnce(stk, pcs, objs, held),
         \A i \in (k + 1)..Len(stk[e]) : ~In(stk[e][i], pcs, objs),
         \A i \in (k + 1)..Len(new) : ~In(new[i], pcs, objs)
  PROVE  HeldOnce([stk EXCEPT ![e] = new], pcs, objs, held)
<1> DEFINE nstk == [stk EXCEPT ![e] = new]
<1>1. /\ nstk \in Stacks /\ nstk[e] = new
      /\ \A x \in Entity \ {e} : nstk[x] = stk[x]
      /\ Len(stk[e]) \in Nat /\ Len(new) \in Nat
  BY LenProperties DEF Stacks
<1> HIDE DEF nstk
<1>2. \A x \in Entity : \A i \in 1..Len(nstk[x]) :
        In(nstk[x][i], pcs, objs) => i \in 1..Len(stk[x]) /\ nstk[x][i] = stk[x][i]
  BY <1>1
<1>3. \A x \in Entity : \A i \in 1..Len(stk[x]) :
        In(stk[x][i], pcs, objs) => i \in 1..Len(nstk[x]) /\ nstk[x][i] = stk[x][i]
  BY <1>1
<1>4. \A e1, e2 \in Entity : \A i \in 1..Len(nstk[e1]), j \in 1..Len(nstk[e2]) :
        In(nstk[e1][i], pcs, objs) /\ In(nstk[e2][j], pcs, objs) => e1 = e2 /\ i = j
  BY <1>2 DEF HeldOnce
<1>5. held <=> \E x \in Entity : \E i \in 1..Len(nstk[x]) : In(nstk[x][i], pcs, objs)
  BY <1>2, <1>3 DEF HeldOnce
<1> QED
  BY <1>4, <1>5 DEF HeldOnce, nstk

\* The lock is free and one holder is added, at position h.
LEMMA HeldAcquired ==
  ASSUME NEW stk \in Stacks, NEW e \in Entity, NEW new \in Seq(Frame), NEW k \in Nat,
         k <= Len(stk[e]), k <= Len(new), \A i \in 1..k : new[i] = stk[e][i],
         NEW pcs, NEW objs, HeldOnce(stk, pcs, objs, FALSE),
         NEW h \in (k + 1)..Len(new), In(new[h], pcs, objs),
         \A i \in (k + 1)..Len(new) : In(new[i], pcs, objs) => i = h
  PROVE  HeldOnce([stk EXCEPT ![e] = new], pcs, objs, TRUE)
<1> DEFINE nstk == [stk EXCEPT ![e] = new]
<1>1. /\ nstk \in Stacks /\ nstk[e] = new
      /\ \A x \in Entity \ {e} : nstk[x] = stk[x]
      /\ Len(stk[e]) \in Nat /\ Len(new) \in Nat
  BY LenProperties DEF Stacks
<1> HIDE DEF nstk
<1>2. \A x \in Entity : \A i \in 1..Len(stk[x]) : ~In(stk[x][i], pcs, objs)
  BY DEF HeldOnce
<1>3. \A x \in Entity : \A i \in 1..Len(nstk[x]) :
        In(nstk[x][i], pcs, objs) => x = e /\ i = h
  BY <1>1, <1>2
<1>4. h \in 1..Len(nstk[e]) /\ In(nstk[e][h], pcs, objs)
  BY <1>1
<1> QED
  BY <1>3, <1>4 DEF HeldOnce, nstk

\* The only holder is removed, at position g.
LEMMA HeldReleased ==
  ASSUME NEW stk \in Stacks, NEW e \in Entity, NEW new \in Seq(Frame), NEW k \in Nat,
         k <= Len(stk[e]), k <= Len(new), \A i \in 1..k : new[i] = stk[e][i],
         NEW pcs, NEW objs, NEW held, HeldOnce(stk, pcs, objs, held),
         NEW g \in (k + 1)..Len(stk[e]), In(stk[e][g], pcs, objs),
         \A i \in (k + 1)..Len(new) : ~In(new[i], pcs, objs)
  PROVE  HeldOnce([stk EXCEPT ![e] = new], pcs, objs, FALSE)
<1> DEFINE nstk == [stk EXCEPT ![e] = new]
<1>1. /\ nstk \in Stacks /\ nstk[e] = new
      /\ \A x \in Entity \ {e} : nstk[x] = stk[x]
      /\ Len(stk[e]) \in Nat /\ Len(new) \in Nat
  BY LenProperties DEF Stacks
<1> HIDE DEF nstk
<1>2. \A x \in Entity : \A i \in 1..Len(stk[x]) : In(stk[x][i], pcs, objs) => x = e /\ i = g
  BY <1>1 DEF HeldOnce
<1>3. \A x \in Entity : \A i \in 1..Len(nstk[x]) : ~In(nstk[x][i], pcs, objs)
  BY <1>1, <1>2
<1> QED
  BY <1>3 DEF HeldOnce, nstk

\* The only holder, at position g, is replaced by another, at position h.
LEMMA HeldPassed ==
  ASSUME NEW stk \in Stacks, NEW e \in Entity, NEW new \in Seq(Frame), NEW k \in Nat,
         k <= Len(stk[e]), k <= Len(new), \A i \in 1..k : new[i] = stk[e][i],
         NEW pcs, NEW objs, NEW held, HeldOnce(stk, pcs, objs, held),
         NEW g \in (k + 1)..Len(stk[e]), In(stk[e][g], pcs, objs),
         NEW h \in (k + 1)..Len(new), In(new[h], pcs, objs),
         \A i \in (k + 1)..Len(new) : In(new[i], pcs, objs) => i = h
  PROVE  HeldOnce([stk EXCEPT ![e] = new], pcs, objs, held)
<1> DEFINE nstk == [stk EXCEPT ![e] = new]
<1>1. /\ nstk \in Stacks /\ nstk[e] = new
      /\ \A x \in Entity \ {e} : nstk[x] = stk[x]
      /\ Len(stk[e]) \in Nat /\ Len(new) \in Nat
  BY LenProperties DEF Stacks
<1> HIDE DEF nstk
<1>2. \A x \in Entity : \A i \in 1..Len(stk[x]) : In(stk[x][i], pcs, objs) => x = e /\ i = g
  BY <1>1 DEF HeldOnce
<1>3. \A x \in Entity : \A i \in 1..Len(nstk[x]) :
        In(nstk[x][i], pcs, objs) => x = e /\ i = h
  BY <1>1, <1>2
<1>4. h \in 1..Len(nstk[e]) /\ In(nstk[e][h], pcs, objs)
  BY <1>1
<1>5. held
  BY <1>1 DEF HeldOnce
<1> QED
  BY <1>3, <1>4, <1>5 DEF HeldOnce, nstk

-----------------------------------------------------------------------------
(* The effect of one step on the stack of the current entity.               *)

Replaces(new, k) ==
  /\ new \in Seq(Frame) /\ k \in Nat
  /\ k <= Len(stack[current]) /\ k <= Len(new)
  /\ \A i \in 1..k : new[i] = stack[current][i]
  /\ stack' = [stack EXCEPT ![current] = new]

\* The innermost frame, and the frames that can follow it.
LEMMA TopType ==
  ASSUME TypeOK, stack[current] # <<>>
  PROVE  /\ stack[current] \in Seq(Frame)
         /\ Len(stack[current]) \in Nat \ {0}
         /\ Top \in Frame
         /\ Top = stack[current][Len(stack[current])]
BY FrontLast DEF TypeOK, StackOK, Top

\* A frame's object is of the sort its program point works on.
LEMMA FrameSorts ==
  ASSUME NEW f \in Frame
  PROVE  /\ f.pc \in SesPCs \cup {"join"} => f.obj \in Thread
         /\ f.pc \in QueuePCs => f.obj \in Queue
         /\ f.obj \in Object
         /\ f.n \in Nat \ {0} /\ f.st \in State
         /\ \A pc \in SesPCs : f.pc \in SesPCs => [f EXCEPT !.pc = pc] \in Frame
         /\ \A pc \in QueuePCs : f.pc \in QueuePCs => [f EXCEPT !.pc = pc] \in Frame
BY DEF Frame, FrameOf, SesPCs, QueuePCs, OtherPCs, Object, Entity, Queue

\* A frame whose position advances.
LEMMA AdvancedFrame ==
  ASSUME NEW f \in Frame, f.pc \in QueuePCs
  PROVE  /\ [f EXCEPT !.n = @ + 1] \in Frame
         /\ [f EXCEPT !.n = @ + 1].pc = f.pc
         /\ [f EXCEPT !.n = @ + 1].obj = f.obj
<1>1. f \in FrameOf(QueuePCs, Queue)
  BY DEF Frame, FrameOf, SesPCs, QueuePCs, OtherPCs
<1>2. f.n + 1 \in Nat \ {0}
  BY <1>1 DEF FrameOf
<1> DEFINE m == f.n + 1
<1> HIDE DEF m
<1>3. m \in Nat \ {0} /\ [f EXCEPT !.n = @ + 1] = [f EXCEPT !.n = m]
  BY <1>2 DEF m
<1>4. [f EXCEPT !.n = m] \in FrameOf(QueuePCs, Queue)
  BY <1>1, <1>3 DEF FrameOf
<1> QED
  BY <1>1, <1>3, <1>4 DEF Frame, FrameOf

\* The frames of calls.
LEMMA NewFrames ==
  /\ \A t \in Thread, st \in State : SetEntityState(t, st) \in Frame
  /\ \A q \in Queue : Wake(q) \in Frame /\ Sleep(q) \in Frame
  /\ \A e \in Entity : Yielding(e) \in Frame
  /\ \A t \in Thread, st \in State : F("join", t, st) \in Frame
  /\ \A e \in Entity, st \in State : F("eoi", e, st) \in Frame
BY DEF SetEntityState, Wake, Sleep, Yielding, F, Frame, FrameOf, SesPCs, QueuePCs,
       OtherPCs, State

\* Moving on within an operation replaces the top frame.
LEMMA GotoReplaces ==
  ASSUME TypeOK, stack[current] # <<>>, NEW f \in Frame, Goto(f)
  PROVE  \E new : /\ Replaces(new, Len(stack[current]) - 1)
                  /\ Len(new) = Len(stack[current])
                  /\ new[Len(stack[current])] = f
<1> DEFINE s == stack[current]
           new == Append(Front(s), f)
<1>1. s \in Seq(Frame) /\ Len(s) \in Nat \ {0}
  BY TopType
<1>2. stack' = [stack EXCEPT ![current] = new]
  BY DEF Goto
<1>3. /\ new \in Seq(Frame) /\ Len(new) = Len(s)
      /\ \A i \in 1..(Len(s) - 1) : new[i] = s[i]
      /\ new[Len(s)] = f
  BY <1>1, ReplaceLast
<1> HIDE DEF new
<1>4. Replaces(new, Len(s) - 1)
  BY <1>1, <1>2, <1>3 DEF Replaces
<1> QED
  BY <1>3, <1>4

\* A call moves the top frame on and puts one frame on it.
LEMMA CallReplaces ==
  ASSUME TypeOK, stack[current] # <<>>, NEW f \in Frame, NEW g \in Frame, Call(f, g)
  PROVE  \E new : /\ Replaces(new, Len(stack[current]) - 1)
                  /\ Len(new) = Len(stack[current]) + 1
                  /\ new[Len(stack[current])] = f
                  /\ new[Len(stack[current]) + 1] = g
<1> DEFINE s == stack[current]
           new == Front(s) \o <<f, g>>
<1>1. s \in Seq(Frame) /\ Len(s) \in Nat \ {0} /\ s # <<>>
  BY TopType
<1>2. stack' = [stack EXCEPT ![current] = new]
  BY DEF Call
<1> HIDE DEF s
<1>3. /\ new \in Seq(Frame) /\ Len(new) = Len(s) + 1
      /\ \A i \in 1..(Len(s) - 1) : new[i] = s[i]
      /\ new[Len(s)] = f /\ new[Len(s) + 1] = g
  BY <1>1, ReplaceLastByTwo
<1> HIDE DEF new
<1>4. Replaces(new, Len(s) - 1)
  BY <1>1, <1>2, <1>3 DEF Replaces, s
<1> QED
  BY <1>3, <1>4 DEF s

\* A return removes the top frame.
LEMMA ReturnReplaces ==
  ASSUME TypeOK, stack[current] # <<>>, Return
  PROVE  \E new : /\ Replaces(new, Len(stack[current]) - 1)
                  /\ Len(new) = Len(stack[current]) - 1
<1> DEFINE s == stack[current]
           new == Front(s)
<1>1. s \in Seq(Frame) /\ Len(s) \in Nat \ {0}
  BY TopType
<1>2. stack' = [stack EXCEPT ![current] = new]
  BY DEF Return
<1>3. /\ new \in Seq(Frame) /\ Len(new) = Len(s) - 1
      /\ \A i \in 1..(Len(s) - 1) : new[i] = s[i]
  BY <1>1, FrontLast
<1> HIDE DEF new
<1>4. Replaces(new, Len(s) - 1)
  BY <1>1, <1>2, <1>3 DEF Replaces
<1> QED
  BY <1>3, <1>4

\* A system call puts a frame on an empty stack, or on top of it.
LEMMA EnterReplaces ==
  ASSUME TypeOK, NEW f \in Frame, Enter(<<f>>)
  PROVE  \E new : /\ Replaces(new, Len(stack[current]))
                  /\ Len(new) = Len(stack[current]) + 1
                  /\ new[Len(stack[current]) + 1] = f
<1> DEFINE s == stack[current]
           new == s \o <<f>>
<1>1. s \in Seq(Frame) /\ Len(s) \in Nat
  BY LenProperties DEF TypeOK, StackOK
<1>2. stack' = [stack EXCEPT ![current] = new]
  BY DEF Enter
<1>3. /\ new \in Seq(Frame) /\ Len(new) = Len(s) + 1
      /\ \A i \in 1..Len(s) : new[i] = s[i]
      /\ new[Len(s) + 1] = f
  BY <1>1, PushOne
<1> HIDE DEF new
<1>4. Replaces(new, Len(s))
  BY <1>1, <1>2, <1>3 DEF Replaces
<1> QED
  BY <1>3, <1>4

\* An interrupt, or an exit, puts on two.
LEMMA EnterTwoReplaces ==
  ASSUME TypeOK, NEW f \in Frame, NEW g \in Frame, Enter(<<f, g>>)
  PROVE  \E new : /\ Replaces(new, Len(stack[current]))
                  /\ Len(new) = Len(stack[current]) + 2
                  /\ new[Len(stack[current]) + 1] = f
                  /\ new[Len(stack[current]) + 2] = g
<1> DEFINE s == stack[current]
           new == s \o <<f, g>>
<1>1. s \in Seq(Frame) /\ Len(s) \in Nat
  BY LenProperties DEF TypeOK, StackOK
<1>2. stack' = [stack EXCEPT ![current] = new]
  BY DEF Enter
<1>3. /\ new \in Seq(Frame) /\ Len(new) = Len(s) + 2
      /\ \A i \in 1..Len(s) : new[i] = s[i]
      /\ new[Len(s) + 1] = f /\ new[Len(s) + 2] = g
  BY <1>1, PushTwo
<1> HIDE DEF new
<1>4. Replaces(new, Len(s))
  BY <1>1, <1>2, <1>3 DEF Replaces
<1> QED
  BY <1>3, <1>4

\* Scheduling picks an entity.
LEMMA ScheduleType ==
  ASSUME TypeOK, NEW list \in Seq(Thread), NEW cnt, Schedule(list, cnt)
  PROVE  current' \in Entity /\ aborted' \in BOOLEAN
<1>1. PickNext(list, cnt) \subseteq Entity
  <2>1. ToSet(list) \subseteq Thread
    BY LenProperties DEF ToSet
  <2>2. list # <<>> => Head(list) \in Thread
    BY HeadTailProperties
  <2> QED
    BY <2>1, <2>2 DEF PickNext, Entity
<1> QED
  BY <1>1 DEF Schedule, TypeOK

-----------------------------------------------------------------------------
(* The invariant about stacks, and the steps that move no holder.           *)

HolderPCs == LockPCs \cup {"eoi"}

StackInv == StackOK /\ LocksExclude /\ OneHandler

\* A new stack is well formed if the new frames suit the idle thread.
LEMMA StackTyped ==
  ASSUME TypeOK, NEW new, NEW k, Replaces(new, k),
         current = Idle => \A i \in (k + 1)..Len(new) : new[i].pc \notin WaitPCs
  PROVE  StackOK'
<1>1. stack' \in [Entity -> Seq(Frame)]
  BY DEF Replaces, TypeOK, StackOK
<1>2. ASSUME NEW i \in 1..Len(stack'[Idle]) PROVE stack'[Idle][i].pc \notin WaitPCs
  <2>1. CASE current # Idle
    BY <2>1 DEF Replaces, TypeOK, StackOK, Entity
  <2>2. CASE current = Idle
    <3>1. stack'[Idle] = new /\ Len(new) \in Nat /\ Len(stack[Idle]) \in Nat
      BY <2>2, LenProperties DEF Replaces, TypeOK, StackOK, Entity
    <3>2. CASE i <= k
      BY <2>2, <3>1, <3>2 DEF Replaces, TypeOK, StackOK
    <3>3. CASE ~(i <= k)
      BY <2>2, <3>1, <3>3 DEF Replaces
    <3> QED
      BY <3>2, <3>3
  <2> QED
    BY <2>1, <2>2
<1> QED
  BY <1>1, <1>2 DEF StackOK

\* Frames that hold nothing come and go.
LEMMA NeutralStep ==
  ASSUME TypeOK, LocksExclude, OneHandler, NEW new, NEW k, Replaces(new, k),
         \A i \in (k + 1)..Len(stack[current]) : stack[current][i].pc \notin HolderPCs,
         \A i \in (k + 1)..Len(new) : new[i].pc \notin HolderPCs,
         UNCHANGED <<locked, heap, isr>>
  PROVE  LocksExclude' /\ OneHandler'
<1>1. /\ stack \in Stacks /\ current \in Entity /\ new \in Seq(Frame) /\ k \in Nat
      /\ k <= Len(stack[current]) /\ k <= Len(new)
      /\ \A i \in 1..k : new[i] = stack[current][i]
      /\ stack' = [stack EXCEPT ![current] = new]
  BY DEF Replaces, TypeOK, StackOK, Stacks
<1>2. ASSUME NEW q \in Queue PROVE HeldOnce(stack', LockPCs, {q}, locked'[q])
  <2>1. HeldOnce(stack, LockPCs, {q}, locked[q])
    BY DEF LocksExclude
  <2>2. /\ \A i \in (k + 1)..Len(stack[current]) : ~In(stack[current][i], LockPCs, {q})
        /\ \A i \in (k + 1)..Len(new) : ~In(new[i], LockPCs, {q})
    BY DEF In, HolderPCs
  <2>3. HeldOnce([stack EXCEPT ![current] = new], LockPCs, {q}, locked[q])
    BY <1>1, <2>1, <2>2, HeldUnchanged
  <2> QED
    BY <1>1, <2>3
<1>3. HeldOnce(stack', HeapPCs, Object, heap')
  <2>1. HeldOnce(stack, HeapPCs, Object, heap)
    BY DEF LocksExclude
  <2>2. /\ \A i \in (k + 1)..Len(stack[current]) : ~In(stack[current][i], HeapPCs, Object)
        /\ \A i \in (k + 1)..Len(new) : ~In(new[i], HeapPCs, Object)
    BY DEF In, HolderPCs, LockPCs, HeapPCs
  <2>3. HeldOnce([stack EXCEPT ![current] = new], HeapPCs, Object, heap)
    BY <1>1, <2>1, <2>2, HeldUnchanged
  <2> QED
    BY <1>1, <2>3
<1>4. HeldOnce(stack', {"eoi"}, Object, isr')
  <2>1. HeldOnce(stack, {"eoi"}, Object, isr)
    BY DEF OneHandler
  <2>2. /\ \A i \in (k + 1)..Len(stack[current]) : ~In(stack[current][i], {"eoi"}, Object)
        /\ \A i \in (k + 1)..Len(new) : ~In(new[i], {"eoi"}, Object)
    BY DEF In, HolderPCs
  <2>3. HeldOnce([stack EXCEPT ![current] = new], {"eoi"}, Object, isr)
    BY <1>1, <2>1, <2>2, HeldUnchanged
  <2> QED
    BY <1>1, <2>3
<1> QED
  BY <1>2, <1>3, <1>4 DEF LocksExclude, OneHandler

\* A step that leaves stacks, locks, heap and isr alone keeps the invariant.
LEMMA NeutralNoStack ==
  ASSUME TypeOK, StackInv, UNCHANGED <<stack, locked, heap, isr>>
  PROVE  StackInv'
BY DEF StackInv, StackOK, LocksExclude, OneHandler

\* So does moving on between two points at which nothing is held,
LEMMA NeutralGoto ==
  ASSUME TypeOK, StackInv, stack[current] # <<>>, Top.pc \notin HolderPCs,
         NEW f \in Frame, f.pc \notin HolderPCs, current = Idle => f.pc \notin WaitPCs,
         Goto(f), UNCHANGED <<locked, heap, isr>>
  PROVE  StackInv'
<1>1. PICK new : /\ Replaces(new, Len(stack[current]) - 1)
                 /\ Len(new) = Len(stack[current])
                 /\ new[Len(stack[current])] = f
  BY GotoReplaces
<1>2. Len(stack[current]) \in Nat \ {0} /\ Top = stack[current][Len(stack[current])]
  BY TopType
<1>3. StackOK'
  BY <1>1, <1>2, StackTyped
<1>4. LocksExclude' /\ OneHandler'
  BY <1>1, <1>2, NeutralStep DEF StackInv
<1> QED
  BY <1>3, <1>4 DEF StackInv

\* a call between such points,
LEMMA NeutralCall ==
  ASSUME TypeOK, StackInv, stack[current] # <<>>, Top.pc \notin HolderPCs,
         NEW f \in Frame, f.pc \notin HolderPCs, current = Idle => f.pc \notin WaitPCs,
         NEW g \in Frame, g.pc \notin HolderPCs, current = Idle => g.pc \notin WaitPCs,
         Call(f, g), UNCHANGED <<locked, heap, isr>>
  PROVE  StackInv'
<1>1. PICK new : /\ Replaces(new, Len(stack[current]) - 1)
                 /\ Len(new) = Len(stack[current]) + 1
                 /\ new[Len(stack[current])] = f
                 /\ new[Len(stack[current]) + 1] = g
  BY CallReplaces
<1>2. Len(stack[current]) \in Nat \ {0} /\ Top = stack[current][Len(stack[current])]
  BY TopType
<1>3. StackOK'
  BY <1>1, <1>2, StackTyped
<1>4. LocksExclude' /\ OneHandler'
  BY <1>1, <1>2, NeutralStep DEF StackInv
<1> QED
  BY <1>3, <1>4 DEF StackInv

\* a return from such a point,
LEMMA NeutralReturn ==
  ASSUME TypeOK, StackInv, stack[current] # <<>>, Top.pc \notin HolderPCs,
         Return, UNCHANGED <<locked, heap, isr>>
  PROVE  StackInv'
<1>1. PICK new : /\ Replaces(new, Len(stack[current]) - 1)
                 /\ Len(new) = Len(stack[current]) - 1
  BY ReturnReplaces
<1>2. Len(stack[current]) \in Nat \ {0} /\ Top = stack[current][Len(stack[current])]
  BY TopType
<1>3. StackOK'
  BY <1>1, <1>2, StackTyped
<1>4. LocksExclude' /\ OneHandler'
  BY <1>1, <1>2, NeutralStep DEF StackInv
<1> QED
  BY <1>3, <1>4 DEF StackInv

\* and a system call that starts at such a point,
LEMMA NeutralEnter ==
  ASSUME TypeOK, StackInv,
         NEW f \in Frame, f.pc \notin HolderPCs, current = Idle => f.pc \notin WaitPCs,
         Enter(<<f>>), UNCHANGED <<locked, heap, isr>>
  PROVE  StackInv'
<1>1. PICK new : /\ Replaces(new, Len(stack[current]))
                 /\ Len(new) = Len(stack[current]) + 1
                 /\ new[Len(stack[current]) + 1] = f
  BY EnterReplaces
<1>2. Len(stack[current]) \in Nat
  BY <1>1, LenProperties DEF TypeOK, StackOK
<1>3. StackOK'
  BY <1>1, <1>2, StackTyped
<1>4. LocksExclude' /\ OneHandler'
  BY <1>1, <1>2, NeutralStep DEF StackInv
<1> QED
  BY <1>3, <1>4 DEF StackInv

\* or at two of them.
LEMMA NeutralEnterTwo ==
  ASSUME TypeOK, StackInv,
         NEW f \in Frame, f.pc \notin HolderPCs, current = Idle => f.pc \notin WaitPCs,
         NEW g \in Frame, g.pc \notin HolderPCs, current = Idle => g.pc \notin WaitPCs,
         Enter(<<f, g>>), UNCHANGED <<locked, heap, isr>>
  PROVE  StackInv'
<1>1. PICK new : /\ Replaces(new, Len(stack[current]))
                 /\ Len(new) = Len(stack[current]) + 2
                 /\ new[Len(stack[current]) + 1] = f
                 /\ new[Len(stack[current]) + 2] = g
  BY EnterTwoReplaces
<1>2. Len(stack[current]) \in Nat
  BY <1>1, LenProperties DEF TypeOK, StackOK
<1>3. StackOK'
  BY <1>1, <1>2, StackTyped
<1>4. LocksExclude' /\ OneHandler'
  BY <1>1, <1>2, NeutralStep DEF StackInv
<1> QED
  BY <1>3, <1>4 DEF StackInv

-----------------------------------------------------------------------------
(* Steps that acquire, pass on or release a lock.  In each of them the frame *)
(* at the top of the stack, which works on queue p, is replaced.            *)

\* A frame for p is no holder of another queue's lock.
LEMMA OtherQueues ==
  ASSUME TypeOK, LocksExclude, NEW new, NEW k, Replaces(new, k), NEW p \in Queue,
         \A i \in (k + 1)..Len(stack[current]) :
            stack[current][i].pc \in LockPCs => stack[current][i].obj = p,
         \A i \in (k + 1)..Len(new) : new[i].pc \in LockPCs => new[i].obj = p,
         NEW q \in Queue \ {p}
  PROVE  HeldOnce(stack', LockPCs, {q}, locked[q])
<1>1. /\ stack \in Stacks /\ current \in Entity /\ new \in Seq(Frame) /\ k \in Nat
      /\ k <= Len(stack[current]) /\ k <= Len(new)
      /\ \A i \in 1..k : new[i] = stack[current][i]
      /\ stack' = [stack EXCEPT ![current] = new]
  BY DEF Replaces, TypeOK, StackOK, Stacks
<1>2. HeldOnce(stack, LockPCs, {q}, locked[q])
  BY DEF LocksExclude
<1>3. /\ \A i \in (k + 1)..Len(stack[current]) : ~In(stack[current][i], LockPCs, {q})
      /\ \A i \in (k + 1)..Len(new) : ~In(new[i], LockPCs, {q})
  BY DEF In
<1>4. HeldOnce([stack EXCEPT ![current] = new], LockPCs, {q}, locked[q])
  BY <1>1, <1>2, <1>3, HeldUnchanged
<1> QED
  BY <1>1, <1>4

\* A handler in service is not concerned.
LEMMA HandlerKept ==
  ASSUME TypeOK, OneHandler, NEW new, NEW k, Replaces(new, k),
         \A i \in (k + 1)..Len(stack[current]) : stack[current][i].pc # "eoi",
         \A i \in (k + 1)..Len(new) : new[i].pc # "eoi",
         UNCHANGED isr
  PROVE  OneHandler'
<1>1. /\ stack \in Stacks /\ current \in Entity /\ new \in Seq(Frame) /\ k \in Nat
      /\ k <= Len(stack[current]) /\ k <= Len(new)
      /\ \A i \in 1..k : new[i] = stack[current][i]
      /\ stack' = [stack EXCEPT ![current] = new]
  BY DEF Replaces, TypeOK, StackOK, Stacks
<1>2. HeldOnce(stack, {"eoi"}, Object, isr)
  BY DEF OneHandler
<1>3. /\ \A i \in (k + 1)..Len(stack[current]) : ~In(stack[current][i], {"eoi"}, Object)
      /\ \A i \in (k + 1)..Len(new) : ~In(new[i], {"eoi"}, Object)
  BY DEF In
<1>4. HeldOnce([stack EXCEPT ![current] = new], {"eoi"}, Object, isr)
  BY <1>1, <1>2, <1>3, HeldUnchanged
<1> QED
  BY <1>1, <1>4 DEF OneHandler

\* The test-and-set found the lock of the top frame's queue free.
LEMMA TakesLock ==
  ASSUME TypeOK, StackInv, stack[current] # <<>>,
         NEW new, Replaces(new, Len(stack[current]) - 1),
         Top.pc \in QueuePCs \ LockPCs, Len(new) = Len(stack[current]),
         new[Len(stack[current])].pc \in LockPCs, new[Len(stack[current])].obj = Top.obj,
         ~locked[Top.obj], locked' = [locked EXCEPT ![Top.obj] = TRUE]
  PROVE  \A q \in Queue : HeldOnce(stack', LockPCs, {q}, locked'[q])
<1> DEFINE s == stack[current]
           k == Len(s) - 1
<1>1. /\ Len(s) \in Nat \ {0} /\ Top = s[Len(s)] /\ Top \in Frame /\ k \in Nat
      /\ k <= Len(s) /\ \A i \in (k + 1)..Len(s) : i = Len(s)
  BY TopType
<1>2. /\ stack \in Stacks /\ current \in Entity /\ new \in Seq(Frame) /\ k <= Len(new)
      /\ \A i \in 1..k : new[i] = s[i]
      /\ stack' = [stack EXCEPT ![current] = new]
      /\ Len(new) \in Nat
  BY LenProperties DEF Replaces, TypeOK, StackOK, Stacks
<1>3. Top.obj \in Queue
  BY <1>1, FrameSorts
<1>4. HeldOnce(stack', LockPCs, {Top.obj}, TRUE)
  <2>1. HeldOnce(stack, LockPCs, {Top.obj}, FALSE)
    BY <1>3 DEF StackInv, LocksExclude, HeldOnce
  <2>2. /\ Len(s) \in (k + 1)..Len(new) /\ In(new[Len(s)], LockPCs, {Top.obj})
        /\ \A i \in (k + 1)..Len(new) : In(new[i], LockPCs, {Top.obj}) => i = Len(s)
    BY <1>1, <1>2 DEF In
  <2> HIDE DEF k
  <2>3. HeldOnce([stack EXCEPT ![current] = new], LockPCs, {Top.obj}, TRUE)
    BY <1>1, <1>2, <2>1, <2>2, HeldAcquired
  <2> QED
    BY <1>2, <2>3
<1>5. ASSUME NEW q \in Queue \ {Top.obj} PROVE HeldOnce(stack', LockPCs, {q}, locked[q])
  <2>1. /\ \A i \in (k + 1)..Len(s) : s[i].pc \in LockPCs => s[i].obj = Top.obj
        /\ \A i \in (k + 1)..Len(new) : new[i].pc \in LockPCs => new[i].obj = Top.obj
    BY <1>1, <1>2
  <2> QED
    BY <1>3, <2>1, OtherQueues DEF StackInv
<1>6. locked'[Top.obj] = TRUE /\ \A q \in Queue \ {Top.obj} : locked'[q] = locked[q]
  BY <1>3 DEF TypeOK
<1> QED
  BY <1>4, <1>5, <1>6

\* The frame that holds a queue's lock is replaced by one that holds it.
LEMMA PassesLock ==
  ASSUME TypeOK, StackInv, stack[current] # <<>>,
         NEW new, Replaces(new, Len(stack[current]) - 1),
         Top.pc \in LockPCs, Len(stack[current]) <= Len(new),
         new[Len(stack[current])].pc \in LockPCs, new[Len(stack[current])].obj = Top.obj,
         \A i \in (Len(stack[current]) + 1)..Len(new) : new[i].pc \notin LockPCs,
         UNCHANGED locked
  PROVE  \A q \in Queue : HeldOnce(stack', LockPCs, {q}, locked'[q])
<1> DEFINE s == stack[current]
           k == Len(s) - 1
<1>1. /\ Len(s) \in Nat \ {0} /\ Top = s[Len(s)] /\ Top \in Frame /\ k \in Nat
      /\ k <= Len(s) /\ \A i \in (k + 1)..Len(s) : i = Len(s)
  BY TopType
<1>2. /\ stack \in Stacks /\ current \in Entity /\ new \in Seq(Frame) /\ k <= Len(new)
      /\ \A i \in 1..k : new[i] = s[i]
      /\ stack' = [stack EXCEPT ![current] = new]
      /\ Len(new) \in Nat
  BY LenProperties DEF Replaces, TypeOK, StackOK, Stacks
<1>3. Top.obj \in Queue
  BY <1>1, FrameSorts DEF LockPCs, QueuePCs
<1>4. HeldOnce(stack', LockPCs, {Top.obj}, locked[Top.obj])
  <2>1. HeldOnce(stack, LockPCs, {Top.obj}, locked[Top.obj])
    BY <1>3 DEF StackInv, LocksExclude
  <2>2. /\ Len(s) \in (k + 1)..Len(s) /\ In(s[Len(s)], LockPCs, {Top.obj})
        /\ Len(s) \in (k + 1)..Len(new) /\ In(new[Len(s)], LockPCs, {Top.obj})
        /\ \A i \in (k + 1)..Len(new) : In(new[i], LockPCs, {Top.obj}) => i = Len(s)
    BY <1>1, <1>2 DEF In
  <2> HIDE DEF k
  <2>3. HeldOnce([stack EXCEPT ![current] = new], LockPCs, {Top.obj}, locked[Top.obj])
    BY <1>1, <1>2, <2>1, <2>2, HeldPassed
  <2> QED
    BY <1>2, <2>3
<1>5. ASSUME NEW q \in Queue \ {Top.obj} PROVE HeldOnce(stack', LockPCs, {q}, locked[q])
  <2>1. /\ \A i \in (k + 1)..Len(s) : s[i].pc \in LockPCs => s[i].obj = Top.obj
        /\ \A i \in (k + 1)..Len(new) : new[i].pc \in LockPCs => new[i].obj = Top.obj
    BY <1>1, <1>2
  <2> QED
    BY <1>3, <2>1, OtherQueues DEF StackInv
<1> QED
  BY <1>4, <1>5

\* The frame that holds a queue's lock goes, and the lock is released.
LEMMA ReleasesLock ==
  ASSUME TypeOK, StackInv, stack[current] # <<>>,
         NEW new, Replaces(new, Len(stack[current]) - 1),
         Top.pc \in LockPCs,
         \A i \in Len(stack[current])..Len(new) : new[i].pc \notin LockPCs,
         locked' = [locked EXCEPT ![Top.obj] = FALSE]
  PROVE  \A q \in Queue : HeldOnce(stack', LockPCs, {q}, locked'[q])
<1> DEFINE s == stack[current]
           k == Len(s) - 1
<1>1. /\ Len(s) \in Nat \ {0} /\ Top = s[Len(s)] /\ Top \in Frame /\ k \in Nat
      /\ k <= Len(s) /\ \A i \in (k + 1)..Len(s) : i = Len(s)
  BY TopType
<1>2. /\ stack \in Stacks /\ current \in Entity /\ new \in Seq(Frame) /\ k <= Len(new)
      /\ \A i \in 1..k : new[i] = s[i]
      /\ stack' = [stack EXCEPT ![current] = new]
      /\ Len(new) \in Nat
  BY LenProperties DEF Replaces, TypeOK, StackOK, Stacks
<1>3. Top.obj \in Queue
  BY <1>1, FrameSorts DEF LockPCs, QueuePCs
<1>4. HeldOnce(stack', LockPCs, {Top.obj}, FALSE)
  <2>1. HeldOnce(stack, LockPCs, {Top.obj}, locked[Top.obj])
    BY <1>3 DEF StackInv, LocksExclude
  <2>2. /\ Len(s) \in (k + 1)..Len(s) /\ In(s[Len(s)], LockPCs, {Top.obj})
        /\ \A i \in (k + 1)..Len(new) : ~In(new[i], LockPCs, {Top.obj})
    BY <1>1, <1>2 DEF In
  <2> HIDE DEF k
  <2>3. HeldOnce([stack EXCEPT ![current] = new], LockPCs, {Top.obj}, FALSE)
    BY <1>1, <1>2, <2>1, <2>2, HeldReleased
  <2> QED
    BY <1>2, <2>3
<1>5. ASSUME NEW q \in Queue \ {Top.obj} PROVE HeldOnce(stack', LockPCs, {q}, locked[q])
  <2>1. /\ \A i \in (k + 1)..Len(s) : s[i].pc \in LockPCs => s[i].obj = Top.obj
        /\ \A i \in (k + 1)..Len(new) : new[i].pc \in LockPCs => new[i].obj = Top.obj
    BY <1>1, <1>2
  <2> QED
    BY <1>3, <2>1, OtherQueues DEF StackInv
<1>6. locked'[Top.obj] = FALSE /\ \A q \in Queue \ {Top.obj} : locked'[q] = locked[q]
  BY <1>3 DEF TypeOK
<1> QED
  BY <1>4, <1>5, <1>6

\* The heap mutex across a step that replaces the top frame.
LEMMA KeepsHeap ==
  ASSUME TypeOK, StackInv, stack[current] # <<>>,
         NEW new, Replaces(new, Len(stack[current]) - 1),
         Top.pc \notin HeapPCs,
         \A i \in Len(stack[current])..Len(new) : new[i].pc \notin HeapPCs,
         UNCHANGED heap
  PROVE  HeldOnce(stack', HeapPCs, Object, heap')
<1> DEFINE s == stack[current]
           k == Len(s) - 1
<1>1. /\ Len(s) \in Nat \ {0} /\ Top = s[Len(s)] /\ Top \in Frame /\ k \in Nat
      /\ k <= Len(s) /\ \A i \in (k + 1)..Len(s) : i = Len(s)
  BY TopType
<1>2. /\ stack \in Stacks /\ current \in Entity /\ new \in Seq(Frame) /\ k <= Len(new)
      /\ \A i \in 1..k : new[i] = s[i]
      /\ stack' = [stack EXCEPT ![current] = new]
      /\ Len(new) \in Nat
  BY LenProperties DEF Replaces, TypeOK, StackOK, Stacks
<1>3. HeldOnce(stack, HeapPCs, Object, heap)
  BY DEF StackInv, LocksExclude
<1>4. /\ \A i \in (k + 1)..Len(s) : ~In(s[i], HeapPCs, Object)
      /\ \A i \in (k + 1)..Len(new) : ~In(new[i], HeapPCs, Object)
  BY <1>1, <1>2 DEF In
<1> HIDE DEF k
<1>5. HeldOnce([stack EXCEPT ![current] = new], HeapPCs, Object, heap)
  BY <1>1, <1>2, <1>3, <1>4, HeldUnchanged
<1> QED
  BY <1>2, <1>5

\* A step that takes the heap mutex makes one holder.
LEMMA TakesHeap ==
  ASSUME TypeOK, StackInv, stack[current] # <<>>,
         NEW new, Replaces(new, Len(stack[current]) - 1),
         Len(new) = Len(stack[current]),
         new[Len(stack[current])].pc \in HeapPCs,
         ~heap, heap' = TRUE
  PROVE  HeldOnce(stack', HeapPCs, Object, heap')
<1> DEFINE s == stack[current]
           k == Len(s) - 1
<1>1. /\ Len(s) \in Nat \ {0} /\ Top = s[Len(s)] /\ Top \in Frame /\ k \in Nat
      /\ k <= Len(s) /\ \A i \in (k + 1)..Len(s) : i = Len(s)
  BY TopType
<1>2. /\ stack \in Stacks /\ current \in Entity /\ new \in Seq(Frame) /\ k <= Len(new)
      /\ \A i \in 1..k : new[i] = s[i]
      /\ stack' = [stack EXCEPT ![current] = new]
      /\ Len(new) \in Nat
  BY LenProperties DEF Replaces, TypeOK, StackOK, Stacks
<1>3. HeldOnce(stack, HeapPCs, Object, FALSE)
  BY DEF StackInv, LocksExclude, HeldOnce
<1>4. /\ Len(s) \in (k + 1)..Len(new) /\ In(new[Len(s)], HeapPCs, Object)
      /\ \A i \in (k + 1)..Len(new) : In(new[i], HeapPCs, Object) => i = Len(s)
  <2>1. new[Len(s)] \in Frame
    BY <1>1, <1>2, ElementOfSeq
  <2> QED
    BY <1>1, <1>2, <2>1, FrameSorts DEF In
<1> HIDE DEF k
<1>5. HeldOnce([stack EXCEPT ![current] = new], HeapPCs, Object, TRUE)
  BY <1>1, <1>2, <1>3, <1>4, HeldAcquired
<1> QED
  BY <1>2, <1>5

\* A step that releases it removes the holder.
LEMMA ReleasesHeap ==
  ASSUME TypeOK, StackInv, stack[current] # <<>>,
         NEW new, Replaces(new, Len(stack[current]) - 1),
         Top.pc \in HeapPCs,
         \A i \in Len(stack[current])..Len(new) : new[i].pc \notin HeapPCs,
         heap' = FALSE
  PROVE  HeldOnce(stack', HeapPCs, Object, heap')
<1> DEFINE s == stack[current]
           k == Len(s) - 1
<1>1. /\ Len(s) \in Nat \ {0} /\ Top = s[Len(s)] /\ Top \in Frame /\ k \in Nat
      /\ k <= Len(s) /\ \A i \in (k + 1)..Len(s) : i = Len(s)
  BY TopType
<1>2. /\ stack \in Stacks /\ current \in Entity /\ new \in Seq(Frame) /\ k <= Len(new)
      /\ \A i \in 1..k : new[i] = s[i]
      /\ stack' = [stack EXCEPT ![current] = new]
      /\ Len(new) \in Nat
  BY LenProperties DEF Replaces, TypeOK, StackOK, Stacks
<1>3. HeldOnce(stack, HeapPCs, Object, heap)
  BY DEF StackInv, LocksExclude
<1>4. /\ Len(s) \in (k + 1)..Len(s) /\ In(s[Len(s)], HeapPCs, Object)
      /\ \A i \in (k + 1)..Len(new) : ~In(new[i], HeapPCs, Object)
  BY <1>1, <1>2, FrameSorts DEF In
<1> HIDE DEF k
<1>5. HeldOnce([stack EXCEPT ![current] = new], HeapPCs, Object, FALSE)
  BY <1>1, <1>2, <1>3, <1>4, HeldReleased
<1> QED
  BY <1>2, <1>5

=============================================================================
