------------------------------- MODULE Threads -------------------------------
(***************************************************************************)
(* The threading core of the InfOS kernel at the granularity of preemption: *)
(* the scheduler (kernel/sched.cpp, kernel/sched-cfs.cpp), the state of     *)
(* threads (kernel/thread.cpp), wait queues and events (util/wakequeue.cpp, *)
(* util/event.cpp), the spinning Mutex (util/lock.cpp) and the thread       *)
(* system calls (kernel/syscall.cpp).                                       *)
(*                                                                          *)
(* InfOS runs on one processor.  Kernel code is interrupted by the timer    *)
(* and by the keyboard whenever interrupts are enabled, and gives up the    *)
(* processor itself with `int $0x80' (a yield).  Every action below is one  *)
(* stretch of code between two points at which another thread can observe   *)
(* or change shared data; code that runs with interrupts disabled and does  *)
(* not yield is one action.                                                 *)
(*                                                                          *)
(* A thread's kernel stack is a sequence of frames, its innermost call      *)
(* last.  A frame names the code about to run (pc) and the arguments.       *)
(***************************************************************************)
EXTENDS Integers, Sequences, SequencesExt

CONSTANTS
  Thread,      \* the threads that can be scheduled
  Idle,        \* Scheduler::_idle_entity: never queued, always runnable
  Event,       \* util::Event objects other than the threads' own
  StartQueue,  \* the run queue when the model starts
  Calls,       \* which of CallKinds the threads issue in this instance
  NoNode,      \* a null list pointer
  MaxCount     \* bound on count and on a wait queue's length (see Bounded)

CallKinds == {"start", "join", "exit", "stop", "wait", "trigger", "keyboard"}

ASSUME ConstantsAssumption ==
  /\ Idle \notin Thread
  /\ Event \cap (Thread \cup {Idle}) = {}
  /\ NoNode \notin Thread \cup Event \cup {Idle}
  /\ StartQueue \in Seq(Thread) /\ StartQueue # <<>>
  /\ Calls \subseteq CallKinds
  /\ MaxCount \in Nat

VARIABLES
  state,     \* SchedulingEntity::_state of every entity
  runqueue,  \* the nodes of CompletelyFairScheduler::runqueue
  count,     \* its _count field
  current,   \* Scheduler::_current, which is also the architecture's current thread
  stack,     \* the kernel stack of every entity
  waiters,   \* WakeQueue::_waiters; a thread names its own _state_changed queue
  locked,    \* WakeQueue::_lock
  heap,      \* ObjectAllocator::_mtx
  isr,       \* an external interrupt is in service: no EOI has been sent
  started,   \* threads on which Thread::start has been called
  aborted,   \* an assertion has failed: the kernel is halted
  torn,      \* history: a run queue operation yielded half-way
  missed     \* history: threads whose wake_up found them RUNNABLE

kvars == <<state, runqueue, count, waiters, locked, heap>>
vars == <<state, runqueue, count, current, stack, waiters, locked, heap, isr,
          started, aborted, torn, missed>>

Entity == Thread \cup {Idle}
Queue == Thread \cup Event
State == {"STOPPED", "SLEEPING", "RUNNABLE"}

SesPCs == {"ses", "add", "add_spin", "remove", "remove_spin", "store"}
QueuePCs == {"wake", "waking", "clear", "sleep", "append", "link"}
OtherPCs == {"yield", "eoi"}

\* obj: the entity or queue worked on; st: the state to set; n: position in
\* the waiters; at: the node whose Next pointer List::append is to fill in.
FrameOf(pcs, objs) ==
  [pc: pcs, obj: objs, st: State, n: Nat \ {0}, at: Thread \cup {NoNode}]

Frame == FrameOf(SesPCs \cup {"join"}, Thread) \cup FrameOf(QueuePCs, Queue)
           \cup FrameOf(OtherPCs, Entity)

F(pc, obj, st) == [pc |-> pc, obj |-> obj, st |-> st, n |-> 1, at |-> NoNode]

SetEntityState(e, s) == F("ses", e, s)
Wake(q) == F("wake", q, "RUNNABLE")
Sleep(q) == F("sleep", q, "SLEEPING")
Yielding(t) == F("yield", t, "RUNNABLE")

-----------------------------------------------------------------------------
(* Stack manipulation: every step of kernel code works on the innermost     *)
(* frame of the current thread.                                             *)

Top == Last(stack[current])
At(pc) == ~aborted /\ stack[current] # <<>> /\ Top.pc = pc

Goto(f) == stack' = [stack EXCEPT ![current] = Append(Front(@), f)]
GotoPC(pc) == Goto([Top EXCEPT !.pc = pc])
Call(f, g) == stack' = [stack EXCEPT ![current] = Front(@) \o <<f, g>>]
Return == stack' = [stack EXCEPT ![current] = Front(@)]
Enter(fs) == stack' = [stack EXCEPT ![current] = @ \o fs]

\* Interrupts are off inside the IRQ-locked list operations and in handlers.
IrqOff(t) == \E i \in 1..Len(stack[t]) :
                stack[t][i].pc \in {"add_spin", "remove_spin", "eoi"}

-----------------------------------------------------------------------------
(* Scheduling.                                                              *)

\* pick_next_entity over a list and its count.  Which of several queued
\* entities has consumed least processor time is left open here (see CFS).
PickNext(list, cnt) ==
  IF cnt = 0 \/ list = <<>> THEN {Idle}
  ELSE IF cnt = 1 THEN {Head(list)}
  ELSE ToSet(list)

\* Scheduler::schedule: List::first and Thread::activate assert.
Schedule(list, cnt) ==
  \/ /\ cnt = 1 /\ list = <<>>
     /\ aborted' = TRUE
     /\ UNCHANGED current
  \/ /\ ~(cnt = 1 /\ list = <<>>)
     /\ \E next \in PickNext(list, cnt) :
          IF next # current /\ state[next] # "RUNNABLE"
            THEN aborted' = TRUE /\ UNCHANGED current
            ELSE current' = next /\ UNCHANGED aborted

NoSwitch == UNCHANGED <<current, aborted>>

-----------------------------------------------------------------------------
(* Scheduler::set_entity_state(entity, state), one action per preemption    *)
(* point.                                                                   *)

\* The state is read once; an unchanged state ends the call.
SesTest ==
  /\ At("ses")
  /\ LET e == Top.obj
         s == Top.st
     IN  \/ /\ state[e] = s
            /\ Return
            /\ missed' = IF s = "RUNNABLE" THEN missed \cup {e} ELSE missed
         \/ /\ state[e] # s
            /\ GotoPC(CASE s = "RUNNABLE" -> "add"
                        [] s # "RUNNABLE" /\ state[e] = "RUNNABLE" -> "remove"
                        [] OTHER -> "store")
            /\ UNCHANGED missed
  /\ NoSwitch
  /\ UNCHANGED <<kvars, isr, started, torn>>

\* add_to_runqueue, interrupts off.  List::append first finds the end of the
\* list, then allocates the node: a contended heap mutex yields in between.
AddToRunqueue ==
  /\ At("add")
  /\ \/ /\ ~heap
        /\ runqueue' = Append(runqueue, Top.obj)
        /\ count' = count + 1
        /\ GotoPC("store")
        /\ NoSwitch
        /\ UNCHANGED torn
     \/ /\ heap
        /\ Goto([Top EXCEPT !.pc = "add_spin",
                   !.at = IF runqueue = <<>> THEN NoNode ELSE Last(runqueue)])
        /\ Schedule(runqueue, count)
        /\ torn' = TRUE
        /\ UNCHANGED <<runqueue, count>>
  /\ UNCHANGED <<state, waiters, locked, heap, isr, started, missed>>

\* What `*slot = new Node()' leaves of the list when slot was found earlier:
\* the nodes up to the remembered one and then the new one.  A remembered
\* node that has been freed since is undefined behaviour: the write is lost
\* with the new node, or it breaks the heap and the kernel halts.
SlotFreed(list, at) == at # NoNode /\ ~Contains(list, at)

Linked(list, at, e) ==
  IF at = NoNode THEN <<e>>
  ELSE IF ~SlotFreed(list, at)
    THEN LET i == CHOOSE j \in 1..Len(list) :
                    list[j] = at /\ \A k \in 1..(j - 1) : list[k] # at
         IN  Append(SubSeq(list, 1, i), e)
    ELSE list

AddSpin ==
  /\ At("add_spin")
  /\ \/ /\ heap
        /\ Schedule(runqueue, count)
        /\ UNCHANGED <<runqueue, count, stack>>
     \/ /\ ~heap
        /\ runqueue' = Linked(runqueue, Top.at, Top.obj)
        /\ count' = count + 1
        /\ GotoPC("store")
        /\ NoSwitch
     \/ /\ ~heap /\ SlotFreed(runqueue, Top.at)
        /\ aborted' = TRUE
        /\ UNCHANGED <<runqueue, count, stack, current>>
  /\ UNCHANGED <<state, waiters, locked, heap, isr, started, torn, missed>>

\* Mutant of RemoveFromRunqueue: List::remove without `_count--'.
RemoveKeepsCount ==
  /\ At("remove")
  /\ ~heap
  /\ runqueue' = RemoveFirst(runqueue, Top.obj)
  /\ GotoPC("store")
  /\ NoSwitch
  /\ UNCHANGED <<state, count, waiters, locked, heap, isr, started, torn, missed>>

\* Mutant of RemoveFromRunqueue: counts down for an element it did not find.
RemoveCountsAbsent ==
  /\ At("remove")
  /\ ~heap
  /\ runqueue' = RemoveFirst(runqueue, Top.obj)
  /\ count' = count - 1
  /\ GotoPC("store")
  /\ NoSwitch
  /\ UNCHANGED <<state, waiters, locked, heap, isr, started, torn, missed>>

\* remove_from_runqueue, interrupts off.  List::remove unlinks the node, then
\* frees it, then decrements the count.
RemoveFromRunqueue ==
  /\ At("remove")
  /\ runqueue' = RemoveFirst(runqueue, Top.obj)
  /\ \/ /\ Contains(runqueue, Top.obj) => ~heap
        /\ count' = IF Contains(runqueue, Top.obj) THEN count - 1 ELSE count
        /\ GotoPC("store")
        /\ NoSwitch
        /\ UNCHANGED torn
     \/ /\ Contains(runqueue, Top.obj) /\ heap
        /\ GotoPC("remove_spin")
        /\ Schedule(runqueue', count)
        /\ torn' = TRUE
        /\ UNCHANGED count
  /\ UNCHANGED <<state, waiters, locked, heap, isr, started, missed>>

RemoveSpin ==
  /\ At("remove_spin")
  /\ \/ /\ heap
        /\ Schedule(runqueue, count)
        /\ UNCHANGED <<count, stack>>
     \/ /\ ~heap
        /\ count' = count - 1
        /\ GotoPC("store")
        /\ NoSwitch
  /\ UNCHANGED <<state, runqueue, waiters, locked, heap, isr, started, torn, missed>>

\* Mutant of StoreState: an entity made runnable is recorded as RUNNING.
StoreRunning ==
  /\ At("store")
  /\ state' = [state EXCEPT ![Top.obj] = IF @ = "SLEEPING" THEN "RUNNING" ELSE Top.st]
  /\ Goto(Wake(Top.obj))
  /\ NoSwitch
  /\ UNCHANGED <<runqueue, count, waiters, locked, heap, isr, started, torn, missed>>

\* The new state is recorded; the call continues with _state_changed.trigger().
StoreState ==
  /\ At("store")
  /\ state' = [state EXCEPT ![Top.obj] = Top.st]
  /\ Goto(Wake(Top.obj))
  /\ NoSwitch
  /\ UNCHANGED <<runqueue, count, waiters, locked, heap, isr, started, torn, missed>>

-----------------------------------------------------------------------------
(* WakeQueue::wake: Mutex::lock spins with a yield; every waiter is woken   *)
(* under the lock, then the list is cleared and the lock released.          *)

\* Mutant of WakeLock: the result of the test-and-set is ignored.
WakeWithoutTest ==
  /\ At("wake")
  /\ locked' = [locked EXCEPT ![Top.obj] = TRUE]
  /\ GotoPC("waking")
  /\ NoSwitch
  /\ UNCHANGED <<state, runqueue, count, waiters, heap, isr, started, torn, missed>>

WakeLock ==
  /\ At("wake")
  /\ \/ /\ locked[Top.obj]
        /\ Schedule(runqueue, count)
        /\ UNCHANGED <<stack, locked>>
     \/ /\ ~locked[Top.obj]
        /\ locked' = [locked EXCEPT ![Top.obj] = TRUE]
        /\ GotoPC("waking")
        /\ NoSwitch
  /\ UNCHANGED <<state, runqueue, count, waiters, heap, isr, started, torn, missed>>

\* Mutant of WakeOne: the iterator is advanced twice.
WakeEveryOther ==
  /\ At("waking")
  /\ Top.n <= Len(waiters[Top.obj])
  /\ Call([Top EXCEPT !.n = @ + 2],
          SetEntityState(waiters[Top.obj][Top.n], "RUNNABLE"))
  /\ NoSwitch
  /\ UNCHANGED <<kvars, isr, started, torn, missed>>

WakeOne ==
  /\ At("waking")
  /\ Top.n <= Len(waiters[Top.obj])
  /\ Call([Top EXCEPT !.n = @ + 1],
          SetEntityState(waiters[Top.obj][Top.n], "RUNNABLE"))
  /\ NoSwitch
  /\ UNCHANGED <<kvars, isr, started, torn, missed>>

\* List::clear frees the nodes, which needs the heap mutex if there are any.
WakeDone ==
  /\ At("waking")
  /\ Top.n > Len(waiters[Top.obj])
  /\ \/ /\ waiters[Top.obj] = <<>>
        /\ locked' = [locked EXCEPT ![Top.obj] = FALSE]
        /\ Return
        /\ NoSwitch
        /\ UNCHANGED heap
     \/ /\ waiters[Top.obj] # <<>> /\ ~heap
        /\ heap' = TRUE
        /\ GotoPC("clear")
        /\ NoSwitch
        /\ UNCHANGED locked
     \/ /\ waiters[Top.obj] # <<>> /\ heap
        /\ Schedule(runqueue, count)
        /\ UNCHANGED <<stack, locked, heap>>
  /\ UNCHANGED <<state, runqueue, count, waiters, isr, started, torn, missed>>

\* Mutant of WakeClear: the list is not cleared.
WakeKeepsWaiters ==
  /\ At("clear")
  /\ heap' = FALSE
  /\ locked' = [locked EXCEPT ![Top.obj] = FALSE]
  /\ Return
  /\ NoSwitch
  /\ UNCHANGED <<state, runqueue, count, waiters, isr, started, torn, missed>>

WakeClear ==
  /\ At("clear")
  /\ heap' = FALSE
  /\ waiters' = [waiters EXCEPT ![Top.obj] = <<>>]
  /\ locked' = [locked EXCEPT ![Top.obj] = FALSE]
  /\ Return
  /\ NoSwitch
  /\ UNCHANGED <<state, runqueue, count, isr, started, torn, missed>>

-----------------------------------------------------------------------------
(* WakeQueue::sleep(Thread::current()): append under the lock, unlock, and   *)
(* only then Thread::sleep, which sets SLEEPING and yields.                 *)

SleepLock ==
  /\ At("sleep")
  /\ \/ /\ locked[Top.obj]
        /\ Schedule(runqueue, count)
        /\ UNCHANGED <<stack, locked>>
     \/ /\ ~locked[Top.obj]
        /\ locked' = [locked EXCEPT ![Top.obj] = TRUE]
        /\ GotoPC("append")
        /\ NoSwitch
  /\ UNCHANGED <<state, runqueue, count, waiters, heap, isr, started, torn, missed>>

\* ObjectAllocator::alloc for the list node takes the heap mutex.
SleepAlloc ==
  /\ At("append")
  /\ \/ /\ heap
        /\ Schedule(runqueue, count)
        /\ UNCHANGED <<stack, heap>>
     \/ /\ ~heap
        /\ heap' = TRUE
        /\ GotoPC("link")
        /\ NoSwitch
  /\ UNCHANGED <<state, runqueue, count, waiters, locked, isr, started, torn, missed>>

\* Mutant of SleepLink: goes to sleep with the queue locked.
SleepKeepsLock ==
  /\ At("link")
  /\ heap' = FALSE
  /\ waiters' = [waiters EXCEPT ![Top.obj] = Append(@, current)]
  /\ Call(Yielding(current), SetEntityState(current, "SLEEPING"))
  /\ missed' = missed \ {current}
  /\ NoSwitch
  /\ UNCHANGED <<state, runqueue, count, locked, isr, started, torn>>

SleepLink ==
  /\ At("link")
  /\ heap' = FALSE
  /\ waiters' = [waiters EXCEPT ![Top.obj] = Append(@, current)]
  /\ locked' = [locked EXCEPT ![Top.obj] = FALSE]
  /\ Call(Yielding(current), SetEntityState(current, "SLEEPING"))
  /\ missed' = missed \ {current}
  /\ NoSwitch
  /\ UNCHANGED <<state, runqueue, count, isr, started, torn>>

\* invoke_kernel_syscall(1) at the end of Thread::sleep and Thread::stop(true).
Yield ==
  /\ At("yield")
  /\ Schedule(runqueue, count)
  /\ Return
  /\ UNCHANGED <<kvars, isr, started, torn, missed>>

\* Stopping threads from outside lets count and the wait queues grow without
\* limit: no thread goes to sleep again once one of them is at the bound.
Bounded == count <= MaxCount /\ \A q \in Queue : Len(waiters[q]) <= MaxCount

\* The loop of sys_join_thread: interrupts are off for the first test only,
\* and are on again before the wait.
JoinTest ==
  /\ At("join")
  /\ \/ state[Top.obj] = "STOPPED" /\ Return
     \/ state[Top.obj] # "STOPPED" /\ Bounded /\ Call(Top, Sleep(Top.obj))
  /\ NoSwitch
  /\ UNCHANGED <<kvars, isr, started, torn, missed>>

-----------------------------------------------------------------------------
(* System calls made by the current thread from user mode.                  *)

InUser == ~aborted /\ Bounded /\ current \in Thread /\ stack[current] = <<>>

\* sys_create_thread ends in Thread::start of the new thread.
CallStart(t) ==
  /\ "start" \in Calls /\ InUser /\ t \notin started
  /\ started' = started \cup {t}
  /\ Enter(<<SetEntityState(t, "RUNNABLE")>>)
  /\ NoSwitch
  /\ UNCHANGED <<kvars, isr, torn, missed>>

\* sys_join_thread.
CallJoin(t) ==
  /\ "join" \in Calls /\ InUser /\ t \in started
  /\ Enter(<<F("join", t, "STOPPED")>>)
  /\ NoSwitch
  /\ UNCHANGED <<kvars, isr, started, torn, missed>>

\* sys_thread_leave: Thread::stop(true) of the current thread.
CallExit ==
  /\ "exit" \in Calls /\ InUser
  /\ Enter(<<Yielding(current), SetEntityState(current, "STOPPED")>>)
  /\ NoSwitch
  /\ UNCHANGED <<kvars, isr, started, torn, missed>>

\* sys_stop_thread: Thread::stop(false) in a process without exception
\* information sets the state and returns, also when it stops its caller.
CallStop(t) ==
  /\ "stop" \in Calls /\ InUser /\ t \in started
  /\ Enter(<<SetEntityState(t, "STOPPED")>>)
  /\ NoSwitch
  /\ UNCHANGED <<kvars, isr, started, torn, missed>>

\* Event::wait and Event::trigger as drivers and processes use them.
CallWait(q) ==
  /\ "wait" \in Calls /\ InUser
  /\ Enter(<<Sleep(q)>>)
  /\ NoSwitch
  /\ UNCHANGED <<kvars, isr, started, torn, missed>>

CallTrigger(q) ==
  /\ "trigger" \in Calls /\ InUser
  /\ Enter(<<Wake(q)>>)
  /\ NoSwitch
  /\ UNCHANGED <<kvars, isr, started, torn, missed>>

-----------------------------------------------------------------------------
(* Interrupts.  Both vectors are in one priority class: neither is          *)
(* delivered before the end-of-interrupt of the one in service.             *)

\* Mutant of Interruptible: a handler in service does not hold back another.
InterruptibleNested == ~aborted /\ ~IrqOff(current)

Interruptible == ~aborted /\ ~isr /\ ~IrqOff(current)

\* lapic_timer_irq_handler: ends in schedule(), then the EOI is sent.
Tick ==
  /\ Interruptible
  /\ Schedule(runqueue, count)
  /\ UNCHANGED <<kvars, stack, isr, started, torn, missed>>

\* keyboard_irq_handler reaches Event::trigger; it runs on the stack of the
\* thread it interrupted.
KeyboardIRQ(q) ==
  /\ "keyboard" \in Calls /\ Interruptible
  /\ isr' = TRUE
  /\ Enter(<<F("eoi", current, "RUNNABLE"), Wake(q)>>)
  /\ NoSwitch
  /\ UNCHANGED <<kvars, started, torn, missed>>

EndOfInterrupt ==
  /\ At("eoi")
  /\ isr' = FALSE
  /\ Return
  /\ NoSwitch
  /\ UNCHANGED <<kvars, started, torn, missed>>

-----------------------------------------------------------------------------
Init ==
  /\ state = [e \in Entity |-> IF e = Idle \/ e \in ToSet(StartQueue)
                                 THEN "RUNNABLE" ELSE "STOPPED"]
  /\ runqueue = StartQueue
  /\ count = Len(StartQueue)
  /\ current = Head(StartQueue)
  /\ stack = [e \in Entity |-> <<>>]
  /\ waiters = [q \in Queue |-> <<>>]
  /\ locked = [q \in Queue |-> FALSE]
  /\ heap = FALSE
  /\ isr = FALSE
  /\ started = ToSet(StartQueue)
  /\ aborted = FALSE
  /\ torn = FALSE
  /\ missed = {}

\* One step of the kernel code the current thread is executing.
KernelStep ==
  \/ SesTest \/ AddToRunqueue \/ AddSpin \/ RemoveFromRunqueue \/ RemoveSpin
  \/ StoreState \/ WakeLock \/ WakeOne \/ WakeDone \/ WakeClear \/ SleepLock \/ SleepAlloc
  \/ SleepLink \/ Yield \/ JoinTest \/ EndOfInterrupt

SystemCall ==
  \/ \E t \in Thread : CallStart(t) \/ CallJoin(t) \/ CallStop(t)
  \/ \E q \in Event : CallWait(q) \/ CallTrigger(q)
  \/ CallExit

Next == KernelStep \/ SystemCall \/ Tick \/ \E q \in Event : KeyboardIRQ(q)

Spec == Init /\ [][Next]_vars

-----------------------------------------------------------------------------
(* Properties.                                                              *)

\* Program points the idle thread, which makes no system calls, never reaches.
WaitPCs == {"sleep", "append", "link", "join"}

\* Every frame works on an object of the right sort.
StackOK ==
  /\ stack \in [Entity -> Seq(Frame)]
  /\ \A i \in 1..Len(stack[Idle]) : stack[Idle][i].pc \notin WaitPCs

\* Types: the lists hold threads only, and the frames' objects fit their points.
TypeOK ==
  /\ StackOK
  /\ state \in [Entity -> State]
  /\ runqueue \in Seq(Thread)
  /\ count \in Int
  /\ current \in Entity
  /\ waiters \in [Queue -> Seq(Thread)]
  /\ locked \in [Queue -> BOOLEAN]
  /\ heap \in BOOLEAN /\ isr \in BOOLEAN
  /\ aborted \in BOOLEAN /\ torn \in BOOLEAN
  /\ started \subseteq Thread /\ missed \subseteq Thread

\* Every frame of every kernel stack, by entity and depth.
Frames == UNION {ToSet(stack[e]) : e \in Entity}

\* Exactly one frame of all stacks stk is at one of pcs for one of objs if
\* held is true, and none otherwise.
In(f, pcs, objs) == f.pc \in pcs /\ f.obj \in objs

HeldOnce(stk, pcs, objs, held) ==
  /\ \A e1, e2 \in Entity : \A i \in 1..Len(stk[e1]), j \in 1..Len(stk[e2]) :
        In(stk[e1][i], pcs, objs) /\ In(stk[e2][j], pcs, objs) => e1 = e2 /\ i = j
  /\ held <=> \E e \in Entity : \E i \in 1..Len(stk[e]) : In(stk[e][i], pcs, objs)

LockPCs == {"waking", "clear", "append", "link"}
HeapPCs == {"clear", "link"}
Object == Entity \cup Queue

\* WakeQueue::_lock (a Mutex taken by wake and by sleep) and the heap's mutex
\* are held by exactly one activation while they are locked, on whatever
\* stacks the holders are suspended, and by none while they are not.
LocksExclude ==
  /\ \A q \in Queue : HeldOnce(stack, LockPCs, {q}, locked[q])
  /\ HeldOnce(stack, HeapPCs, Object, heap)

\* An interrupt without its end-of-interrupt is one handler on one stack, also
\* when the handler has yielded and other threads have run since.
OneHandler == HeldOnce(stack, {"eoi"}, Object, isr)

\* The entries of a wait queue that the wake in progress has not come to yet.
Pending(q) ==
  {i \in DOMAIN waiters[q] :
     \A f \in Frames : f.pc \in {"waking", "clear"} /\ f.obj = q => f.n <= i}

\* A thread is queued for at most one wake-up: WakeQueue::sleep is not entered
\* again before the entry it left behind has been used up.
WaitsOnce ==
  \A q1, q2 \in Queue : \A i \in Pending(q1), j \in Pending(q2) :
    waiters[q1][i] = waiters[q2][j] => q1 = q2 /\ i = j

\* A set_entity_state on t has decided what to do and not recorded it yet.
Changing(t) ==
  \E f \in Frames : f.obj = t /\ f.pc \in {"add", "add_spin", "remove",
                                            "remove_spin", "store"}

\* Unless the heap mutex made a run queue operation yield, the run queue holds
\* every RUNNABLE thread once and no other, between calls of set_entity_state.
RunQueueAgrees ==
  torn \/ /\ count = Len(runqueue)
          /\ \A i, j \in 1..Len(runqueue) : runqueue[i] = runqueue[j] => i = j
          /\ \A t \in Thread :
               ~Changing(t) => (state[t] = "RUNNABLE" <=> Contains(runqueue, t))

\* List::_count never falls behind the nodes: pick_next_entity does not take a
\* queue with threads in it for an empty one.
CountCovers == count >= Len(runqueue)

\* The only way to sleep where no wake will find the thread is the window of
\* WakeQueue::sleep: the wake-up came between the append and SLEEPING.
SleepersReachable ==
  \A t \in Thread :
    /\ state[t] = "SLEEPING"
    /\ t \notin missed
    => \/ \E q \in Queue : \E i \in Pending(q) : waiters[q][i] = t
       \/ \E f \in Frames : f.obj = t /\ f.st = "RUNNABLE"
                            /\ f.pc \in {"ses", "add", "add_spin", "store"}

\* "This thread can only be activated if it is runnable": no assertion fails.
NoAbort == ~aborted

\* "Stops the thread": a thread that ran from the beginning, and so is not
\* started again, is not made RUNNABLE once it is STOPPED.
StopIsFinal ==
  [][\A t \in ToSet(StartQueue) : state[t] = "STOPPED" => state'[t] # "RUNNABLE"]_vars

-----------------------------------------------------------------------------
(* Liveness.  The processor executes the kernel code of a thread it is given *)
(* again and again, and a thread that stays in the run queue is picked again *)
(* and again: every tick charges the thread it interrupts, so the others      *)
(* come to have the least runtime.                                           *)

Fairness ==
  \A t \in Entity : /\ SF_vars(KernelStep /\ current = t)
                    /\ SF_vars(Tick /\ current' = t /\ ~aborted')

FairSpec == Spec /\ Fairness

\* Unless the kernel halts or a run queue operation is torn, a lock of an event
\* that is taken is released, so no wake or sleep spins for ever.
LocksReleased ==
  <>(aborted \/ torn) \/ \A q \in Event : locked[q] ~> ~locked[q]
=============================================================================
