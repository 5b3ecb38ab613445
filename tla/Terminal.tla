------------------------------ MODULE Terminal ------------------------------
(* Keyboard input (drivers/input/keyboard.cpp, drivers/console, drivers/     *)
(* terminal/terminal.cpp): the keyboard interrupt turns a scancode into a    *)
(* key, the physical console hands it to the virtual console on screen, and  *)
(* that one puts a character into the ring buffer of its terminal and        *)
(* triggers the terminal's event.  Threads that read the terminal take       *)
(* characters out of the ring and wait for the event while it is empty.      *)
(* Interrupts arrive between any two steps of a reader.                      *)
EXTENDS Integers, Sequences, FiniteSets, SequencesExt

CONSTANTS
  Reader,       \* threads that read a terminal
  TtyOf,        \* the terminal a reader has open: 0 or 1
  RingSize,     \* ARRAY_SIZE(_read_buffer)
  Scancodes,    \* the bytes the keyboard sends
  BeyondMap,    \* the key found in memory behind the end of scancode_map
  MaxTyped,     \* bound: characters typed, on both terminals
  Sizes         \* the sizes that read is called with

Tty == {0, 1}
Ring == 0 .. RingSize - 1

ASSUME RingAssumption == RingSize \in Nat \ {0}
ASSUME ReaderAssumption == TtyOf \in [Reader -> Tty]
ASSUME ScancodeAssumption == Scancodes \subseteq 0 .. 255 /\ BeyondMap \in 0 .. 70
ASSUME SizeAssumption == Sizes \subseteq Nat

VARIABLES
  alt,       \* PhysicalConsole::_alt_pressed
  current,   \* PhysicalConsole::_current_vc
  shift,     \* VirtualConsole::_current_mod_mask, its Shift bit
  ring,      \* Terminal::_read_buffer
  head,      \* Terminal::_read_buffer_head
  tail,      \* Terminal::_read_buffer_tail
  waiters,   \* the readers in the wait queue of _read_buffer_event
  handler,   \* the terminals whose event the interrupt handler has to trigger
  pc,        \* where a reader is in Terminal::read
  h,         \* the head a reader works with
  want,      \* bytes a reader still has to get
  elem,      \* the character it took out of the ring
  typed,     \* history: the characters appended to a terminal
  got,       \* history: the characters its readers returned
  overrun,   \* history: terminals that ever held RingSize unread characters
  late       \* history: readers triggered between their test and their sleep

input == <<alt, current, shift>>
reading == <<pc, h, want, elem>>
vars == <<input, ring, head, tail, waiters, handler, reading, typed, got, overrun, late>>

-----------------------------------------------------------------------------
(* Keys.                                                                     *)

MapSize == 69

\* scancode_map, as far as keys are told apart: modifiers, the keys that switch
\* consoles, keys with a character for each state of Shift, keys with one
\* character, and keys without.
Shifted == (2 .. 13) \cup (16 .. 25) \cup (30 .. 38) \cup (43 .. 50) \cup {52, 53}
Plain == {14, 28, 57}

Key(k) ==
  [kind |-> CASE k \in {42, 54} -> "shift"
              [] k = 56 -> "alt"
              [] k = 59 -> "F1"
              [] k = 60 -> "F2"
              [] k \in Shifted -> "shifted"
              [] k \in Plain -> "plain"
              [] OTHER -> "other",
   code |-> k]

UnknownKey == MapSize + 1

\* The test lets the index behind the last entry pass.
ScancodeToKey(scancode) ==
  LET k == scancode % 128 IN
  Key(IF k > MapSize THEN UnknownKey ELSE IF k = MapSize THEN BeyondMap ELSE k)

\* The character a console makes of a key.
Character(key, upper) == [code |-> key.code, upper |-> upper /\ key.kind = "shifted"]

Chars == [code : Shifted \cup Plain, upper : BOOLEAN]

-----------------------------------------------------------------------------
(* The interrupt handler.                                                    *)

\* Mutants of NextTail: no remainder, or that of a ring that is one shorter.
NextIndexUnbounded(i) == i + 1
NextIndexShort(i) == (i + 1) % (RingSize - 1)

\* The successor of _read_buffer_tail.
NextTail(i) == (i + 1) % RingSize

Unread(t) == (tail[t] - head[t]) % RingSize

\* Terminal::append_to_read_buffer up to the trigger.
AppendToReadBuffer(t, c) ==
  /\ Len(typed[0]) + Len(typed[1]) < MaxTyped
  /\ ring' = [ring EXCEPT ![t][tail[t]] = c]
  /\ tail' = [tail EXCEPT ![t] = NextTail(@)]
  /\ handler' = {t}
  /\ typed' = [typed EXCEPT ![t] = Append(@, c)]
  /\ overrun' = overrun \cup {u \in {t} : Len(typed[u]) + 1 - Len(got[u]) >= RingSize}
  /\ UNCHANGED <<head, waiters, reading, got, late>>

NoCharacter ==
  UNCHANGED <<ring, head, tail, waiters, handler, reading, typed, got, overrun, late>>

\* VirtualConsole::key_down of the console on screen.
VCKeyDown(key) ==
  \/ /\ key.kind \in {"shifted", "plain"}
     /\ AppendToReadBuffer(current, Character(key, shift[current]))
     /\ UNCHANGED shift
  \/ /\ key.kind = "shift"
     /\ shift' = [shift EXCEPT ![current] = TRUE]
     /\ NoCharacter
  \/ /\ key.kind \notin {"shifted", "plain", "shift"}
     /\ NoCharacter
     /\ UNCHANGED shift

\* PhysicalConsole::key_down.
KeyDown(key) ==
  \/ /\ key.kind \in {"F1", "F2"}
     /\ alt
     /\ current' = IF key.kind = "F1" THEN 0 ELSE 1
     /\ NoCharacter
     /\ UNCHANGED <<alt, shift>>
  \/ /\ ~(key.kind \in {"F1", "F2"} /\ alt)
     /\ alt' = (alt \/ key.kind = "alt")
     /\ VCKeyDown(key)
     /\ UNCHANGED current

\* PhysicalConsole::key_up, and VirtualConsole::key_up of the console on screen.
KeyUp(key) ==
  /\ alt' = (alt /\ key.kind # "alt")
  /\ shift' = [shift EXCEPT ![current] = @ /\ key.kind # "shift"]
  /\ NoCharacter
  /\ UNCHANGED current

\* Keyboard::keyboard_irq_handler with handle_key_event; no other interrupt of
\* the keyboard is delivered before the handler has returned.
KeyboardIrq(scancode) ==
  /\ handler = {}
  /\ IF scancode >= 128 THEN KeyUp(ScancodeToKey(scancode))
                        ELSE KeyDown(ScancodeToKey(scancode))

\* Mutant of Woken: the waiters of the other terminal.
WokenElsewhere(t) == {r \in waiters : TtyOf[r] # t /\ pc[r] = "asleep"}

\* The sleepers whose state WakeQueue::wake changes.
Woken(t) == {r \in waiters : TtyOf[r] = t /\ pc[r] = "asleep"}

\* Event::trigger at the end of append_to_read_buffer.  It may come later than
\* the append, because it yields while a reader holds the lock of the event.
\* Waiters that are not yet asleep are taken out of the queue like the others.
Trigger(t) ==
  /\ t \in handler
  /\ handler' = {}
  /\ waiters' = {r \in waiters : TtyOf[r] # t}
  /\ pc' = [r \in Reader |-> IF r \in Woken(t) THEN "test" ELSE pc[r]]
  /\ late' = late \cup {r \in Reader : TtyOf[r] = t /\ pc[r] \in {"wait", "dozing"}}
  /\ UNCHANGED <<input, ring, head, tail, h, want, elem, typed, got, overrun>>

-----------------------------------------------------------------------------
(* Terminal::read.  Its accesses to head are unsynchronised: between the     *)
(* test, the load and the store the compiler may keep the value it has or    *)
(* load it again, which makes a difference when two readers share a terminal.*)

\* Mutant of HeadOf: the other end of the ring.
HeadOfOther(r) == {tail[TtyOf[r]]}

HeadOf(r) == {h[r], head[TtyOf[r]]}

Read(r, size) ==
  /\ pc[r] = "user"
  /\ size > 0
  /\ pc' = [pc EXCEPT ![r] = "test"]
  /\ want' = [want EXCEPT ![r] = size]
  /\ UNCHANGED <<input, ring, head, tail, waiters, handler, h, elem, typed, got, overrun, late>>

ReadTest(r) ==
  LET t == TtyOf[r] IN
  /\ pc[r] = "test"
  /\ pc' = [pc EXCEPT ![r] = IF head[t] = tail[t] THEN "wait" ELSE "take"]
  /\ h' = [h EXCEPT ![r] = head[t]]
  /\ late' = late \ {r}
  /\ UNCHANGED <<input, ring, head, tail, waiters, handler, want, elem, typed, got, overrun>>

\* Event::wait up to the release of the queue's lock...
ReadWait(r) ==
  /\ pc[r] = "wait"
  /\ waiters' = waiters \cup {r}
  /\ pc' = [pc EXCEPT ![r] = "dozing"]
  /\ UNCHANGED <<input, ring, head, tail, handler, h, want, elem, typed, got, overrun, late>>

\* ... and Thread::sleep.
ReadSleep(r) ==
  /\ pc[r] = "dozing"
  /\ pc' = [pc EXCEPT ![r] = "asleep"]
  /\ UNCHANGED <<input, ring, head, tail, waiters, handler, h, want, elem, typed, got, overrun, late>>

ReadTake(r) ==
  /\ pc[r] = "take"
  /\ \E i \in HeadOf(r) : /\ elem' = [elem EXCEPT ![r] = ring[TtyOf[r]][i]]
                         /\ h' = [h EXCEPT ![r] = i]
  /\ pc' = [pc EXCEPT ![r] = "advance"]
  /\ UNCHANGED <<input, ring, head, tail, waiters, handler, want, typed, got, overrun, late>>

ReadAdvance(r) ==
  LET t == TtyOf[r] IN
  /\ pc[r] = "advance"
  /\ \E i \in HeadOf(r) : head' = [head EXCEPT ![t] = (i + 1) % RingSize]
  /\ got' = [got EXCEPT ![t] = Append(@, elem[r])]
  /\ want' = [want EXCEPT ![r] = @ - 1]
  /\ pc' = [pc EXCEPT ![r] = IF want[r] = 1 THEN "user" ELSE "test"]
  /\ UNCHANGED <<input, ring, tail, waiters, handler, h, elem, typed, overrun, late>>

-----------------------------------------------------------------------------

Blank == [code |-> 57, upper |-> FALSE]

\* The consoles as activate_console leaves them.  The ring's bytes are not
\* initialised; Blank stands for whatever they hold.
Init ==
  /\ alt = FALSE
  /\ current = 0
  /\ shift = [t \in Tty |-> FALSE]
  /\ ring = [t \in Tty |-> [i \in Ring |-> Blank]]
  /\ head = [t \in Tty |-> 0]
  /\ tail = [t \in Tty |-> 0]
  /\ waiters = {}
  /\ handler = {}
  /\ pc = [r \in Reader |-> "user"]
  /\ h = [r \in Reader |-> 0]
  /\ want = [r \in Reader |-> 0]
  /\ elem = [r \in Reader |-> Blank]
  /\ typed = [t \in Tty |-> <<>>]
  /\ got = [t \in Tty |-> <<>>]
  /\ overrun = {}
  /\ late = {}

ReadStep(r) ==
  ReadTest(r) \/ ReadWait(r) \/ ReadSleep(r) \/ ReadTake(r) \/ ReadAdvance(r)

Next ==
  \/ \E scancode \in Scancodes : KeyboardIrq(scancode)
  \/ \E t \in Tty : Trigger(t)
  \/ \E r \in Reader : ReadStep(r) \/ \E size \in Sizes : Read(r, size)

Spec == Init /\ [][Next]_vars

-----------------------------------------------------------------------------
(* Properties.                                                               *)

PCs == {"user", "test", "wait", "dozing", "asleep", "take", "advance"}

\* The indices of append_to_read_buffer and read stay inside the ring, and no
\* other than a character of a key is ever in it.
TypeOK ==
  /\ alt \in BOOLEAN /\ current \in Tty /\ shift \in [Tty -> BOOLEAN]
  /\ ring \in [Tty -> [Ring -> Chars]]
  /\ head \in [Tty -> Ring] /\ tail \in [Tty -> Ring]
  /\ waiters \subseteq Reader /\ handler \subseteq Tty
  /\ pc \in [Reader -> PCs] /\ h \in [Reader -> Ring]
  /\ want \in [Reader -> Nat] /\ elem \in [Reader -> Chars]
  /\ typed \in [Tty -> Seq(Chars)] /\ got \in [Tty -> Seq(Chars)]
  /\ overrun \subseteq Tty /\ late \subseteq Reader

ReadersOf(t) == {r \in Reader : TtyOf[r] = t}
Alone(t) == \A r1, r2 \in ReadersOf(t) : r1 = r2

\* As long as fewer than RingSize characters were unread at any time, the sole
\* reader of a terminal gets what was typed there, all of it and in order: the
\* ring holds the rest, and the one byte read holds in flight is its first.
InOrder ==
  \A t \in Tty : Alone(t) /\ t \notin overrun =>
    /\ typed[t] = got[t] \o [i \in 1 .. Unread(t) |-> ring[t][(head[t] + i - 1) % RingSize]]
    /\ \A r \in ReadersOf(t) :
         pc[r] = "advance" => Unread(t) > 0 /\ elem[r] = ring[t][head[t]]

\* append_to_read_buffer never looks at head: what an overflow loses is a
\* multiple of the whole ring, so a full ring is taken for an empty one.
LossIsWholeRings ==
  \A t \in Tty : Alone(t) =>
    Unread(t) = (Len(typed[t]) - Len(got[t])) % RingSize

\* A reader sleeps although there is input only if the trigger found it between
\* the test of the while loop in Terminal::read and Thread::sleep; the trigger
\* comes after the character is in the ring.
WokenForInput ==
  \A r \in Reader :
    pc[r] = "asleep" /\ Unread(TtyOf[r]) > 0 /\ TtyOf[r] \notin handler => r \in late

\* Interrupt handlers complete, and a runnable reader keeps being scheduled.
FairSpec ==
  /\ Spec
  /\ \A t \in Tty : WF_vars(Trigger(t))
  /\ \A r \in Reader : WF_vars(ReadStep(r))

\* Unless it was late, a reader that has asked for characters takes what is
\* there: until its call returns it does not rest while the ring has input.
InputDelivered ==
  \A r \in Reader :
    want[r] > 0 /\ Unread(TtyOf[r]) > 0
      ~> want[r] = 0 \/ Unread(TtyOf[r]) = 0 \/ r \in late
=============================================================================
