------------------------------- MODULE Screen -------------------------------
(* Output to the consoles (drivers/console/virtual-console.cpp, drivers/     *)
(* video/vga-console.cpp).  The console on screen writes into video memory,  *)
(* the others into buffers of their own; switching consoles, which happens   *)
(* in the keyboard interrupt, copies the contents and exchanges the          *)
(* pointers.  A thread can be anywhere in VirtualConsole::write then.        *)
EXTENDS Integers, Sequences

CONSTANTS
  Console,        \* the virtual consoles
  First,          \* the console that is on screen after boot
  Width, Height,  \* VirtualConsole::_width and _height
  Texts,          \* what is passed to one call of write
  Vram,           \* the video memory
  MaxWrites       \* bound: calls of write and pwrite

Cells == 0 .. Width * Height - 1
Area == Console \cup {Vram}

ASSUME ScreenAssumption ==
  /\ Width \in Nat \ {0} /\ Height \in Nat \ {0} /\ Width * Height < 65536
  /\ First \in Console /\ Vram \notin Console

VARIABLES
  mem,        \* what is in video memory and in the consoles' own buffers
  buffer,     \* VirtualConsole::_buffer
  ucb,        \* VirtualConsole::_ucb is set
  pos,        \* VirtualConsole::_current_pos
  current,    \* PhysicalConsole::_current_vc
  backup,     \* VGAConsoleDevice::_backup_buffer
  oldVc,      \* VGAConsoleDevice::_old_vc
  cursor,     \* the position in the cursor registers
  pc,         \* where the thread that writes to a console is
  text,       \* the characters it still has to write
  attr,       \* its colour
  escape,     \* state = 1: the next character is a colour
  reg,        \* the value of _buffer it works with
  moved,      \* how far scroll_one_line has copied
  shown,      \* history: what a console should show
  disturbed,  \* history: consoles exchanged during a write
  writes      \* calls made

screen == <<current, backup, oldVc, cursor>>
call == <<text, attr, escape, moved>>
vars == <<mem, buffer, ucb, pos, screen, pc, call, reg, shown, disturbed, writes>>

-----------------------------------------------------------------------------
(* One character.                                                            *)

Light == "light"                          \* 0x0700
Cell(a, c) == [attr |-> a, glyph |-> c]
Blank == Cell(Light, "nul")

\* _current_pos after a character; 16 bits.
Advance(p, c) ==
  CASE c = "nl" -> p + Width - (p % Width)
    [] c = "cr" -> p - (p % Width)
    [] c = "esc" -> p
    [] c = "bs" -> (p - 1) % 65536
    [] OTHER -> p + 1

Controls == {"nl", "cr", "esc", "bs"}

\* The contents after a character; a store outside the buffer hits other memory.
Store(cells, p, a, c) ==
  [i \in Cells |-> IF c = "bs" /\ i = p - 1 THEN Cell(a, " ")
                   ELSE IF c \notin Controls /\ i = p THEN Cell(a, c)
                   ELSE cells[i]]

\* Mutant of Scrolls: one cell too late.
ScrollsLate(p) == p > Width * Height

Scrolls(p) == p >= Width * Height
LastLine == Width * (Height - 1)

ClearLast(cells) == [i \in Cells |-> IF i >= LastLine THEN Blank ELSE cells[i]]

Scrolled(cells) ==
  [i \in Cells |-> IF i >= LastLine THEN Blank ELSE cells[i + Width]]

-----------------------------------------------------------------------------
(* VirtualConsole::write, by one thread per console at a time.  _buffer is   *)
(* not volatile: wherever it is used, the compiler may use the value it      *)
(* loaded before instead.                                                    *)

Pointer(v) == {reg[v], buffer[v]}

Write(v, txt) ==
  /\ pc[v] = "idle"
  /\ writes < MaxWrites
  /\ writes' = writes + 1
  /\ pc' = [pc EXCEPT ![v] = "loop"]
  /\ text' = [text EXCEPT ![v] = txt]
  /\ attr' = [attr EXCEPT ![v] = Light]
  /\ escape' = [escape EXCEPT ![v] = FALSE]
  /\ reg' = [reg EXCEPT ![v] = buffer[v]]
  /\ UNCHANGED <<mem, buffer, ucb, pos, screen, moved, shown, disturbed>>

\* The character after an escape is a colour.
WriteColour(v) ==
  /\ pc[v] = "loop"
  /\ text[v] # <<>>
  /\ escape[v]
  /\ attr' = [attr EXCEPT ![v] = Head(text[v])]
  /\ escape' = [escape EXCEPT ![v] = FALSE]
  /\ text' = [text EXCEPT ![v] = Tail(@)]
  /\ UNCHANGED <<mem, buffer, ucb, pos, screen, pc, moved, reg, shown, disturbed, writes>>

WriteChar(v) ==
  LET c == Head(text[v])
      p == Advance(pos[v], c)
      cells == Store(shown[v], pos[v], attr[v], c)
  IN  /\ pc[v] = "loop"
      /\ text[v] # <<>>
      /\ ~escape[v]
      /\ \E b \in Pointer(v) :
           /\ reg' = [reg EXCEPT ![v] = b]
           /\ mem' = [mem EXCEPT ![b] = Store(@, pos[v], attr[v], c)]
      /\ pos' = [pos EXCEPT ![v] = p]
      /\ escape' = [escape EXCEPT ![v] = (c = "esc")]
      /\ text' = [text EXCEPT ![v] = Tail(@)]
      /\ pc' = [pc EXCEPT ![v] = IF Scrolls(p) THEN "move" ELSE "loop"]
      /\ moved' = [moved EXCEPT ![v] = 0]
      /\ shown' = [shown EXCEPT ![v] = IF Scrolls(p) THEN Scrolled(cells) ELSE cells]
      /\ UNCHANGED <<buffer, ucb, screen, attr, disturbed, writes>>

\* scroll_one_line: memcpy, with the pointer it was called with...
ScrollMove(v) ==
  LET i == moved[v] IN
  /\ pc[v] = "move"
  /\ i < LastLine
  /\ \E b \in IF i = 0 THEN Pointer(v) ELSE {reg[v]} :
       /\ reg' = [reg EXCEPT ![v] = b]
       /\ mem' = [mem EXCEPT ![b] = [@ EXCEPT ![i] = mem[b][i + Width]]]
  /\ moved' = [moved EXCEPT ![v] = @ + 1]
  /\ UNCHANGED <<buffer, ucb, pos, screen, pc, text, attr, escape, shown, disturbed, writes>>

\* ... and the last line, after which the position is set.
ScrollClear(v) ==
  /\ pc[v] = "move"
  /\ moved[v] = LastLine
  /\ reg' = [reg EXCEPT ![v] = buffer[v]]
  /\ mem' = [mem EXCEPT ![buffer[v]] = ClearLast(@)]
  /\ pos' = [pos EXCEPT ![v] = LastLine]
  /\ pc' = [pc EXCEPT ![v] = "loop"]
  /\ UNCHANGED <<buffer, ucb, screen, call, shown, disturbed, writes>>

\* Mutant of AfterWrite: no callback.
AfterWriteIdle(v) == "idle"

\* The callback is called if there is one.
AfterWrite(v) == IF ucb[v] THEN "update" ELSE "idle"

\* The test of _ucb, and the call.
WriteDone(v) ==
  /\ pc[v] = "loop"
  /\ text[v] = <<>>
  /\ pc' = [pc EXCEPT ![v] = AfterWrite(v)]
  /\ UNCHANGED <<mem, buffer, ucb, pos, screen, call, reg, shown, disturbed, writes>>

VCUpdateCallback(v) ==
  /\ pc[v] = "update"
  /\ cursor' = pos[v]
  /\ pc' = [pc EXCEPT ![v] = "idle"]
  /\ UNCHANGED <<mem, buffer, ucb, pos, current, backup, oldVc, call, reg, shown, disturbed, writes>>

\* VirtualConsoleFile::pwrite of two bytes: the load of _buffer...
Pwrite(v) ==
  /\ pc[v] = "idle"
  /\ writes < MaxWrites
  /\ writes' = writes + 1
  /\ reg' = [reg EXCEPT ![v] = buffer[v]]
  /\ pc' = [pc EXCEPT ![v] = "poke"]
  /\ UNCHANGED <<mem, buffer, ucb, pos, screen, call, shown, disturbed>>

\* ... and the store.
PwriteStore(v, offset) ==
  LET Poked(cells) == [cells EXCEPT ![offset] = Cell(Light, "*")]
  IN  /\ pc[v] = "poke"
      /\ mem' = [mem EXCEPT ![reg[v]] = Poked(@)]
      /\ shown' = [shown EXCEPT ![v] = Poked(@)]
      /\ pc' = [pc EXCEPT ![v] = "idle"]
      /\ UNCHANGED <<buffer, ucb, pos, screen, call, reg, disturbed, writes>>

-----------------------------------------------------------------------------
(* VGAConsoleDevice::virtual_console_changed.                                *)

\* Mutant of Restored: the old console's contents are not copied back.
RestoredNot(area) == mem[area]

\* What the buffers hold once the old console has got its own one back...
Restored(area) == IF area = backup THEN mem[Vram] ELSE mem[area]

\* A thread is about to store through the pointer of one of these consoles.
Touches(w, S) == pc[w] # "idle" /\ (w \in S \/ reg[w] = Vram)

\* Mutant of Given: the old console does not get its buffer back.
GivenNot == buffer

\* ... and the pointers.
Given == [buffer EXCEPT ![oldVc] = backup]

\* PhysicalConsole::set_current_vc, in the interrupt handler.
SetCurrentVc(v) ==
  LET saved == [a \in Area |-> Restored(a)]
  IN  /\ current' = v
      /\ backup' = Given[v]
      /\ buffer' = [Given EXCEPT ![v] = Vram]
      /\ mem' = [saved EXCEPT ![Vram] = saved[Given[v]]]
      /\ ucb' = [[ucb EXCEPT ![oldVc] = FALSE] EXCEPT ![v] = TRUE]
      /\ oldVc' = v
      /\ cursor' = pos[v]
      /\ disturbed' = IF v # oldVc /\ \E w \in Console : Touches(w, {v, oldVc})
                      THEN disturbed \cup {v, oldVc} ELSE disturbed
      /\ UNCHANGED <<pos, pc, call, reg, shown, writes>>

-----------------------------------------------------------------------------

Empty == [i \in Cells |-> Blank]

\* activate_console has put the first console on screen.
Init ==
  /\ mem = [a \in Area |-> Empty]
  /\ buffer = [v \in Console |-> IF v = First THEN Vram ELSE v]
  /\ ucb = [v \in Console |-> v = First]
  /\ pos = [v \in Console |-> 0]
  /\ current = First /\ backup = First /\ oldVc = First
  /\ cursor = 0
  /\ pc = [v \in Console |-> "idle"]
  /\ text = [v \in Console |-> <<>>]
  /\ attr = [v \in Console |-> Light]
  /\ escape = [v \in Console |-> FALSE]
  /\ reg = [v \in Console |-> v]
  /\ moved = [v \in Console |-> 0]
  /\ shown = [v \in Console |-> Empty]
  /\ disturbed = {}
  /\ writes = 0

Next ==
  \E v \in Console :
    \/ \E txt \in Texts : Write(v, txt)
    \/ WriteColour(v) \/ WriteChar(v)
    \/ ScrollMove(v) \/ ScrollClear(v)
    \/ WriteDone(v) \/ VCUpdateCallback(v)
    \/ Pwrite(v) \/ \E offset \in Cells : PwriteStore(v, offset)
    \/ SetCurrentVc(v)

Spec == Init /\ [][Next]_vars

-----------------------------------------------------------------------------
(* Properties.                                                               *)

Chars == UNION {{txt[i] : i \in DOMAIN txt} : txt \in Texts}
Contents == [Cells -> [attr : Chars \cup {Light}, glyph : Chars \cup {"nul", " ", "*"}]]

\* VirtualConsole::write leaves its position inside the buffer whenever it is
\* not about to scroll, whatever is written and wherever it is interrupted.
TypeOK ==
  /\ mem \in [Area -> Contents] /\ shown \in [Console -> Contents]
  /\ buffer \in [Console -> Area] /\ reg \in [Console -> Area]
  /\ ucb \in [Console -> BOOLEAN] /\ escape \in [Console -> BOOLEAN]
  /\ \A v \in Console : pos[v] \in (IF pc[v] = "move" THEN 0 .. 65535 ELSE Cells)
  /\ current \in Console /\ backup \in Area /\ oldVc \in Console
  /\ cursor \in 0 .. 65535
  /\ pc \in [Console -> {"idle", "loop", "move", "update", "poke"}]
  /\ moved \in [Console -> 0 .. LastLine]
  /\ disturbed \subseteq Console

\* After any series of switches the console on screen, and no other, has its
\* _buffer in video memory and a callback for the cursor, the others have their
\* own buffers, and the one kept in _backup_buffer is its own.
BuffersApart ==
  /\ oldVc = current /\ backup = current
  /\ \A v \in Console : buffer[v] = (IF v = current THEN Vram ELSE v)
  /\ \A v \in Console : ucb[v] <=> v = current

\* Switching keeps what every console shows: unless consoles were exchanged in
\* the middle of a write to one of them, the cells behind _buffer are those
\* that its writes alone produce.
ContentsKept ==
  \A v \in Console :
    v \notin disturbed /\ pc[v] # "move" => mem[buffer[v]] = shown[v]

\* With no write under way on the console on screen, the cursor is at its
\* position; only an exchange between the test and the call of _ucb prevents it.
CursorAgrees ==
  pc[current] = "idle" /\ current \notin disturbed => cursor = pos[current]
=============================================================================
