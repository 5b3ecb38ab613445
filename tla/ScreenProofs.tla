---------------------------- MODULE ScreenProofs ----------------------------
(* For any consoles, of any size, and any texts: the pointers to the screen  *)
(* buffers stay apart, and every console that was not exchanged during a     *)
(* write shows what its own writes produce.                                  *)
(*                                                                           *)
(* ContentsKept is not inductive.  A thread in the middle of a write has to  *)
(* work with the buffer of its own console and of no other (Settled), and    *)
(* while a console scrolls, the part of it that is already copied and the    *)
(* part that is still to be copied are known (Midway).                       *)
EXTENDS Screen, TLAPS

PCs == {"idle", "loop", "move", "update", "poke"}

\* A family of contents.
Filled(m, D) == /\ m = [a \in D |-> m[a]]
                /\ \A a \in D : m[a] = [i \in Cells |-> m[a][i]]

Shape ==
  /\ Filled(mem, Area) /\ Filled(shown, Console)
  /\ buffer \in [Console -> Area] /\ reg \in [Console -> Area]
  /\ ucb \in [Console -> BOOLEAN]
  /\ pc \in [Console -> PCs]
  /\ moved \in [Console -> 0 .. LastLine]
  /\ current \in Console
  /\ disturbed \subseteq Console

RegOwn == \A w \in Console : reg[w] \in {Vram, w}

Settled ==
  \A v \in Console \ disturbed : \A w \in Console :
    pc[w] # "idle" => (reg[w] = buffer[v] <=> w = v)

HalfMoved(cells, target, n) ==
  \A i \in Cells : /\ i < n => cells[i] = target[i]
                   /\ n <= i /\ i < LastLine => cells[i + Width] = target[i]
                   /\ i >= LastLine => target[i] = Blank

Midway ==
  \A v \in Console \ disturbed :
    pc[v] = "move" => HalfMoved(mem[buffer[v]], shown[v], moved[v])

IInv == Shape /\ BuffersApart /\ RegOwn /\ Settled /\ ContentsKept /\ Midway

-----------------------------------------------------------------------------
(* Sizes and pointers.                                                       *)

\* The last line ends where the buffer ends.
LEMMA Sizes == LastLine \in Nat /\ LastLine + Width = Width * Height /\ Width \in Nat \ {0}
  BY ScreenAssumption DEF LastLine

\* No two consoles have the same _buffer.
LEMMA Distinct ==
  ASSUME BuffersApart, NEW v \in Console, NEW w \in Console, buffer[v] = buffer[w]
  PROVE  v = w
  BY ScreenAssumption DEF BuffersApart

\* Where a thread in a write may store is not the buffer of another console
\* that was not exchanged.
LEMMA Elsewhere ==
  ASSUME IInv, NEW v \in Console, pc[v] # "idle", NEW b \in Pointer(v),
         NEW x \in Console \ disturbed, x # v
  PROVE  b # buffer[x] /\ reg[v] # buffer[x]
  BY Distinct DEF IInv, Settled, Pointer

\* A console that was not exchanged is written through its own _buffer.
LEMMA Own ==
  ASSUME IInv, NEW v \in Console \ disturbed, pc[v] # "idle"
  PROVE  reg[v] = buffer[v] /\ \A b \in Pointer(v) : b = buffer[v]
  BY DEF IInv, Settled, Pointer

\* The pointers a thread uses are those of its own console.
LEMMA PointerTypes ==
  ASSUME IInv, NEW v \in Console, NEW b \in Pointer(v)
  PROVE  b \in Area /\ b \in {Vram, v}
  BY DEF IInv, Shape, RegOwn, BuffersApart, Pointer, Area

\* Replacing one member of a family of contents by contents.
LEMMA FillOne ==
  ASSUME NEW D, NEW m, Filled(m, D), NEW a \in D, NEW cells,
         cells = [i \in Cells |-> cells[i]]
  PROVE  Filled([m EXCEPT ![a] = cells], D)
<1> DEFINE n == [m EXCEPT ![a] = cells]
<1>1. m = [c \in D |-> m[c]] /\ \A c \in D : m[c] = [i \in Cells |-> m[c][i]]
  BY DEF Filled
<1>2. n[a] = cells /\ \A c \in D : c # a => n[c] = m[c]
  BY <1>1
<1>3. n = [c \in D |-> n[c]]
  BY <1>1
<1> HIDE DEF n
<1>4. ASSUME NEW c \in D PROVE n[c] = [i \in Cells |-> n[c][i]]
  <2>1. CASE c = a  BY <2>1, <1>2
  <2>2. CASE c # a
    <3>1. n[c] = m[c]  BY <2>2, <1>2
    <3>2. m[c] = [i \in Cells |-> m[c][i]]  BY <1>1
    <3> QED  BY <3>1, <3>2
  <2> QED  BY <2>1, <2>2
<1>5. Filled(n, D)
  BY <1>3, <1>4 DEF Filled
<1> QED  BY <1>5 DEF n

\* A character changes contents to contents.
LEMMA StoreFills ==
  ASSUME NEW cells, NEW p, NEW a, NEW c
  PROVE  Store(cells, p, a, c) = [i \in Cells |-> Store(cells, p, a, c)[i]]
  BY DEF Store

-----------------------------------------------------------------------------
(* Steps that store nothing.                                                 *)

\* A thread goes on with the pointer it has or loads its own.
LEMMA QuietStep ==
  ASSUME IInv, NEW v \in Console, NEW q \in PCs, NEW r \in Area,
         UNCHANGED <<mem, buffer, ucb, current, backup, oldVc, shown, disturbed, moved>>,
         pc' = [pc EXCEPT ![v] = q], reg' = [reg EXCEPT ![v] = r],
         r = buffer[v] \/ (r = reg[v] /\ pc[v] # "idle"),
         pc[v] # "move", q # "move"
  PROVE  IInv'
<1>1. Shape'
  BY DEF IInv, Shape, Filled
<1>2. BuffersApart'
  BY DEF IInv, BuffersApart
<1>3. RegOwn'
  BY DEF IInv, Shape, RegOwn, BuffersApart
<1>4. Settled'
  <2> SUFFICES ASSUME NEW x \in Console \ disturbed, NEW w \in Console, pc'[w] # "idle"
               PROVE  reg'[w] = buffer[x] <=> w = x
    BY DEF Settled
  <2>1. CASE w = v
    <3>1. reg'[w] = r
      BY <2>1 DEF IInv, Shape
    <3>2. CASE r = buffer[v]
      BY <3>1, <3>2, <2>1, Distinct DEF IInv
    <3>3. CASE r = reg[v] /\ pc[v] # "idle"
      BY <3>1, <3>3, <2>1 DEF IInv, Settled
    <3> QED  BY <3>2, <3>3
  <2>2. CASE w # v
    BY <2>2 DEF IInv, Shape, Settled
  <2> QED  BY <2>1, <2>2
<1>5. ContentsKept'
  BY DEF IInv, Shape, ContentsKept
<1>6. Midway'
  BY DEF IInv, Shape, Midway
<1> QED  BY <1>1, <1>2, <1>3, <1>4, <1>5, <1>6 DEF IInv

\* Write, WriteColour, WriteDone, VCUpdateCallback and Pwrite.
LEMMA QuietActions ==
  ASSUME IInv, NEW v \in Console,
         \/ \E txt \in Texts : Write(v, txt)
         \/ WriteColour(v) \/ WriteDone(v) \/ VCUpdateCallback(v) \/ Pwrite(v)
  PROVE  IInv'
<1>1. pc \in [Console -> PCs] /\ reg \in [Console -> Area] /\ buffer[v] \in Area
  BY DEF IInv, Shape
<1>2. pc = [pc EXCEPT ![v] = pc[v]] /\ reg = [reg EXCEPT ![v] = reg[v]] /\ reg[v] \in Area
  BY <1>1
<1>3. ASSUME NEW txt \in Texts, Write(v, txt) PROVE IInv'
  <2>1. /\ UNCHANGED <<mem, buffer, ucb, current, backup, oldVc, shown, disturbed, moved>>
        /\ pc' = [pc EXCEPT ![v] = "loop"] /\ reg' = [reg EXCEPT ![v] = buffer[v]]
        /\ pc[v] # "move"
    BY <1>3 DEF Write, screen
  <2> QED  BY <2>1, <1>1, QuietStep DEF PCs
<1>4. CASE WriteColour(v)
  <2>1. /\ UNCHANGED <<mem, buffer, ucb, current, backup, oldVc, shown, disturbed, moved>>
        /\ UNCHANGED <<pc, reg>> /\ pc[v] = "loop"
    BY <1>4 DEF WriteColour, screen
  <2>2. pc' = [pc EXCEPT ![v] = "loop"] /\ reg' = [reg EXCEPT ![v] = reg[v]]
    BY <2>1, <1>2
  <2> QED  BY <2>1, <2>2, <1>2, QuietStep DEF PCs
<1>5. CASE WriteDone(v)
  <2>1. /\ UNCHANGED <<mem, buffer, ucb, current, backup, oldVc, shown, disturbed, moved, reg>>
        /\ pc' = [pc EXCEPT ![v] = AfterWrite(v)] /\ pc[v] = "loop"
        /\ AfterWrite(v) \in {"update", "idle"}
    BY <1>5 DEF WriteDone, screen, call, AfterWrite
  <2>2. reg' = [reg EXCEPT ![v] = reg[v]]
    BY <2>1, <1>2
  <2> QED  BY <2>1, <2>2, <1>2, QuietStep DEF PCs
<1>6. CASE VCUpdateCallback(v)
  <2>1. /\ UNCHANGED <<mem, buffer, ucb, current, backup, oldVc, shown, disturbed, moved, reg>>
        /\ pc' = [pc EXCEPT ![v] = "idle"] /\ pc[v] = "update"
    BY <1>6 DEF VCUpdateCallback, call
  <2>2. reg' = [reg EXCEPT ![v] = reg[v]]
    BY <2>1, <1>2
  <2> QED  BY <2>1, <2>2, <1>2, QuietStep DEF PCs
<1>7. CASE Pwrite(v)
  <2>1. /\ UNCHANGED <<mem, buffer, ucb, current, backup, oldVc, shown, disturbed, moved>>
        /\ pc' = [pc EXCEPT ![v] = "poke"] /\ reg' = [reg EXCEPT ![v] = buffer[v]]
        /\ pc[v] # "move"
    BY <1>7 DEF Pwrite, screen, call
  <2> QED  BY <2>1, <1>1, QuietStep DEF PCs
<1> QED  BY <1>3, <1>4, <1>5, <1>6, <1>7

-----------------------------------------------------------------------------
(* Steps that store.                                                         *)

\* A thread replaces the contents behind its pointer by cells; the history of
\* its console becomes target.
LEMMA StoreStep ==
  ASSUME IInv, NEW v \in Console, pc[v] # "idle", NEW b \in Pointer(v), NEW q \in PCs,
         NEW m \in 0 .. LastLine,
         NEW cells, cells = [i \in Cells |-> cells[i]],
         NEW target, target = [i \in Cells |-> target[i]],
         mem' = [mem EXCEPT ![b] = cells], shown' = [shown EXCEPT ![v] = target],
         pc' = [pc EXCEPT ![v] = q], reg' = [reg EXCEPT ![v] = b],
         moved' = [moved EXCEPT ![v] = m],
         UNCHANGED <<buffer, ucb, current, backup, oldVc, disturbed>>,
         v \notin disturbed /\ q = "move" => HalfMoved(cells, target, m),
         v \notin disturbed /\ q # "move" => cells = target
  PROVE  IInv'
<1>1. b \in Area /\ b \in {Vram, v}
  BY PointerTypes
<1>2. /\ Filled(mem', Area) /\ mem'[b] = cells
      /\ \A c \in Area : c # b => mem'[c] = mem[c]
  <2>1. Filled(mem, Area)
    BY DEF IInv, Shape
  <2>2. b \in Area /\ cells = [i \in Cells |-> cells[i]]
    BY <1>1
  <2>3. Filled(mem', Area)
    BY <2>1, <2>2, FillOne
  <2>4. DOMAIN mem = Area
    BY <2>1 DEF Filled
  <2> QED  BY <2>2, <2>3, <2>4
<1>3. /\ Filled(shown', Console) /\ shown'[v] = target
      /\ \A c \in Console : c # v => shown'[c] = shown[c]
  <2>1. Filled(shown, Console)
    BY DEF IInv, Shape
  <2>2. target = [i \in Cells |-> target[i]]
    OBVIOUS
  <2>3. Filled(shown', Console)
    BY <2>1, <2>2, FillOne
  <2>4. DOMAIN shown = Console
    BY <2>1 DEF Filled
  <2> QED  BY <2>3, <2>4
<1>4. Shape'
  BY <1>1, <1>2, <1>3 DEF IInv, Shape
<1>5. BuffersApart'
  BY DEF IInv, BuffersApart
<1>6. RegOwn'
  BY <1>1 DEF IInv, Shape, RegOwn
<1>7. /\ pc'[v] = q /\ reg'[v] = b /\ moved'[v] = m
      /\ \A w \in Console : w # v => pc'[w] = pc[w] /\ reg'[w] = reg[w] /\ moved'[w] = moved[w]
  BY DEF IInv, Shape
<1>8. v \notin disturbed => b = buffer[v]
  BY Own
<1>9. \A x \in Console \ disturbed : x # v => b # buffer[x]
  BY Elsewhere
<1>10. \A x \in Console : buffer[x] \in Area /\ buffer'[x] = buffer[x]
  BY DEF IInv, Shape
<1>11. Settled'
  <2> SUFFICES ASSUME NEW x \in Console \ disturbed, NEW w \in Console, pc'[w] # "idle"
               PROVE  reg'[w] = buffer[x] <=> w = x
    BY DEF Settled
  <2>1. CASE w = v
    BY <2>1, <1>7, <1>8, <1>9
  <2>2. CASE w # v
    BY <2>2, <1>7 DEF IInv, Settled
  <2> QED  BY <2>1, <2>2
<1>12. ASSUME NEW x \in Console \ disturbed
       PROVE  /\ pc'[x] # "move" => mem'[buffer[x]] = shown'[x]
              /\ pc'[x] = "move" => HalfMoved(mem'[buffer[x]], shown'[x], moved'[x])
  <2>1. CASE x = v
    <3>1. mem'[buffer[x]] = cells /\ shown'[x] = target /\ pc'[x] = q /\ moved'[x] = m
      BY <2>1, <1>2, <1>3, <1>7, <1>8
    <3>2. /\ q = "move" => HalfMoved(cells, target, m)
          /\ q # "move" => cells = target
      <4>1. v \notin disturbed
        BY <2>1
      <4> QED  BY <4>1
    <3> QED  BY <3>1, <3>2
  <2>2. CASE x # v
    <3>1. /\ mem'[buffer[x]] = mem[buffer[x]] /\ shown'[x] = shown[x]
          /\ pc'[x] = pc[x] /\ moved'[x] = moved[x]
      BY <2>2, <1>2, <1>3, <1>7, <1>9, <1>10
    <3> QED  BY <3>1 DEF IInv, ContentsKept, Midway
  <2> QED  BY <2>1, <2>2
<1>13. ContentsKept'
  BY <1>12, <1>10 DEF ContentsKept
<1>14. Midway'
  BY <1>12, <1>10 DEF Midway
<1> QED  BY <1>4, <1>5, <1>6, <1>11, <1>13, <1>14 DEF IInv

\* A character, with or without the need to scroll.
LEMMA WriteCharStep ==
  ASSUME IInv, NEW v \in Console, WriteChar(v)
  PROVE  IInv'
<1> DEFINE c == Head(text[v])
           p == Advance(pos[v], c)
           put == Store(shown[v], pos[v], attr[v], c)
           target == IF Scrolls(p) THEN Scrolled(put) ELSE put
           q == IF Scrolls(p) THEN "move" ELSE "loop"
<1>1. PICK b \in Pointer(v) :
        /\ reg' = [reg EXCEPT ![v] = b]
        /\ mem' = [mem EXCEPT ![b] = Store(mem[b], pos[v], attr[v], c)]
  BY DEF WriteChar
<1> DEFINE cells == Store(mem[b], pos[v], attr[v], c)
<1>2. /\ shown' = [shown EXCEPT ![v] = target] /\ pc' = [pc EXCEPT ![v] = q]
      /\ moved' = [moved EXCEPT ![v] = 0] /\ pc[v] = "loop"
      /\ UNCHANGED <<buffer, ucb, current, backup, oldVc, disturbed>>
  BY DEF WriteChar, screen
<1>3. cells = [i \in Cells |-> cells[i]] /\ put = [i \in Cells |-> put[i]]
  BY StoreFills
<1>4. target = [i \in Cells |-> target[i]]
  BY <1>3 DEF Scrolled
<1>5. q \in PCs /\ 0 \in 0 .. LastLine
  BY Sizes DEF PCs
<1>6. ASSUME v \notin disturbed
      PROVE  /\ q = "move" => HalfMoved(cells, target, 0)
             /\ q # "move" => cells = target
  <2>1. b = buffer[v] /\ mem[b] = shown[v]
    BY <1>6, <1>2, Own DEF IInv, ContentsKept
  <2>2. cells = put
    BY <2>1
  <2> HIDE DEF put, cells
  <2>3. CASE Scrolls(p)
    <3>1. target = Scrolled(cells) /\ q = "move"
      BY <2>2, <2>3
    <3>2. \A i \in Cells :
            /\ i < LastLine => i + Width \in Cells /\ Scrolled(cells)[i] = cells[i + Width]
            /\ i >= LastLine => Scrolled(cells)[i] = Blank
      BY Sizes DEF Scrolled, Cells
    <3>3. HalfMoved(cells, Scrolled(cells), 0)
      <4>1. \A i \in Cells : ~(i < 0)
        BY DEF Cells
      <4> QED  BY <3>2, <4>1 DEF HalfMoved
    <3> QED  BY <3>1, <3>3
  <2>4. CASE ~Scrolls(p)
    BY <2>4, <2>2
  <2> QED  BY <2>3, <2>4
<1> HIDE DEF cells, target, q
<1> QED  BY <1>1, <1>2, <1>3, <1>4, <1>5, <1>6, StoreStep DEF cells

\* One cell of the copy in scroll_one_line.
LEMMA ScrollMoveStep ==
  ASSUME IInv, NEW v \in Console, ScrollMove(v)
  PROVE  IInv'
<1> DEFINE n == moved[v]
<1>1. pc[v] = "move" /\ n \in 0 .. LastLine /\ n < LastLine
  BY DEF ScrollMove, IInv, Shape
<1>2. PICK b \in Pointer(v) :
        /\ reg' = [reg EXCEPT ![v] = b]
        /\ mem' = [mem EXCEPT ![b] = [mem[b] EXCEPT ![n] = mem[b][n + Width]]]
  BY DEF ScrollMove, Pointer
<1> DEFINE cells == [mem[b] EXCEPT ![n] = mem[b][n + Width]]
<1>3. b \in Area
  BY PointerTypes
<1>4. mem[b] = [i \in Cells |-> mem[b][i]] /\ shown[v] = [i \in Cells |-> shown[v][i]]
  BY <1>3 DEF IInv, Shape, Filled
<1>5. cells = [i \in Cells |-> cells[i]]
  BY <1>4
<1>6. /\ moved' = [moved EXCEPT ![v] = n + 1]
      /\ UNCHANGED <<buffer, ucb, current, backup, oldVc, disturbed, pc, shown>>
  BY DEF ScrollMove, screen
<1>7. shown' = [shown EXCEPT ![v] = shown[v]] /\ pc' = [pc EXCEPT ![v] = "move"]
  BY <1>1, <1>6 DEF IInv, Shape, Filled
<1>8. "move" \in PCs /\ n + 1 \in 0 .. LastLine
  BY <1>1, Sizes DEF PCs
<1>9. ASSUME v \notin disturbed
      PROVE  HalfMoved(cells, shown[v], n + 1)
  <2>1. HalfMoved(mem[b], shown[v], n)
    BY <1>1, <1>9, Own DEF IInv, Midway
  <2>2. n \in Cells /\ n + Width \in Cells
    BY <1>1, Sizes DEF Cells
  <2>3. cells[n] = mem[b][n + Width] /\ \A i \in Cells : i # n => cells[i] = mem[b][i]
    BY <2>2, <1>4
  <2>4. n \in Nat /\ \A i \in Cells : i \in Nat /\ (i < LastLine => i + Width \in Cells)
    BY <1>1, Sizes DEF Cells
  <2> HIDE DEF cells, n
  <2> SUFFICES ASSUME NEW i \in Cells
               PROVE  /\ i < n + 1 => cells[i] = shown[v][i]
                      /\ n + 1 <= i /\ i < LastLine => cells[i + Width] = shown[v][i]
                      /\ i >= LastLine => shown[v][i] = Blank
    BY DEF HalfMoved
  <2>5. /\ i < n => mem[b][i] = shown[v][i]
        /\ n <= i /\ i < LastLine => mem[b][i + Width] = shown[v][i]
        /\ i >= LastLine => shown[v][i] = Blank
    BY <2>1 DEF HalfMoved
  <2>6. LastLine \in Nat /\ Width \in Nat \ {0}
    BY Sizes
  <2>7. CASE i < n
    BY <2>7, <2>5, <2>3, <2>4, <2>6
  <2>8. CASE i = n
    BY <2>8, <2>5, <2>3, <2>4, <2>6, <1>1 DEF n
  <2>9. CASE i > n
    <3>1. i < LastLine => i + Width \in Cells /\ i + Width # n
      BY <2>9, <2>4, <2>6
    <3> QED  BY <3>1, <2>9, <2>5, <2>3, <2>4, <2>6
  <2> QED  BY <2>7, <2>8, <2>9, <2>4
<1> HIDE DEF cells, n
<1> QED  BY <1>1, <1>2, <1>4, <1>5, <1>6, <1>7, <1>8, <1>9, StoreStep DEF cells

\* The last line.
LEMMA ScrollClearStep ==
  ASSUME IInv, NEW v \in Console, ScrollClear(v)
  PROVE  IInv'
<1> DEFINE b == buffer[v]
           cells == ClearLast(mem[b])
<1>1. pc[v] = "move" /\ moved[v] = LastLine /\ b \in Pointer(v) /\ b \in Area
  BY DEF ScrollClear, Pointer, IInv, Shape
<1>2. /\ reg' = [reg EXCEPT ![v] = b] /\ mem' = [mem EXCEPT ![b] = cells]
      /\ pc' = [pc EXCEPT ![v] = "loop"]
      /\ UNCHANGED <<buffer, ucb, current, backup, oldVc, disturbed, shown, moved>>
  BY DEF ScrollClear, screen, call
<1>3. mem[b] = [i \in Cells |-> mem[b][i]] /\ shown[v] = [i \in Cells |-> shown[v][i]]
  BY <1>1 DEF IInv, Shape, Filled
<1>4. cells = [i \in Cells |-> cells[i]]
  BY DEF ClearLast
<1>5. shown' = [shown EXCEPT ![v] = shown[v]] /\ moved' = [moved EXCEPT ![v] = LastLine]
  BY <1>1, <1>2 DEF IInv, Shape, Filled
<1>6. "loop" \in PCs /\ LastLine \in 0 .. LastLine
  BY Sizes DEF PCs
<1>7. ASSUME v \notin disturbed
      PROVE  cells = shown[v]
  <2>1. HalfMoved(mem[b], shown[v], LastLine)
    BY <1>1, <1>7 DEF IInv, Midway
  <2>2. \A i \in Cells : cells[i] = IF i >= LastLine THEN Blank ELSE mem[b][i]
    BY DEF ClearLast
  <2>3. \A i \in Cells : i \in Int
    BY DEF Cells
  <2>4. \A i \in Cells : cells[i] = shown[v][i]
    BY <2>1, <2>2, <2>3, Sizes DEF HalfMoved
  <2> HIDE DEF cells
  <2> QED  BY <2>4, <1>3, <1>4
<1> HIDE DEF cells, b
<1> QED  BY <1>1, <1>2, <1>3, <1>4, <1>5, <1>6, <1>7, StoreStep

\* VirtualConsoleFile::pwrite.
LEMMA PwriteStoreStep ==
  ASSUME IInv, NEW v \in Console, NEW offset \in Cells, PwriteStore(v, offset)
  PROVE  IInv'
<1> DEFINE b == reg[v]
           star == Cell(Light, "*")
           cells == [mem[b] EXCEPT ![offset] = star]
           target == [shown[v] EXCEPT ![offset] = star]
<1>1. pc[v] = "poke" /\ b \in Pointer(v) /\ b \in Area
  BY DEF PwriteStore, Pointer, IInv, Shape
<1>2. /\ mem' = [mem EXCEPT ![b] = cells] /\ shown' = [shown EXCEPT ![v] = target]
      /\ pc' = [pc EXCEPT ![v] = "idle"]
      /\ UNCHANGED <<buffer, ucb, current, backup, oldVc, disturbed, reg, moved>>
  BY DEF PwriteStore, screen, call
<1>3. mem[b] = [i \in Cells |-> mem[b][i]] /\ shown[v] = [i \in Cells |-> shown[v][i]]
  BY <1>1 DEF IInv, Shape, Filled
<1>4. cells = [i \in Cells |-> cells[i]] /\ target = [i \in Cells |-> target[i]]
  BY <1>3
<1>5. /\ reg' = [reg EXCEPT ![v] = b] /\ moved' = [moved EXCEPT ![v] = moved[v]]
      /\ moved[v] \in 0 .. LastLine /\ "idle" \in PCs
  BY <1>2 DEF IInv, Shape, PCs
<1>6. ASSUME v \notin disturbed
      PROVE  cells = target
  BY <1>1, <1>6, Own DEF IInv, ContentsKept
<1> HIDE DEF cells, target, b
<1> DEFINE m == moved[v]
<1>7. /\ pc[v] # "idle" /\ m \in 0 .. LastLine
      /\ moved' = [moved EXCEPT ![v] = m]
      /\ v \notin disturbed /\ "idle" = "move" => HalfMoved(cells, target, m)
      /\ v \notin disturbed /\ "idle" # "move" => cells = target
  BY <1>1, <1>5, <1>6
<1> HIDE DEF m
<1> QED  BY <1>1, <1>2, <1>4, <1>5, <1>7, StoreStep

-----------------------------------------------------------------------------
(* The switch.                                                               *)

\* PhysicalConsole::set_current_vc exchanges contents and pointers together.
LEMMA SetCurrentVcStep ==
  ASSUME IInv, NEW v \in Console, SetCurrentVc(v)
  PROVE  IInv'
<1> DEFINE old == current
           saved == [a \in Area |-> Restored(a)]
<1>1. /\ old \in Console /\ oldVc = old /\ backup = old
      /\ \A x \in Console : buffer[x] = (IF x = old THEN Vram ELSE x)
      /\ \A x \in Console : ucb[x] <=> x = old
      /\ Vram \in Area /\ \A x \in Console : x \in Area /\ x # Vram
  BY ScreenAssumption DEF IInv, Shape, BuffersApart, Area
<1>2. /\ buffer \in [Console -> Area] /\ reg \in [Console -> Area] /\ ucb \in [Console -> BOOLEAN]
      /\ UNCHANGED <<pc, reg, moved, shown>>
  BY DEF IInv, Shape, SetCurrentVc, call
<1>3. Given \in [Console -> Area] /\ \A x \in Console : Given[x] = x
  BY <1>1, <1>2 DEF Given
<1>4. /\ current' = v /\ backup' = v /\ oldVc' = v
      /\ buffer' = [Given EXCEPT ![v] = Vram]
      /\ ucb' = [[ucb EXCEPT ![old] = FALSE] EXCEPT ![v] = TRUE]
      /\ mem' = [saved EXCEPT ![Vram] = saved[v]]
  BY <1>1, <1>3 DEF SetCurrentVc
<1>5. \A x \in Console : buffer'[x] = IF x = v THEN Vram ELSE x
  BY <1>3, <1>4
<1>6. BuffersApart'
  BY <1>1, <1>2, <1>4, <1>5 DEF BuffersApart
<1>7. \A a \in Area : saved[a] = IF a = old THEN mem[Vram] ELSE mem[a]
  BY <1>1 DEF Restored
<1>8. /\ mem'[Vram] = saved[v]
      /\ \A a \in Area : a # Vram => mem'[a] = saved[a]
  BY <1>1, <1>4
<1>9. Filled(mem', Area)
  <2>1. Filled(mem, Area)
    BY DEF IInv, Shape
  <2>2. Filled(saved, Area)
    <3>1. \A a \in Area : mem[a] = [i \in Cells |-> mem[a][i]]
      BY <2>1 DEF Filled
    <3>2. saved = [a \in Area |-> saved[a]]
      OBVIOUS
    <3> HIDE DEF saved
    <3>3. \A a \in Area : saved[a] = mem[Vram] \/ saved[a] = mem[a]
      BY <1>7
    <3>4. ASSUME NEW a \in Area PROVE saved[a] = [i \in Cells |-> saved[a][i]]
      <4>1. PICK c \in Area : saved[a] = mem[c]
        BY <3>3, <1>1
      <4>2. mem[c] = [i \in Cells |-> mem[c][i]]
        BY <3>1
      <4> QED  BY <4>1, <4>2
    <3> QED  BY <3>2, <3>4 DEF Filled
  <2> HIDE DEF saved
  <2>3. saved[v] = [i \in Cells |-> saved[v][i]] /\ Vram \in Area
    BY <2>2, <1>1 DEF Filled
  <2> DEFINE cells == saved[v]
  <2>4. cells = [i \in Cells |-> cells[i]] /\ mem' = [saved EXCEPT ![Vram] = cells]
    BY <2>3, <1>4
  <2> HIDE DEF cells
  <2> QED  BY <2>2, <2>3, <2>4, FillOne
<1> HIDE DEF saved
<1>10. Shape'
  <2>1. buffer' \in [Console -> Area] /\ ucb' \in [Console -> BOOLEAN] /\ current' \in Console
    BY <1>1, <1>2, <1>3, <1>4
  <2>2. disturbed' \subseteq Console
    BY <1>1 DEF IInv, Shape, SetCurrentVc
  <2> QED  BY <1>2, <1>9, <2>1, <2>2 DEF IInv, Shape
<1>11. RegOwn'
  BY <1>2 DEF IInv, RegOwn
<1>12. \A x \in Console : x # v => mem'[buffer'[x]] = mem[buffer[x]]
  BY <1>1, <1>5, <1>7, <1>8
<1>13. mem'[buffer'[v]] = mem[buffer[v]]
  BY <1>1, <1>5, <1>7, <1>8
<1>14. disturbed \subseteq disturbed'
  BY DEF SetCurrentVc
<1>15. \A w \in Console : reg[w] \in {Vram, w}
  BY DEF IInv, RegOwn
<1>16. Settled'
  <2> SUFFICES ASSUME NEW x \in Console, x \notin disturbed', NEW w \in Console, pc[w] # "idle"
               PROVE  reg[w] = buffer'[x] <=> w = x
    BY <1>2 DEF Settled
  <2>1. reg[w] = buffer[x] <=> w = x
    BY <1>14 DEF IInv, Settled
  <2>2. CASE v = old
    BY <2>1, <2>2, <1>1, <1>5
  <2>3. CASE v # old /\ x \notin {v, old}
    BY <2>1, <2>3, <1>1, <1>5
  <2>4. CASE v # old /\ x \in {v, old}
    <3>1. ~Touches(w, {v, old})
      BY <2>4, <1>1 DEF SetCurrentVc
    <3>2. w \notin {v, old} /\ reg[w] # Vram
      BY <3>1 DEF Touches
    <3> QED  BY <3>2, <2>4, <1>1, <1>5, <1>15
  <2> QED  BY <2>2, <2>3, <2>4
<1>17. ContentsKept'
  <2> SUFFICES ASSUME NEW x \in Console, x \notin disturbed', pc[x] # "move"
               PROVE  mem'[buffer'[x]] = shown[x]
    BY <1>2 DEF ContentsKept
  <2>1. mem[buffer[x]] = shown[x]
    BY <1>14 DEF IInv, ContentsKept
  <2> QED  BY <2>1, <1>12, <1>13
<1>18. Midway'
  <2> SUFFICES ASSUME NEW x \in Console, x \notin disturbed', pc[x] = "move"
               PROVE  HalfMoved(mem'[buffer'[x]], shown[x], moved[x])
    BY <1>2 DEF Midway
  <2>1. HalfMoved(mem[buffer[x]], shown[x], moved[x])
    BY <1>14 DEF IInv, Midway
  <2>2. mem'[buffer'[x]] = mem[buffer[x]]
    BY <1>12, <1>13
  <2> QED  BY <2>1, <2>2
<1> QED  BY <1>6, <1>10, <1>11, <1>16, <1>17, <1>18 DEF IInv

-----------------------------------------------------------------------------

\* activate_console leaves the consoles in a state of the invariant.
LEMMA InitIInv == Init => IInv
<1> SUFFICES ASSUME Init PROVE IInv
  OBVIOUS
<1>1. Filled(mem, Area) /\ Filled(shown, Console)
  BY DEF Init, Filled, Empty
<1>2. Shape
  BY <1>1, ScreenAssumption, Sizes DEF Init, Shape, PCs, Area
<1>3. BuffersApart /\ RegOwn /\ Settled /\ Midway
  BY DEF Init, BuffersApart, RegOwn, Settled, Midway
<1>4. ContentsKept
  <2>1. \A a \in Area : mem[a] = Empty
    BY DEF Init
  <2>2. \A v \in Console : shown[v] = Empty /\ buffer[v] \in Area
    BY <1>2 DEF Init, Shape
  <2> QED  BY <2>1, <2>2 DEF ContentsKept
<1> QED  BY <1>2, <1>3, <1>4 DEF IInv

\* Every operation of the consoles keeps the invariant.
LEMMA NextIInv == IInv /\ [Next]_vars => IInv'
<1> SUFFICES ASSUME IInv, [Next]_vars PROVE IInv'
  OBVIOUS
<1>1. CASE UNCHANGED vars
  <2>1. UNCHANGED <<mem, buffer, ucb, current, backup, oldVc, pc, moved, reg, shown, disturbed>>
    BY <1>1 DEF vars, screen, call
  <2>2. Shape' /\ BuffersApart' /\ RegOwn'
    BY <2>1 DEF IInv, Shape, Filled, BuffersApart, RegOwn
  <2>3. Settled' /\ ContentsKept'
    BY <2>1 DEF IInv, Settled, ContentsKept
  <2>4. Midway'
    BY <2>1 DEF IInv, Midway, HalfMoved
  <2> QED  BY <2>2, <2>3, <2>4 DEF IInv
<1>2. CASE Next
  <2>1. PICK v \in Console :
          \/ \E txt \in Texts : Write(v, txt)
          \/ WriteColour(v) \/ WriteChar(v)
          \/ ScrollMove(v) \/ ScrollClear(v)
          \/ WriteDone(v) \/ VCUpdateCallback(v)
          \/ Pwrite(v) \/ \E offset \in Cells : PwriteStore(v, offset)
          \/ SetCurrentVc(v)
    BY <1>2 DEF Next
  <2> QED  BY <2>1, QuietActions, WriteCharStep, ScrollMoveStep, ScrollClearStep,
              PwriteStoreStep, SetCurrentVcStep
<1> QED  BY <1>1, <1>2

\* After any switches between any number of consoles, only the console on screen
\* writes into video memory, and all others have their buffers back.
THEOREM ScreenBuffers == Spec => []BuffersApart
  BY InitIInv, NextIInv, PTL DEF Spec, IInv

\* A console that was not exchanged in the middle of a write shows exactly what
\* its own writes produce, for any size of the screen, any texts and switches.
THEOREM ConsolesKeepContents == Spec => []ContentsKept
  BY InitIInv, NextIInv, PTL DEF Spec, IInv
=============================================================================
