SPECIFICATION FairSpec
CONSTANTS
  a = a
  b = b
  c = c
  ev = ev
  Thread = {a, b}
  Idle = Idle
  Event = {ev}
  StartQueue <- StartTwo
  Calls = {"wait", "trigger"}
  NoNode = NoNode
  MaxCount = 4
PROPERTY LocksReleased
\* A failed assertion halts the kernel.
CHECK_DEADLOCK FALSE
