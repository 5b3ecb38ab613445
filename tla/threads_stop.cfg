SPECIFICATION Spec
CONSTANTS
  a = a
  b = b
  c = c
  ev = ev
  Thread = {a, b, c}
  Idle = Idle
  Event = {ev}
  StartQueue <- StartTwo
  Calls = {"start", "wait", "stop", "exit"}
  NoNode = NoNode
  MaxCount = 4
INVARIANTS LocksExclude CountCovers
\* A failed assertion halts the kernel.
CHECK_DEADLOCK FALSE
