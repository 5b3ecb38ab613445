SPECIFICATION Spec
CONSTANTS
  a = a
  b = b
  c = c
  ev = ev
  Thread = {a, b}
  Idle = Idle
  Event = {ev}
  StartQueue <- StartOne
  Calls = {"start"}
  NoNode = NoNode
  MaxCount = 4
INVARIANT NoAbort
\* A failed assertion halts the kernel.
CHECK_DEADLOCK FALSE
