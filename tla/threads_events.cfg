SPECIFICATION Spec
CONSTANTS
  a = a
  b = b
  c = c
  ev = ev
  Thread = {a, b}
  Idle = Idle
  Event = {ev}
  StartQueue <- StartTwo
  Calls = {"wait", "trigger", "keyboard", "exit", "join"}
  NoNode = NoNode
  MaxCount = 4
INVARIANTS TypeOK LocksExclude  WaitsOnce RunQueueAgrees SleepersReachable
\* A failed assertion halts the kernel.
CHECK_DEADLOCK FALSE
