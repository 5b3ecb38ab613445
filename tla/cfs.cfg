SPECIFICATION Spec
CONSTANTS
  t1 = t1
  t2 = t2
  t3 = t3
  Thread = {t1, t2, t3}
  Idle = Idle
  NoEntity = NoEntity
  MaxTicks = 4
INVARIANTS TypeOK ChargedOnce NoOvertaking ScanFindsLeast
PROPERTIES ChargesTheRunning ImplementsWorkConserving
