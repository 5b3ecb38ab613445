SPECIFICATION FairSpec
CONSTANTS
  r1 = r1
  Reader = {r1}
  TtyOf <- OneReader
  RingSize = 3
  Scancodes = {30, 42, 170, 56, 59, 60, 184, 69, 224}
  BeyondMap = 42
  MaxTyped = 4
  Sizes = {0, 1, 2}
INVARIANTS TypeOK InOrder LossIsWholeRings WokenForInput
 
