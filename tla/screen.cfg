SPECIFICATION Spec
CONSTANTS
  c0 = c0
  c1 = c1
  Console = {c0, c1}
  First = c0
  Width = 2
  Height = 2
  Texts <- Samples
  Vram = Vram
  MaxWrites = 2
INVARIANTS  BuffersApart ContentsKept 
