CONSTANTS
  C1 = C1
  C2 = C2
  Keys <- TwoKeys
  Values = {x, y}
  NoValue = NoValue
  Slots = 2
  SeqModulus = 5
  PayloadTears = TRUE
  Chunked = TRUE
SPECIFICATION Spec
INVARIANTS
  TypeInvariant
  RamMatchesFlash
  FullMeansFull
PROPERTIES
  NeverFormattedAgain
  ImplementsWeaker
SYMMETRY Symmetry
