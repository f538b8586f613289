SPECIFICATION Spec
CONSTANTS
  N = 3
  Half = 32
  Digits = 4
  Words = {0, 3, 4, 8, 31}
INVARIANTS RestoresIds
