SPECIFICATION Spec
CONSTANTS
  N = 2
  a = a
  b = b
  Codes = {a, b}
  maxOverlays = 2
  BlockEnd <- Joined
  None = None
SYMMETRY Symmetry
INVARIANTS TypeOK Coherent
