\* Every program, compiled to native code and to IL, with and without the
\* elimination of dead code, except where a block meets a known defect.
SPECIFICATION Spec
CONSTANTS
  Programs <- MCPrograms
  Starts <- MCStarts
  Options <- MCOptions
  Values = 2
  Defects = {}
INVARIANTS TypeOK Lockstep LateIsUnseen BlockFits
CHECK_DEADLOCK FALSE
