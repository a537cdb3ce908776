\* Two small buses, requests of two sizes and four alignments.
SPECIFICATION Spec
CONSTANTS
  Top = 256
  PowersOfTwo = {1, 2, 4, 8, 16, 32, 64, 128}
  VECTOR = 4
  Region <- MCRegion
  BIOS_LOWMEM <- MCLowmem
  BIOS_FUNCTIONS <- MCFunctions
  Bytes = {0, 5}
  Alignments = {1, 8, 16, 24}
INVARIANTS TypeOK HeldApart
PROPERTIES GrantedAsRequested FailureJustified NothingLost
