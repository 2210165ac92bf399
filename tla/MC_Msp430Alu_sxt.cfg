CONSTANTS
  Regs <- MCRegs
  Values <- MCValues
  Instrs <- MCSxtOddInstrs
SPECIFICATION Spec
PROPERTY IsaRefinement
