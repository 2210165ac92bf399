CONSTANTS
  Regs <- MCRegs
  Values <- MCValues
  Instrs <- MCInstrs
SPECIFICATION Spec
PROPERTY IsaRefinement
