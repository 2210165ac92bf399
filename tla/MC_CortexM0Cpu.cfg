CONSTANTS
  Program <- MCProgram
  Vectors <- MCVectors
  ResetSp <- MCResetSp
  ResetPc <- MCResetPc
  Exceptions <- MCExceptions
  StackWords <- MCStackWords
  BpAddrs <- MCBpAddrs
  PcWrites <- MCPcWrites
  MaxIrqRaises = 2

SPECIFICATION Spec

INVARIANT TypeOK
PROPERTY ArchRefinement
PROPERTY PendingServed
