CONSTANTS
  Program <- MCProgram
  VectorTable <- MCVectorTable
  Sources <- MCSources
  AckedSources <- MCAckedSources
  RamWords <- MCRamWords
  BpAddrs <- MCBpAddrs
  MaxIrqRaises = 2

SPECIFICATION Spec

INVARIANT TypeOK
INVARIANT NeverHalts
PROPERTY RetiRestoresContext
PROPERTY RetReturnsToCaller
PROPERTY ServedEventually
