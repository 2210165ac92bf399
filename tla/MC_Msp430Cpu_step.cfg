CONSTANTS
  Program <- MCProgram
  VectorTable <- MCVectorTable
  Sources <- MCSources
  AckedSources <- MCAckedSources
  RamWords <- MCRamWords
  BpAddrs <- MCBpAddrs
  MaxIrqRaises = 3

SPECIFICATION Spec

PROPERTY StallsOnlyAfterStep
