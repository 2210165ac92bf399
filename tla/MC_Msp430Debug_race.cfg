CONSTANTS
  Program <- MCProgram
  VectorTable <- MCVectorTable
  Sources <- MCSources
  AckedSources <- MCAckedSources
  RamWords <- MCRamWords
  BpAddrs <- MCBpAddrs
  MaxIrqRaises = 3

  NGpr <- MCNGpr
  RegNums = {0, 2}
  RegValues <- MCRegValues
  MemValues <- MCMemValues

SPECIFICATION SpecDbg

PROPERTY StalledStateStable
