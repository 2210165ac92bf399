CONSTANTS
  VOn = 6
  VOff = 3
  VWarn = 4
  Icc = 1
  TraceFile <- MCHighTraceFile
  LoadResistance = 1
  CurrentLimit = 3
  VoltageLimit = 10
  HoldSteps = 2
  VInit = 0
  Loads = {0, 2}
  ForceOnValues = {FALSE, TRUE}
SPECIFICATION Spec
INVARIANT NoOvershoot
