CONSTANTS
  FRAM_START = 16384
  RAM_START = 7168
  REF_A_BASE = 432
  WDT_A_BASE = 348
  PJ_BASE = 800
  PA_BASE = 512
  PB_BASE = 544
  PC_BASE = 576
  PD_BASE = 608
  CS_BASE = 352
  TA0_BASE = 832
  MPY32_BASE = 1216
  EUSCI_B0_BASE = 1600
  ClassRange <- MCClassRange
  ClassLastOffset <- MCClassLastOffset

SPECIFICATION Spec

INVARIANT RoutedToOwner
INVARIANT SingleOwner
