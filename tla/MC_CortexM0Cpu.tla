-------------------------- MODULE MC_CortexM0Cpu --------------------------
(***************************************************************************)
(* Model-checking instance of CortexM0Cpu: a main loop that sleeps with    *)
(* the stack pointer alternately 8-byte aligned and not (PUSH/POP around   *)
(* WFI) and branches back, and two handlers, SysTick (15) and an NVIC      *)
(* interrupt (16), that withdraw their request and return with BX LR.      *)
(***************************************************************************)
EXTENDS CortexM0Cpu, TLC

Main    == 256      \* 0x100
SysIsr  == 512      \* 0x200
NvicIsr == 768      \* 0x300

MCProgram ==
  (Main      :> [op |-> "NOP"]) @@
  (Main + 2  :> [op |-> "PUSH"]) @@
  (Main + 4  :> [op |-> "WFI"]) @@
  (Main + 6  :> [op |-> "POP"]) @@
  (Main + 8  :> [op |-> "WFI"]) @@
  (Main + 10 :> [op |-> "B", off |-> -12]) @@     \* B Main+2
  (SysIsr     :> [op |-> "CLRPEND", id |-> 15]) @@
  (SysIsr + 2 :> [op |-> "BX_LR"]) @@
  (NvicIsr     :> [op |-> "CLRPEND", id |-> 16]) @@
  (NvicIsr + 2 :> [op |-> "NOP"]) @@
  (NvicIsr + 4 :> [op |-> "BX_LR"])

MCVectors == (15 :> SysIsr + 1) @@ (16 :> NvicIsr + 1)

MCResetSp == 4096
MCResetPc == Main + 1
MCExceptions == {15, 16}
MCStackWords == {MCResetSp - 4 * k : k \in 1..12}
MCBpAddrs == {Main, Main + 6}
MCPcWrites == {Main + 4}
=============================================================================
