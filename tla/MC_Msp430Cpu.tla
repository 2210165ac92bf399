--------------------------- MODULE MC_Msp430Cpu ---------------------------
(***************************************************************************)
(* Model-checking instance of Msp430Cpu: a firmware image in the style of  *)
(* the validation programs (set SP, enable interrupts, then call a        *)
(* subroutine that saves a word, sleeps in LPM0, restores it and returns,  *)
(* in a loop) with two handlers wired as in Msp430Microcontroller.cpp:     *)
(*   line 0  pmm    BOR, acknowledge wired                                 *)
(*   line 9  adc    no acknowledge: its handler clears the flag, then      *)
(*                  re-enables interrupts so the timer can nest            *)
(*   line 10 tima   acknowledge wired; its handler clears CPUOFF in the    *)
(*                  stacked SR (bic-on-exit) so main wakes up              *)
(***************************************************************************)
EXTENDS Msp430Cpu, TLC

MainAddr  == \h4400
TimerIsr  == \h4500
AdcIsr    == \h4600
SleepSub  == \h4700
StackTop  == \h3C00

MCProgram ==
  (MainAddr     :> [op |-> "MOV_SP", k |-> StackTop]) @@
  (MainAddr + 4 :> [op |-> "BIS_SR", k |-> GIE]) @@
  (MainAddr + 6 :> [op |-> "CALL", k |-> SleepSub]) @@
  (MainAddr + 10 :> [op |-> "JMP", off |-> 1021]) @@      \* JMP $-4 (to MainAddr+6)
  (SleepSub     :> [op |-> "PUSH", k |-> 0]) @@
  (SleepSub + 2 :> [op |-> "BIS_SR", k |-> CPUOFF + GIE]) @@
  (SleepSub + 6 :> [op |-> "POP"]) @@
  (SleepSub + 8 :> [op |-> "RET"]) @@
  (TimerIsr     :> [op |-> "BIC_0SP", k |-> CPUOFF]) @@
  (TimerIsr + 6 :> [op |-> "RETI"]) @@
  (AdcIsr       :> [op |-> "CLR_IFG", src |-> 9]) @@
  (AdcIsr + 4   :> [op |-> "BIS_SR", k |-> GIE]) @@
  (AdcIsr + 6   :> [op |-> "NOP"]) @@
  (AdcIsr + 8   :> [op |-> "RETI"])

MCVectorTable ==
  (VectorAddr(0) :> MainAddr) @@
  (VectorAddr(9) :> AdcIsr) @@
  (VectorAddr(10) :> TimerIsr)

MCSources == {0, 9, 10}
MCAckedSources == {0, 10}
MCRamWords == {StackTop - 2 * n : n \in 1..8}
MCBpAddrs == {MainAddr + 6}
=============================================================================
