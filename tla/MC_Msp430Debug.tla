---------------------------- MODULE MC_Msp430Debug ----------------------------
(* The firmware and wiring of MC_Msp430Cpu with the debug server's register  *)
(* and memory accesses: a PC write into main's sleep loop, an SR write that *)
(* wakes main with interrupts enabled, and a stack word write.             *)
EXTENDS MC_Msp430Cpu, Msp430Debug

\* R15 is the highest register number: N_GPR = 15
MCNGpr == 15
MCRegValues == {MainAddr + 6, GIE}
MCMemValues == {0}
====
