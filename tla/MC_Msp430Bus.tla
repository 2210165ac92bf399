---------------------------- MODULE MC_Msp430Bus ----------------------------
(***************************************************************************)
(* Model-checking instance of Msp430Bus with the MSP430FR5994 base         *)
(* addresses of msp430fr5994.h.  The windows of the classes whose own      *)
(* constructors fix them (not in the repository) are those of the device's *)
(* register map; SimpleMonitor's is placed in a free gap.                  *)
(***************************************************************************)
EXTENDS Msp430Bus

MCClassRange ==
  [pmm |-> [start |-> \h0120, end |-> \h013f],
   Adc |-> [start |-> \h0800, end |-> \h089f],
   FRAM_CTL_A |-> [start |-> \h0140, end |-> \h014f],
   mon |-> [start |-> \h0f00, end |-> \h0f01]]

MCClassLastOffset == [cs |-> \h0f, tima |-> \h2f]
=============================================================================
