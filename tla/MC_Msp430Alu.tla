---------------------------- MODULE MC_Msp430Alu ----------------------------
(***************************************************************************)
(* Instances of Msp430Alu: registers R4 and R5, operand values at the      *)
(* byte and word sign and carry boundaries, and the instructions in both   *)
(* widths where the encoding has both.                                     *)
(***************************************************************************)
EXTENDS Msp430Alu, TLC

\* 0, 1, 0x007F, 0x0080, 0x7FFF, 0x8000, 0xFFFF: every byte and word
\* boundary of carry (0xFF, 0xFFFF) and sign (0x7F/0x80, 0x7FFF/0x8000)
MCRegs == {4, 5}
MCValues == {0, 1, 127, 128, 32767, 32768, 65535}

DoubleInstrs ==
  [op : DoubleOps, src : MCRegs, dst : MCRegs, bw : BOOLEAN]

\* RRC and RRA have byte forms; SWPB and SXT are word-only encodings.  SXT
\* runs on the even register R4 only: on an odd register it is the subject
\* of MCSxtOddInstrs.
SingleInstrs ==
  [op : {"RRC", "RRA"}, reg : MCRegs, bw : BOOLEAN]
  \cup [op : {"SWPB"}, reg : MCRegs, bw : {FALSE}]
  \cup [op : {"SXT"}, reg : {4}, bw : {FALSE}]

MCInstrs == DoubleInstrs \cup SingleInstrs

\* SXT R5
MCSxtOddInstrs == [op : {"SXT"}, reg : {5}, bw : {FALSE}]
====
