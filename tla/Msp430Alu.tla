----------------------------- MODULE Msp430Alu -----------------------------
(***************************************************************************)
(* The MSP430 instruction arithmetic of src/mcu/msp430fr5xx/Msp430Cpu.cpp: *)
(* executeDoubleOpInstruction and executeSingleOpInstruction on register   *)
(* operands, with the flag helpers isNegative, isZero, isCarry and         *)
(* isOverflow, operand loading and writeback.  Each is an operator         *)
(* translated from the code; the module is shown, over boundary operands,  *)
(* to implement Msp430Isa, the instruction set written in integer          *)
(* arithmetic from the MSP430 family user's guide.                         *)
(***************************************************************************)
EXTENDS Integers, Bitwise

CONSTANTS
  Regs,     \* general registers the instructions use (numbers 4..15)
  Values,   \* register values a program may have left behind
  Instrs    \* instructions to execute: double operand [op, src, dst, bw] or
            \* single operand [op, reg, bw]

DoubleOps == {"MOV", "ADD", "ADDC", "SUBC", "SUB", "CMP", "BIT", "BIC",
              "BIS", "XOR", "AND"}
SingleOps == {"RRC", "SWPB", "RRA", "SXT"}

ASSUME
  /\ Regs \subseteq 4..15
  /\ Values \subseteq 0..65535
  /\ \A i \in Instrs : i.op \in DoubleOps \cup SingleOps

\* the status-register flags C, Z, N, V
Flags == [c : BOOLEAN, z : BOOLEAN, n : BOOLEAN, v : BOOLEAN]
CarryIn(f) == IF f.c THEN 1 ELSE 0

-----------------------------------------------------------------------------
(***************************************************************************)
(* Helpers of Msp430Cpu.cpp.  Arguments are the uint16_t/uint32_t values   *)
(* of the code; the bit tests look only at the low 8 or 16 bits, as the    *)
(* uint16_t parameters of isNegative/isZero truncate them.                 *)
(***************************************************************************)

Mask(bw) == IF bw THEN 255 ELSE 65535
Msb(bw) == IF bw THEN 128 ELSE 32768

IsNegative(val, bw) == (val & Msb(bw)) # 0

IsZero(val, bw) == (val & Mask(bw)) = 0

IsCarry(a, b, c, bw) == (a & Mask(bw)) + (b & Mask(bw)) + c > Mask(bw)

\* mutant: the carry-in left out of the sum whose sign is tested
IsOverflowNoCarry(a, b, c, bw) ==
  LET res == a + b
  IN \/ IsNegative(res, bw) /\ ~IsNegative(a, bw) /\ ~IsNegative(b, bw)
     \/ ~IsNegative(res, bw) /\ IsNegative(a, bw) /\ IsNegative(b, bw)

IsOverflow(a, b, c, bw) ==
  LET res == a + b + c
      aNeg == IsNegative(a, bw)
      bNeg == IsNegative(b, bw)
      resNeg == IsNegative(res, bw)
  IN (resNeg /\ ~aNeg /\ ~bNeg) \/ (~resNeg /\ aNeg /\ bNeg)

\* ~srcOp.val: the int -(x+1), passed on as uint32_t; every later use reads
\* only its low 16 bits, which are 65535 - x
Inv(x) == 65535 - x

\* loadOperand, register direct: the byte form reads the low byte
LoadOperand(rf, r, bw) == IF bw THEN rf[r] & 255 ELSE rf[r]

\* writeback to a register: setGpr of the uint8_t or uint16_t value
\* mutant: the result written without the cast to the operand width
WritebackNoCast(rf, r, val, bw) == [rf EXCEPT ![r] = val]

Writeback(rf, r, val, bw) == [rf EXCEPT ![r] = val & Mask(bw)]

\* the flags an arithmetic result sets: Z and N of the result, C and V of
\* isCarry/isOverflow on the addends a, b and carry-in c
ArithFlags(res, a, b, c, bw) ==
  [z |-> IsZero(res, bw), n |-> IsNegative(res, bw),
   c |-> IsCarry(a, b, c, bw), v |-> IsOverflow(a, b, c, bw)]

\* the flags of a logical result: V given, C = !Z
LogicFlags(res, v, bw) ==
  [z |-> IsZero(res, bw), n |-> IsNegative(res, bw), c |-> ~IsZero(res, bw),
   v |-> v]

\* executeDoubleOpInstruction: result, flags and whether it is written back
DoubleOp(op, s, d, f, bw) ==
  LET c == CarryIn(f) IN
  CASE op = "MOV"  -> [val |-> s, f |-> f, wr |-> TRUE]
    [] op = "ADD"  -> [val |-> s + d, f |-> ArithFlags(s + d, s, d, 0, bw),
                       wr |-> TRUE]
    [] op = "ADDC" -> [val |-> s + d + c, f |-> ArithFlags(s + d + c, s, d, c, bw),
                       wr |-> TRUE]
    [] op = "SUBC" -> [val |-> Inv(s) + c + d,
                       f |-> ArithFlags(Inv(s) + c + d, d, Inv(s), c, bw),
                       wr |-> TRUE]
    [] op = "SUB"  -> [val |-> Inv(s) + d + 1,
                       f |-> ArithFlags(Inv(s) + d + 1, d, Inv(s), 1, bw),
                       wr |-> TRUE]
    [] op = "CMP"  -> [val |-> d, f |-> ArithFlags(Inv(s) + d + 1, d, Inv(s), 1, bw),
                       wr |-> FALSE]
    [] op = "BIT"  -> [val |-> d, f |-> LogicFlags(s & d, FALSE, bw), wr |-> FALSE]
    [] op = "BIC"  -> [val |-> d & Inv(s), f |-> f, wr |-> TRUE]
    [] op = "BIS"  -> [val |-> d | s, f |-> f, wr |-> TRUE]
    [] op = "XOR"  -> [val |-> (d ^^ s),
                       f |-> LogicFlags((d ^^ s),
                                        IsNegative(s, bw) /\ IsNegative(d, bw), bw),
                       wr |-> TRUE]
    [] op = "AND"  -> [val |-> s & d, f |-> LogicFlags(s & d, FALSE, bw), wr |-> TRUE]

\* executeSingleOpInstruction (RRC, SWPB, RRA, SXT) on the operand value v
\* of register r: result, flags, the register written and the width of
\* the write
SingleOp(op, r, v, f, bw) ==
  LET rrc == (v \div 2) | (IF f.c THEN Msb(bw) ELSE 0)
      rra == (v & Msb(bw)) | (v \div 2)
      sxt == IF (v & 128) # 0 THEN v | 65280 ELSE v & 255
      shiftFlags(res) == [c |-> (v & 1) = 1, v |-> FALSE,
                          n |-> IsNegative(res, bw), z |-> IsZero(res, bw)]
  IN
  CASE op = "RRC"  -> [val |-> rrc, f |-> shiftFlags(rrc), dst |-> r, bw |-> bw]
    [] op = "SWPB" -> [val |-> ((v & 255) * 256) | ((v & 65280) \div 256),
                       f |-> f, dst |-> r, bw |-> bw]
    [] op = "RRA"  -> [val |-> rra, f |-> shiftFlags(rra), dst |-> r, bw |-> bw]
    [] op = "SXT"  -> [val |-> sxt, f |-> LogicFlags(sxt, FALSE, FALSE),
                       dst |-> r - (r % 2), bw |-> FALSE]

-----------------------------------------------------------------------------
(***************************************************************************)
(* Executing one instruction on the register file, in a loop of the form *)
(* MOV #a,R4; MOV #b,R5; <instr>: Init starts from any register and flag   *)
(* values, and Load is the MOV-immediates that give the registers new      *)
(* values and leave the flags as the instruction set them.                 *)
(***************************************************************************)
VARIABLES regs, sr, instr, done
vars == <<regs, sr, instr, done>>

IsDouble(i) == i.op \in DoubleOps

\* executeDoubleOpInstruction or executeSingleOpInstruction with register
\* direct operands (getSourceOperand/getDestinationOperand, as = ad = 0)
Execute ==
  /\ ~done
  /\ IF IsDouble(instr)
       THEN LET s == LoadOperand(regs, instr.src, instr.bw)
                d == LoadOperand(regs, instr.dst, instr.bw)
                res == DoubleOp(instr.op, s, d, sr, instr.bw)
            IN /\ regs' = IF res.wr THEN Writeback(regs, instr.dst, res.val, instr.bw)
                                    ELSE regs
               /\ sr' = res.f
       ELSE LET v == LoadOperand(regs, instr.reg, instr.bw)
                res == SingleOp(instr.op, instr.reg, v, sr, instr.bw)
            IN /\ regs' = Writeback(regs, res.dst, res.val, res.bw)
               /\ sr' = res.f
  /\ done' = TRUE
  /\ UNCHANGED instr

Load ==
  /\ done
  /\ regs' \in [Regs -> Values]
  /\ done' = FALSE
  /\ UNCHANGED <<sr, instr>>

Init ==
  /\ regs \in [Regs -> Values]
  /\ sr \in Flags
  /\ instr \in Instrs
  /\ done = FALSE

Next == Execute \/ Load

Spec == Init /\ [][Next]_vars

-----------------------------------------------------------------------------
(***************************************************************************)
(* The instruction set as the user's guide defines it (Msp430Isa), with   *)
(* the same state: the code refines it under the identity mapping.        *)
(***************************************************************************)
Isa == INSTANCE Msp430Isa

-----------------------------------------------------------------------------
(***************************************************************************)
(* Properties                                                              *)
(***************************************************************************)

\* The code implements the instruction set: every instruction
\* executeDoubleOpInstruction or executeSingleOpInstruction carries out is
\* a step of Msp430Isa, leaving exactly the registers and the C, Z, N, V
\* flags the user's guide defines: the value written, the register written
\* (and no other), and flags computed through isCarry/isOverflow on
\* dst + ~src + c.
IsaRefinement == Isa!Spec

====
