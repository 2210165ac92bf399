------------------------------ MODULE Msp430Isa ------------------------------
(***************************************************************************)
(* What the MSP430 arithmetic promises: the register and flag effect of    *)
(* each instruction as the family user's guide describes it, stated in     *)
(* integer arithmetic with no reference to how the simulator computes it.  *)
(* Msp430Alu, which translates Msp430Cpu.cpp, is checked to implement this *)
(* specification.                                                          *)
(***************************************************************************)
EXTENDS Integers, Bitwise

CONSTANTS Regs, Values, Instrs

DoubleOps == {"MOV", "ADD", "ADDC", "SUBC", "SUB", "CMP", "BIT", "BIC",
              "BIS", "XOR", "AND"}
Flags == [c : BOOLEAN, z : BOOLEAN, n : BOOLEAN, v : BOOLEAN]
Mask(bw) == IF bw THEN 255 ELSE 65535
CarryIn(f) == IF f.c THEN 1 ELSE 0
IsDouble(i) == i.op \in DoubleOps

(***************************************************************************)
(* Reference semantics, from the instruction descriptions of the MSP430    *)
(* family user's guide, in integer arithmetic: results modulo 2^8 or 2^16, *)
(* C as the unsigned carry out (for subtraction: no borrow), V as the      *)
(* signed result leaving the range of the width.                           *)
(***************************************************************************)
Modulus(bw) == Mask(bw) + 1
Half(bw) == Modulus(bw) \div 2
Signed(x, bw) == IF x >= Half(bw) THEN x - Modulus(bw) ELSE x
OutOfRange(x, bw) == x < -Half(bw) \/ x >= Half(bw)

\* flags of a result r whose carry out is cOut and signed value sv
RefFlags(r, cOut, sv, bw) ==
  [n |-> r % Modulus(bw) >= Half(bw), z |-> r % Modulus(bw) = 0,
   c |-> cOut, v |-> OutOfRange(sv, bw)]

\* flags of a logical result: C set when the result is not zero
RefLogic(r, v, bw) == RefFlags(r, r % Modulus(bw) # 0, IF v THEN Half(bw) ELSE 0, bw)

\* the value written (or the destination kept) and the flags of a double
\* operand instruction with source s, destination d, carry k
RefDouble(op, s, d, k, f, bw) ==
  LET M == Modulus(bw)
      ss == Signed(s, bw)
      sd == Signed(d, bw)
      sub(b) == [val |-> (d - s - b) % M, f |-> RefFlags(d - s - b, d - s - b >= 0, sd - ss - b, bw)]
  IN
  CASE op = "MOV"  -> [val |-> s, f |-> f]
    [] op = "ADD"  -> [val |-> (s + d) % M, f |-> RefFlags(s + d, s + d >= M, ss + sd, bw)]
    [] op = "ADDC" -> [val |-> (s + d + k) % M,
                       f |-> RefFlags(s + d + k, s + d + k >= M, ss + sd + k, bw)]
    [] op = "SUB"  -> sub(0)
    [] op = "CMP"  -> [sub(0) EXCEPT !.val = d]
    [] op = "SUBC" -> sub(1 - k)
    [] op = "BIT"  -> [val |-> d, f |-> RefLogic(s & d, FALSE, bw)]
    [] op = "BIC"  -> [val |-> d - (s & d), f |-> f]
    [] op = "BIS"  -> [val |-> d + s - (s & d), f |-> f]
    [] op = "XOR"  -> [val |-> d + s - 2 * (s & d),
                       f |-> RefLogic(d + s - 2 * (s & d), ss < 0 /\ sd < 0, bw)]
    [] op = "AND"  -> [val |-> s & d, f |-> RefLogic(s & d, FALSE, bw)]

\* the same for a single operand instruction on d with carry k: value and
\* flags of the user's guide, written to the operand register
RefSingle(op, d, k, f, bw) ==
  LET rrc == k * Half(bw) + d \div 2
      rra == (IF d >= Half(bw) THEN Half(bw) ELSE 0) + d \div 2
      lo == d % 256
      sxt == IF lo >= 128 THEN lo + 65280 ELSE lo
  IN
  CASE op = "RRC"  -> [val |-> rrc, f |-> RefFlags(rrc, d % 2 = 1, 0, bw)]
    [] op = "RRA"  -> [val |-> rra, f |-> RefFlags(rra, d % 2 = 1, 0, bw)]
    [] op = "SWPB" -> [val |-> lo * 256 + d \div 256, f |-> f]
    [] op = "SXT"  -> [val |-> sxt, f |-> RefLogic(sxt, FALSE, FALSE)]

\* the register file and flags after instruction i, per the reference
RefNext(i, rg, f) ==
  LET opd(r) == IF i.bw THEN rg[r] % 256 ELSE rg[r]
      k == CarryIn(f)
      res == IF IsDouble(i) THEN RefDouble(i.op, opd(i.src), opd(i.dst), k, f, i.bw)
                            ELSE RefSingle(i.op, opd(i.reg), k, f, i.bw)
      dst == IF IsDouble(i) THEN i.dst ELSE i.reg
      writes == ~(i.op \in {"CMP", "BIT"})
  IN [regs |-> IF writes THEN [rg EXCEPT ![dst] = res.val] ELSE rg,
      sr |-> res.f]

-----------------------------------------------------------------------------
(***************************************************************************)
(* The abstract machine: one instruction at a time on the register file,  *)
(* and new register values between instructions.                          *)
(***************************************************************************)
VARIABLES regs, sr, instr, done
vars == <<regs, sr, instr, done>>

Step ==
  /\ ~done
  /\ regs' = RefNext(instr, regs, sr).regs
  /\ sr' = RefNext(instr, regs, sr).sr
  /\ done' = TRUE
  /\ UNCHANGED instr

Reload ==
  /\ done
  /\ regs' \in [Regs -> Values]
  /\ done' = FALSE
  /\ UNCHANGED <<sr, instr>>

Init ==
  /\ regs \in [Regs -> Values]
  /\ sr \in Flags
  /\ instr \in Instrs
  /\ done = FALSE

Spec == Init /\ [][Step \/ Reload]_vars
====
