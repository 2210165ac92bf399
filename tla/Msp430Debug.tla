---------------------------- MODULE Msp430Debug ----------------------------
(***************************************************************************)
(* The register and memory interface the debug server uses on the MSP430,  *)
(* next to the run control of Msp430Cpu: Msp430Cpu::dbg_readReg and        *)
(* dbg_writeReg, and Msp430Microcontroller::dbgWriteMem.  The debug server *)
(* calls them from its own OS thread once isStalled() (that is, !m_run)    *)
(* tells it the core has stopped.                                          *)
(* General registers R4-R15 are not state of Msp430Cpu, so reads and       *)
(* writes of them change nothing here.  dbgReadMem changes nothing either  *)
(* and is left out.                                                        *)
(***************************************************************************)
EXTENDS Msp430Cpu

CONSTANTS
  NGpr,        \* N_GPR: the highest register number the accessors accept
  RegNums,     \* register numbers the client asks for
  RegValues,   \* values it writes into registers
  MemValues    \* values it writes into memory

\* register numbers: R0 is the PC, R1 the SP, R2 the SR, R3 the constant
\* generator
PC_REGNUM == 0
SP_REGNUM == 1
SR_REGNUM == 2
CG_REGNUM == 3

ASSUME RegValues \subseteq Word /\ MemValues \subseteq Word

DbgRegUnchanged == UNCHANGED <<mem, lp, window, run, doStep, sleeping, bps,
                     pwrOn, lines, raised, addr, frames, lastCmd>>

\* dbg_writeReg: assert(addr <= N_GPR) aborts the process; R3 is fatal
DbgWriteReg(r, val) ==
  /\ ~run /\ Live
  /\ \/ r > NGpr /\ halted' = "abort" /\ UNCHANGED <<pc, sp, sr>>
     \/ r = PC_REGNUM /\ pc' = val /\ UNCHANGED <<sp, sr, halted>>
     \/ r = SP_REGNUM /\ sp' = val /\ UNCHANGED <<pc, sr, halted>>
     \/ r = SR_REGNUM /\ sr' = val /\ UNCHANGED <<pc, sp, halted>>
     \/ r = CG_REGNUM /\ halted' = "fatal" /\ UNCHANGED <<pc, sp, sr>>
     \/ r \in (CG_REGNUM + 1)..NGpr /\ UNCHANGED <<pc, sp, sr, halted>>
  /\ DbgRegUnchanged

\* dbg_readReg: the same assert; any other read leaves the state as it is
DbgReadReg(r) ==
  /\ ~run /\ Live /\ r > NGpr
  /\ halted' = "abort"
  /\ UNCHANGED <<pc, sp, sr>> /\ DbgRegUnchanged

\* dbgWriteMem: transport_dbg writes a mapped word, untimed and whatever
\* the target's power; an unmapped address returns false and changes nothing
DbgWriteMem(a, val) ==
  /\ ~run /\ Live /\ a \in RamWords
  /\ mem' = [mem EXCEPT ![a] = val]
  /\ UNCHANGED <<pc, sp, sr, halted, lp, window, run, doStep, sleeping, bps,
                 pwrOn, lines, raised, addr, frames, lastCmd>>

DebugRegStep ==
  \/ \E r \in RegNums, val \in RegValues : DbgWriteReg(r, val)
  \/ \E r \in RegNums : DbgReadReg(r)
  \/ \E a \in RamWords, val \in MemValues : DbgWriteMem(a, val)

NextDbg == Next \/ DebugRegStep

SpecDbg == Init /\ [][NextDbg]_vars /\ Fairness

-----------------------------------------------------------------------------

\* Once isStalled() reports the core stopped, its registers and memory
\* change only by the debugger's own writes until it resumes the core: what
\* the client reads is what the core continues from (spec: the stalled
\* state suspends the engine).
StalledStateStable ==
  [][(~run /\ ~run') => (UNCHANGED <<pc, sp, sr, mem>> \/ DebugRegStep)]_vars
====
