----------------------------- MODULE Msp430Cpu -----------------------------
(***************************************************************************)
(* The MSP430 CPU model of src/mcu/msp430fr5xx/Msp430Cpu.cpp: the          *)
(* emulator loop process() with its interrupt entry processInterrupt(),    *)
(* its breakpoint, low-power and single-step handling, its power-off wait  *)
(* and reset(), together with the actors it shares state with:             *)
(*   - the debug-server thread, which calls stall(), unstall(), step(),    *)
(*     insertBreakpoint() and removeBreakpoint() at any time (it is an OS  *)
(*     thread, not a SystemC process);                                     *)
(*   - the power supply (nReset) and the peripherals that raise interrupt  *)
(*     request lines into the InterruptArbiter; these are SystemC          *)
(*     processes, so they only act while the CPU thread waits for          *)
(*     simulated time (variable window).                                   *)
(* Instructions are a small abstract subset of the ISA that carries the    *)
(* control behaviour: status-register updates, the stack, jumps, RETI and  *)
(* the peripheral flag writes an interrupt handler makes.  Their flag      *)
(* arithmetic is the subject of module Msp430Alu.                          *)
(***************************************************************************)
EXTENDS Integers, Sequences, FiniteSets, Bitwise

CONSTANTS
  Program,       \* [address -> instruction]: the code in FRAM
  VectorTable,   \* [vector address -> handler address]: the "vectors" memory
  Sources,       \* interrupt request lines wired into the arbiter
  AckedSources,  \* lines whose acknowledge output is wired (iraOut[i])
  RamWords,      \* word addresses of the modelled stack window of SRAM
  BpAddrs,       \* addresses the debugger may set breakpoints at
  MaxIrqRaises   \* bound on peripheral interrupt requests in one behaviour

Word == 0..65535
Wrap(x) == x % 65536                   \* setPc/setSp/setSr store a uint16_t
Not16(x) == 65535 - x                  \* ~x on a 16-bit operand

\* Status register bits (msp430fr5994.h)
GIE == 8
CPUOFF == 16
SCG0 == 64

ResetVector == 65534                   \* 0xfffe
VectorAddr(idx) == 65534 - 2 * idx     \* 0xfffe - (2 * irqIdx)

ASSUME
  /\ Sources \subseteq 0..63 /\ 0 \in Sources
  /\ AckedSources \subseteq Sources
  /\ \A s \in Sources : VectorAddr(s) \in DOMAIN VectorTable
  /\ RamWords \subseteq Word
  /\ MaxIrqRaises \in Nat

VARIABLES
  pc, sp, sr,     \* R0, R1, R2 of m_cpuRegs
  mem,            \* the stack window of SRAM, one value per word
  lp,             \* where process() is in its loop
  window,         \* the CPU thread waited for simulated time since its last read of a signal
  run,            \* m_run
  doStep,         \* m_doStep
  sleeping,       \* m_sleeping
  bps,            \* m_breakpoints
  pwrOn,          \* the pwrOn input (nReset)
  lines,          \* interrupt request lines currently asserted
  raised,         \* peripheral requests raised so far (bounded by MaxIrqRaises)
  halted,         \* why sc_stop()/SC_REPORT_FATAL ended the simulation, or "none"
  addr,           \* processInterrupt's local addr: the vector address to load
  frames,         \* history: contexts saved by interrupt entries ("irq") and
                  \* CALLs ("call"), innermost first
  lastCmd         \* history: the last debug command

vars == <<pc, sp, sr, mem, lp, window, run, doStep, sleeping, bps, pwrOn,
          lines, raised, halted, addr, frames, lastCmd>>

Labels == {"top", "irq", "pushsr", "irqvec", "vecread", "resetread", "bp",
           "stallchk", "pwrchk", "off"}

\* the simulation ends on a failed bus access (sc_stop in readMem/writeMem)
\* or SC_REPORT_FATAL: "fault" for an address outside the mapped memory or
\* an invalid instruction, "unpowered" for a target whose pwrOn is low;
\* "fatal" and "abort" are the debugger's (module Msp430Debug)
StopCauses == {"none", "fault", "unpowered", "fatal", "abort"}
Live == halted = "none"

\* the response of a bus access to the words as: no target maps an address
\* outside the modelled window; a target rejects any access while nReset
\* (its pwrOn) is low
BusError(as) ==
  IF ~(as \subseteq RamWords) THEN "fault"
  ELSE IF ~pwrOn THEN "unpowered" ELSE "none"

\* mutant of Push: the word is written at SP before it is decremented
PushPostDec(val) ==
  /\ sp' = Wrap(sp - 2)
  /\ halted' = BusError({sp})
  /\ mem' = IF halted' = "none" THEN [mem EXCEPT ![sp] = val] ELSE mem

\* write16 of a push (processInterrupt, PUSH, CALL): the word at the decremented SP, or
\* the stop the failed access causes
Push(val) ==
  /\ sp' = Wrap(sp - 2)
  /\ halted' = BusError({Wrap(sp - 2)})
  /\ mem' = IF halted' = "none" THEN [mem EXCEPT ![Wrap(sp - 2)] = val] ELSE mem

-----------------------------------------------------------------------------
(***************************************************************************)
(* Operand decoding and the interrupt arbiter's outputs.                   *)
(***************************************************************************)

\* isSourceConstant/getSourceConstant: these immediates come from the
\* constant generators R2/R3 and take no extension word.
CgConstants == {0, 1, 2, 4, 8, 65535}
ImmLen(k) == IF k \in CgConstants THEN 0 ELSE 2

\* The arbiter: irqOut is raised while any line is asserted and idxOut is
\* the lowest asserted index; the acknowledge pulse goes to the line that
\* is selected when ira rises, and clears it if its ira is wired.
Irq == lines # {}
IrqIdx == CHOOSE i \in lines : \A j \in lines : i =< j
Ack(i) == IF i \in AckedSources THEN lines \ {i} ELSE lines

Instr == IF pc \in DOMAIN Program THEN Program[pc] ELSE [op |-> "INVALID"]

Bit(v, b) == (v & b) # 0

-----------------------------------------------------------------------------
(***************************************************************************)
(* Instruction semantics.  Each operator relates pc, sp, sr, mem, lines,   *)
(* frames and halted; the extension words fetched by getSourceOperand and  *)
(* getDestinationOperand advance the PC.                                   *)
(***************************************************************************)

\* BIS #k, SR: dst |= src (EINT, and entry to LPM0 with #CPUOFF|GIE)
BisSr(i) ==
  /\ i.op = "BIS_SR"
  /\ sr' = sr | i.k
  /\ pc' = Wrap(pc + 2 + ImmLen(i.k))
  /\ UNCHANGED <<sp, mem, lines, halted, frames>>

\* BIC #k, SR: dst &= ~src (DINT)
BicSr(i) ==
  /\ i.op = "BIC_SR"
  /\ sr' = sr & Not16(i.k)
  /\ pc' = Wrap(pc + 2 + ImmLen(i.k))
  /\ UNCHANGED <<sp, mem, lines, halted, frames>>

\* MOV #k, SP
MovSp(i) ==
  /\ i.op = "MOV_SP"
  /\ sp' = i.k
  /\ pc' = Wrap(pc + 2 + ImmLen(i.k))
  /\ UNCHANGED <<sr, mem, lines, halted, frames>>

\* BIC #k, 0(SP): indexed destination, read-modify-write of the word at SP
\* (the stacked SR when used as bic-on-exit in a handler)
BicAtSp(i) ==
  /\ i.op = "BIC_0SP"
  /\ pc' = Wrap(pc + 4 + ImmLen(i.k))
  /\ IF sp \in RamWords
       THEN mem' = [mem EXCEPT ![sp] = @ & Not16(i.k)] /\ UNCHANGED halted
       ELSE halted' = "fault" /\ UNCHANGED mem
  /\ UNCHANGED <<sp, sr, lines, frames>>

\* MOV #0, &IFG: a handler's write to the peripheral register that clears
\* its interrupt flag (absolute destination: one extension word)
ClrIfg(i) ==
  /\ i.op = "CLR_IFG"
  /\ lines' = lines \ {i.src}
  /\ pc' = Wrap(pc + 4)
  /\ UNCHANGED <<sp, sr, mem, halted, frames>>

\* executeConditionalJump, condition 7 (JMP): 10-bit signed word offset
SignExt10(raw) == IF raw >= 512 THEN raw - 1024 ELSE raw

\* mutant of Jmp: the offset is not scaled to words (jumpOffset *= 2 lost)
JmpByteOffset(i) ==
  /\ i.op = "JMP"
  /\ pc' = Wrap(pc + 2 + SignExt10(i.off))
  /\ UNCHANGED <<sp, sr, mem, lines, halted, frames>>

Jmp(i) ==
  /\ i.op = "JMP"
  /\ pc' = Wrap(pc + 2 + 2 * SignExt10(i.off))
  /\ UNCHANGED <<sp, sr, mem, lines, halted, frames>>

\* mutant of Reti: PC popped before SR
RetiPcFirst(i) ==
  /\ i.op = "RETI"
  /\ IF {sp, Wrap(sp + 2)} \subseteq RamWords
       THEN /\ pc' = mem[sp]
            /\ sr' = mem[Wrap(sp + 2)]
            /\ sp' = Wrap(sp + 4)
            /\ UNCHANGED halted
       ELSE halted' = "fault" /\ UNCHANGED <<pc, sp, sr>>
  /\ frames' = IF frames = <<>> THEN <<>> ELSE Tail(frames)
  /\ UNCHANGED <<mem, lines>>

\* RETI: pop SR, then pop PC
Reti(i) ==
  /\ i.op = "RETI"
  /\ IF {sp, Wrap(sp + 2)} \subseteq RamWords
       THEN /\ sr' = mem[sp]
            /\ pc' = mem[Wrap(sp + 2)]
            /\ sp' = Wrap(sp + 4)
            /\ UNCHANGED halted
       ELSE halted' = "fault" /\ UNCHANGED <<pc, sp, sr>>
  /\ frames' = IF frames = <<>> THEN <<>> ELSE Tail(frames)
  /\ UNCHANGED <<mem, lines>>

\* executeSingleOpInstruction case 4, PUSH #k: SP -= 2 and the word is
\* written at the new SP; the immediate takes an extension word unless a
\* constant generator supplies it
PushImm(i) ==
  /\ i.op = "PUSH"
  /\ Push(i.k)
  /\ pc' = Wrap(pc + 2 + ImmLen(i.k))
  /\ UNCHANGED <<sr, lines, frames>>

\* the address a CALL #k returns to: past its extension word
CallReturn(i) == Wrap(pc + 2 + ImmLen(i.k))

\* mutant of CallImm: the PC pushed is that of the extension word
CallImmExtWord(i) ==
  /\ i.op = "CALL"
  /\ Push(Wrap(pc + 2))
  /\ pc' = i.k
  /\ frames' = <<[kind |-> "call", pc |-> CallReturn(i), sp |-> sp, sr |-> sr]>>
                \o frames
  /\ UNCHANGED <<sr, lines>>

\* case 5, CALL #k: getSourceOperand has already fetched the immediate, so
\* the PC pushed is the address after the instruction; then PC = k (set
\* even when the push failed and sc_stop() is pending)
CallImm(i) ==
  /\ i.op = "CALL"
  /\ Push(CallReturn(i))
  /\ pc' = i.k
  /\ frames' = <<[kind |-> "call", pc |-> CallReturn(i), sp |-> sp, sr |-> sr]>>
                \o frames
  /\ UNCHANGED <<sr, lines>>

\* MOV @SP+, Rn (POP Rn): getSourceOperand increments SP by 2 and loads the
\* word at the old SP into Rn, a general register this model does not hold
PopReg(i) ==
  /\ i.op = "POP"
  /\ halted' = BusError({sp})
  /\ sp' = Wrap(sp + 2)
  /\ pc' = Wrap(pc + 2)
  /\ UNCHANGED <<sr, mem, lines, frames>>

\* MOV @SP+, PC (RET): the same load, written back to the PC
Ret(i) ==
  /\ i.op = "RET"
  /\ halted' = BusError({sp})
  /\ pc' = IF sp \in RamWords THEN mem[sp] ELSE pc
  /\ sp' = Wrap(sp + 2)
  /\ frames' = IF frames = <<>> THEN <<>> ELSE Tail(frames)
  /\ UNCHANGED <<sr, mem, lines>>

\* MOV R3, R3
Nop(i) ==
  /\ i.op = "NOP"
  /\ pc' = Wrap(pc + 2)
  /\ UNCHANGED <<sp, sr, mem, lines, halted, frames>>

ExecInstr(i) ==
  \/ BisSr(i) \/ BicSr(i) \/ MovSp(i) \/ BicAtSp(i) \/ ClrIfg(i)
  \/ Jmp(i) \/ Reti(i) \/ Nop(i)
  \/ PushImm(i) \/ CallImm(i) \/ PopReg(i) \/ Ret(i)

\* fetch(): readMem fails while the memories are unpowered (power fell
\* during the waits of processInterrupt, which process() does not check
\* again); executeSingleOpInstruction case 7, and any fetch of a word that
\* is not one of the program's instructions, ends in SC_REPORT_FATAL
FetchExecute ==
  IF ~pwrOn
    THEN halted' = "unpowered" /\ UNCHANGED <<pc, sp, sr, mem, lines, frames>>
  ELSE IF pc \in DOMAIN Program
    THEN ExecInstr(Program[pc])
    ELSE halted' = "fault" /\ UNCHANGED <<pc, sp, sr, mem, lines, frames>>

-----------------------------------------------------------------------------
(***************************************************************************)
(* The CPU thread: process() and processInterrupt().                       *)
(***************************************************************************)

\* the CPU thread moves from one point of the loop to the next; after
\* sc_stop() nothing moves any more
Goto(from, to) == Live /\ lp = from /\ lp' = to

\* while (true) { if (pwrOn.read() && m_run) ...
LoopTop ==
  /\ Live /\ lp = "top"
  /\ lp' = IF pwrOn /\ run THEN "irq" ELSE "stallchk"
  /\ window' = FALSE
  /\ UNCHANGED <<pc, sp, sr, mem, run, doStep, sleeping, bps, pwrOn, lines,
                 raised, halted, addr, frames, lastCmd>>

\* if (irq.read()) is false
NoInterrupt ==
  /\ Goto("irq", "bp")
  /\ ~Irq
  /\ window' = FALSE
  /\ UNCHANGED <<pc, sp, sr, mem, run, doStep, sleeping, bps, pwrOn, lines,
                 raised, halted, addr, frames, lastCmd>>

\* processInterrupt, irqIdx == 0 (BOR/PUC): acknowledge and wait two
\* cycles; nothing is stacked, the reset vector is loaded by VectorRead
IrqReset ==
  /\ Goto("irq", "resetread")
  /\ Irq /\ IrqIdx = 0
  /\ lines' = Ack(0)
  /\ addr' = ResetVector
  /\ frames' = <<>>
  /\ window' = TRUE
  /\ UNCHANGED <<pc, sp, sr, mem, run, doStep, sleeping, bps, pwrOn, raised,
                 halted, lastCmd>>

\* processInterrupt, GIE or NMI: push PC; writeMem then waits for the bus
IrqPush ==
  /\ Goto("irq", "pushsr")
  /\ Irq /\ IrqIdx # 0
  /\ Bit(sr, GIE) \/ IrqIdx < 3
  /\ Push(pc)
  /\ frames' = <<[kind |-> "irq", pc |-> pc, sp |-> sp, sr |-> sr]>> \o frames
  /\ window' = TRUE
  /\ UNCHANGED <<pc, sr, run, doStep, sleeping, bps, pwrOn, lines, raised,
                 addr, lastCmd>>

\* push SR, after the wait of the first write
IrqPushSr ==
  /\ Goto("pushsr", "irqvec")
  /\ Push(sr)
  /\ window' = TRUE
  /\ UNCHANGED <<pc, sr, run, doStep, sleeping, bps, pwrOn, lines, raised,
                 addr, frames, lastCmd>>

\* processInterrupt, interrupts disabled and not an NMI: do nothing
IrqMasked ==
  /\ Goto("irq", "bp")
  /\ Irq /\ IrqIdx # 0
  /\ ~Bit(sr, GIE) /\ IrqIdx >= 3
  /\ window' = FALSE
  /\ UNCHANGED <<pc, sp, sr, mem, run, doStep, sleeping, bps, pwrOn, lines,
                 raised, halted, addr, frames, lastCmd>>

\* mutant of IrqVector: the acknowledge pulse is never written
IrqVectorNoAck ==
  /\ Goto("irqvec", "vecread")
  /\ Irq
  /\ addr' = VectorAddr(IrqIdx)
  /\ window' = TRUE
  /\ UNCHANGED <<pc, sp, sr, mem, run, doStep, sleeping, bps, pwrOn, lines,
                 raised, halted, frames, lastCmd>>

\* after the pushes: the vector address from irqIdx (read again), the
\* acknowledge pulse and wait(2 * MCLK period)
IrqVector ==
  /\ Goto("irqvec", "vecread")
  /\ Irq
  /\ addr' = VectorAddr(IrqIdx)
  /\ lines' = Ack(IrqIdx)
  /\ window' = TRUE
  /\ UNCHANGED <<pc, sp, sr, mem, run, doStep, sleeping, bps, pwrOn, raised,
                 halted, frames, lastCmd>>

\* both branches then clear SR except SCG0 and load PC with read16(addr)
\* from the "vectors" memory; only the BOR branch ("resetread") leaves
\* sleep: the GIE branch keeps m_sleeping even when its re-read irqIdx is 0
VectorRead ==
  /\ Live /\ lp \in {"vecread", "resetread"} /\ lp' = "bp"
  /\ sr' = sr & SCG0
  /\ halted' = IF pwrOn THEN "none" ELSE "unpowered"
  /\ pc' = IF pwrOn THEN VectorTable[addr] ELSE pc
  /\ sleeping' = IF lp = "resetread" THEN FALSE ELSE sleeping
  /\ window' = TRUE
  /\ UNCHANGED <<sp, mem, run, doStep, bps, pwrOn, lines, raised, addr,
                 frames, lastCmd>>

\* a breakpoint at the PC stalls the CPU and continues at the loop top
BreakpointHit ==
  /\ Goto("bp", "top")
  /\ pc \in bps
  /\ run' = FALSE
  /\ window' = FALSE
  /\ UNCHANGED <<pc, sp, sr, mem, doStep, sleeping, bps, pwrOn, lines,
                 raised, halted, addr, frames, lastCmd>>

\* CPUOFF set: low-power mode, wait one MCLK period
Sleep ==
  /\ Goto("bp", "stallchk")
  /\ pc \notin bps
  /\ Bit(sr, CPUOFF)
  /\ sleeping' = TRUE
  /\ window' = TRUE
  /\ UNCHANGED <<pc, sp, sr, mem, run, doStep, bps, pwrOn, lines, raised,
                 halted, addr, frames, lastCmd>>

\* normal mode: fetch, decode and execute one instruction, then end a
\* single step
Execute ==
  /\ Goto("bp", "stallchk")
  /\ pc \notin bps
  /\ ~Bit(sr, CPUOFF)
  /\ sleeping' = FALSE
  /\ FetchExecute
  /\ IF doStep
       THEN run' = FALSE /\ doStep' = FALSE
       ELSE UNCHANGED <<run, doStep>>
  /\ window' = TRUE
  /\ UNCHANGED <<bps, pwrOn, raised, addr, lastCmd>>

\* if (!m_run) waitForCommand(): polls m_run in real time; simulated time
\* does not advance, so the SystemC processes stay frozen
StallCheck ==
  /\ Goto("stallchk", "pwrchk")
  /\ run
  /\ window' = FALSE
  /\ UNCHANGED <<pc, sp, sr, mem, run, doStep, sleeping, bps, pwrOn, lines,
                 raised, halted, addr, frames, lastCmd>>

\* if (m_run && !pwrOn.read()) wait(pwrOn.posedge_event())
PowerCheck ==
  /\ Live /\ lp = "pwrchk"
  /\ IF run /\ ~pwrOn
       THEN lp' = "off" /\ window' = TRUE
       ELSE lp' = "top" /\ window' = FALSE
  /\ UNCHANGED <<pc, sp, sr, mem, run, doStep, sleeping, bps, pwrOn, lines,
                 raised, halted, addr, frames, lastCmd>>

\* the power-up edge: m_sleeping = false; reset(): all registers 0 and
\* SR = CPUOFF, so nothing runs until the power-up interrupt
Restart ==
  /\ Goto("off", "top")
  /\ pwrOn
  /\ sleeping' = FALSE
  /\ pc' = 0 /\ sp' = 0 /\ sr' = CPUOFF
  /\ frames' = <<>>
  /\ window' = FALSE
  /\ UNCHANGED <<mem, run, doStep, bps, pwrOn, lines, raised, halted, addr, lastCmd>>

CpuStep ==
  \/ LoopTop \/ NoInterrupt \/ IrqReset \/ IrqPush \/ IrqPushSr \/ IrqMasked
  \/ IrqVector \/ VectorRead
  \/ BreakpointHit \/ Sleep \/ Execute \/ StallCheck \/ PowerCheck \/ Restart

-----------------------------------------------------------------------------
(***************************************************************************)
(* The debug-server thread (stall, unstall, step, breakpoints).  Its       *)
(* client speaks the GDB remote protocol, which sends continue and step    *)
(* only to a stopped target and then waits for the stop reply; an          *)
(* interrupt (stall) and breakpoint changes may come at any time.          *)
(***************************************************************************)

DbgUnchanged == Live /\ UNCHANGED <<pc, sp, sr, mem, lp, window, sleeping, pwrOn,
                            lines, raised, halted, addr, frames>>

Stall ==
  /\ run' = FALSE /\ lastCmd' = "stall"
  /\ UNCHANGED <<doStep, bps>> /\ DbgUnchanged

Unstall ==
  /\ ~run
  /\ run' = TRUE /\ lastCmd' = "unstall"
  /\ UNCHANGED <<doStep, bps>> /\ DbgUnchanged

Step ==
  /\ ~run
  /\ doStep' = TRUE /\ run' = TRUE /\ lastCmd' = "step"
  /\ UNCHANGED bps /\ DbgUnchanged

InsertBreakpoint(a) ==
  /\ bps' = bps \cup {a}
  /\ UNCHANGED <<run, doStep, lastCmd>> /\ DbgUnchanged

RemoveBreakpoint(a) ==
  /\ bps' = bps \ {a}
  /\ UNCHANGED <<run, doStep, lastCmd>> /\ DbgUnchanged

DebugStep ==
  \/ Stall \/ Unstall \/ Step
  \/ \E a \in BpAddrs : InsertBreakpoint(a) \/ RemoveBreakpoint(a)

-----------------------------------------------------------------------------
(***************************************************************************)
(* The environment: the supply switching nReset, the PMM raising the       *)
(* power-up interrupt, peripherals raising their request lines.  They act  *)
(* only while the CPU thread waits for simulated time.                     *)
(***************************************************************************)

EnvUnchanged == Live /\ UNCHANGED <<pc, sp, sr, mem, lp, window, run, doStep,
                            sleeping, bps, halted, addr, frames, lastCmd>>

PowerOff ==
  /\ window /\ pwrOn
  /\ pwrOn' = FALSE
  /\ UNCHANGED <<lines, raised>> /\ EnvUnchanged

\* peripherals restart from reset and the PMM requests the BOR interrupt
PowerOn ==
  /\ window /\ ~pwrOn
  /\ pwrOn' = TRUE
  /\ lines' = {0}
  /\ UNCHANGED raised /\ EnvUnchanged

RaiseIrq(s) ==
  /\ window /\ pwrOn
  /\ s \notin lines
  /\ raised < MaxIrqRaises
  /\ lines' = lines \cup {s}
  /\ raised' = raised + 1
  /\ UNCHANGED pwrOn /\ EnvUnchanged

EnvStep ==
  \/ PowerOff \/ PowerOn
  \/ \E s \in Sources \ {0} : RaiseIrq(s)

-----------------------------------------------------------------------------

\* The simulation starts unpowered with the CPU in its reset state.
Init ==
  /\ pc = 0 /\ sp = 0 /\ sr = CPUOFF
  /\ mem = [a \in RamWords |-> 0]
  /\ lp = "top" /\ window = FALSE
  /\ run = TRUE /\ doStep = FALSE /\ sleeping = FALSE
  /\ bps = {}
  /\ pwrOn = FALSE
  /\ lines = {} /\ raised = 0
  /\ halted = "none" /\ addr = ResetVector
  /\ frames = <<>>
  /\ lastCmd = "none"

\* sc_stop()/SC_REPORT_FATAL end the simulation: sc_start returns and the
\* last state stays as it is
SimulationStopped == ~Live /\ UNCHANGED vars

Next == CpuStep \/ DebugStep \/ EnvStep \/ SimulationStopped

\* The SystemC scheduler resumes the CPU thread whenever it is runnable.
Fairness == WF_vars(CpuStep)

Spec == Init /\ [][Next]_vars /\ Fairness

-----------------------------------------------------------------------------
(***************************************************************************)
(* Properties.                                                             *)
(***************************************************************************)

\* Registers keep their 16-bit width and the PC stays word aligned (the
\* assert in fetch()).
TypeOK ==
  /\ pc \in Word /\ pc % 2 = 0
  /\ sp \in Word /\ sr \in Word
  /\ mem \in [RamWords -> Word]
  /\ lp \in Labels
  /\ {window, run, doStep, sleeping, pwrOn} \subseteq BOOLEAN
  /\ halted \in StopCauses /\ addr \in DOMAIN VectorTable
  /\ bps \subseteq BpAddrs
  /\ lines \subseteq Sources
  /\ raised \in 0..MaxIrqRaises

\* The firmware never drives the simulator into a fatal stop of its own
\* making: no bus access leaves the mapped stack window and no invalid
\* instruction is fetched, across power cycles, debugger stalls and nested
\* interrupts.  (An access to a target that lost power during the waits of
\* processInterrupt stops it too, as spec sections 7 and 9 have it.)
NeverHalts == halted # "fault"

\* RETI, executed by a handler, returns to the instruction the matching
\* interrupt entry interrupted, with the stack pointer and the GIE bit it
\* had there, even when another interrupt nested inside the handler.
RetiRestoresContext ==
  [][(Execute /\ Instr.op = "RETI") =>
       /\ frames # <<>> /\ Head(frames).kind = "irq"
       /\ pc' = Head(frames).pc
       /\ sp' = Head(frames).sp
       /\ Bit(sr', GIE) = Bit(Head(frames).sr, GIE)]_vars

\* RET (MOV @SP+, PC) returns to the instruction after the CALL it matches,
\* with SP as it was before that CALL, although interrupt entries (nested
\* ones included) and the subroutine's own PUSH and POP moved SP and wrote
\* the stack in between.
RetReturnsToCaller ==
  [][(Execute /\ Instr.op = "RET") =>
       /\ frames # <<>> /\ Head(frames).kind = "call"
       /\ pc' = Head(frames).pc
       /\ sp' = Head(frames).sp]_vars

\* Every asserted interrupt request is eventually served (its flag cleared
\* by the acknowledge or by its handler) unless the debugger stalls the
\* CPU or the power fails: a sleeping CPU wakes for it and RETI does not
\* leave interrupts disabled.
ServedEventually ==
  \A s \in Sources :
    (s \in lines) ~> (s \notin lines \/ ~run \/ ~pwrOn \/ ~Live)

\* The CPU stalls by itself after retiring an instruction only to end a
\* single step the debugger asked for.
StallsOnlyAfterStep ==
  [][(Execute /\ run /\ ~run') => lastCmd = "step"]_vars

=============================================================================
