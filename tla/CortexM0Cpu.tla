---------------------------- MODULE CortexM0Cpu ----------------------------
(***************************************************************************)
(* The Cortex-M0 core of src/mcu/cortex-m0/CortexM0Cpu.cpp: the loop       *)
(* process() with its two-entry instruction queue, pipeline bubbles and    *)
(* flush, exceptionCheck/exceptionEnter/exceptionReturn with the 8-byte    *)
(* stack-frame alignment, sleep on WFI/WFE, the breakpoint test, the       *)
(* single step that waits for the bubbles, the power-off wait and reset(), *)
(* together with the debug-server thread and the SystemC processes that    *)
(* drive pwrOn and the SysTick/NVIC request signals.                       *)
(* The instruction engine behind decode()/exwbmem() is not part of this    *)
(* repository; it is reduced to the few instructions whose effect on PC,   *)
(* SP, LR, the queue and the request lines the properties need.  The PC    *)
(* variable is the fetch pointer gpr[15] with its thumb bit, which runs    *)
(* four bytes ahead of the executing instruction once the queue is full.   *)
(***************************************************************************)
EXTENDS Integers, Sequences, FiniteSets, Bitwise

CONSTANTS
  Program,      \* [halfword address -> instruction] in ROM
  Vectors,      \* [exception id -> handler address (thumb bit set)]
  ResetSp,      \* ROM word 0: initial main stack pointer
  ResetPc,      \* ROM word 1: reset handler (thumb bit set)
  Exceptions,   \* exception ids the SysTick and NVIC signals can present
  StackWords,   \* word addresses of the modelled stack window of SRAM
  BpAddrs,      \* addresses the debugger may set breakpoints at
  PcWrites,     \* addresses the debugger may write into the PC
  MaxIrqRaises  \* bound on peripheral interrupt requests in one behaviour

SysTickId == 15

\* EXC_RETURN values written to LR by exceptionEnter, as the 32-bit
\* words read as two's complement (TLC integers are signed 32-bit)
ExcNested == -15             \* 0xFFFFFFF1
ExcThreadMain == -7          \* 0xFFFFFFF9
ExcReturns == {ExcNested, ExcThreadMain}

NOP == -1                    \* OPCODE_NOP pushed by flushPipeline (no address)
Bubbles == <<NOP, NOP>>

ASSUME
  /\ Exceptions \subseteq 15..47
  /\ \A id \in Exceptions : id \in DOMAIN Vectors
  /\ MaxIrqRaises \in Nat

VARIABLES
  pc, sp, lr,     \* gpr[15] (fetch pointer), gpr[13], gpr[14]
  ipsr,           \* cpu.ipsr: the active exception number, 0 in thread mode
  handlerMode,    \* cpu_mode_handler() / cpu_mode_thread()
  queue,          \* m_instructionQueue: fetched halfword addresses or NOP
  bubbles,        \* m_bubbles
  mem,            \* the stack window of SRAM, one value per word
  snap,           \* m_regsAtExceptEnter (PC, SP, LR part)
  lp,             \* where process() is in its loop
  window,         \* the CPU thread waited for simulated time since its last read of a signal
  sleeping,       \* m_sleeping
  sleepSig,       \* sysTickIrq, nvicIrq and pwrOn when the CPU began to sleep
  run, doStep, bps,  \* m_run, m_doStep, m_breakpoints
  pwrOn,          \* the pwrOn input
  pending,        \* exception requests presented on sysTickIrq / nvicIrq
  raised,         \* peripheral requests raised so far (bounded)
  halted,         \* sc_stop() or SC_REPORT_FATAL was called
  frames,         \* history: contexts saved by exception entries
  expect          \* history: address of the instruction program order runs next

vars == <<pc, sp, lr, ipsr, handlerMode, queue, bubbles, mem, snap, lp, window,
          sleeping, sleepSig, run, doStep, bps, pwrOn, pending, raised, halted,
          frames, expect>>

Labels == {"top", "exc", "body", "sleepwait", "stallchk", "pwrchk", "off"}

-----------------------------------------------------------------------------
(***************************************************************************)
(* Signals and address arithmetic.                                         *)
(***************************************************************************)

\* pc & ~1: the halfword address the next fetch reads
FetchAddr == pc - (pc % 2)

\* exceptionCheck: SysTick has priority, otherwise the NVIC's request
\* (the NVIC presents its lowest pending id; -1 when none)
SysTickOut(p) == SysTickId \in p
NvicOut(p) == IF p \ {SysTickId} = {} THEN -1
              ELSE CHOOSE i \in p \ {SysTickId} : \A j \in p \ {SysTickId} : i =< j
ExcId == IF SysTickOut(pending) THEN SysTickId ELSE NvicOut(pending)

\* (x & ~4) and (x | 4) on a word-aligned stack pointer
ClearBit2(x) == x - (x & 4)
SetBit2(x) == x | 4

\* the eight words R0-R3, R12, LR, PC, xPSR of a frame at fp
FrameWords(fp) == {fp + 4 * k : k \in 0..7}

-----------------------------------------------------------------------------
(***************************************************************************)
(* Exception entry and return.                                             *)
(***************************************************************************)

\* mutant of Flush: a single no-op is queued
FlushOneNop == queue' = <<NOP>> /\ bubbles' = 2

\* readMem/writeMem: an address no target maps gets an error response and
\* sc_stop() ends the simulation (only the stack window is mapped here)
AccessFails(ws) == ~(ws \subseteq StackWords)

\* flushPipeline(): two no-ops and two bubbles
Flush == queue' = Bubbles /\ bubbles' = 2

\* mutant of StackedPc: the bubble correction is left out
StackedPcNoBubbles == pc - 4

\* pc - (4 - 2 * m_bubbles): the next instruction not yet executed
StackedPc == pc - (4 - 2 * bubbles)

\* exceptionEnter(id): snapshot, align the frame to 8 bytes, stack
\* R0-R3, R12, LR, the bubble-corrected PC and xPSR with the alignment
\* flag in bit 9, EXC_RETURN into LR, handler mode, jump to the vector
ExceptionEnter(id) ==
  LET frameAlign == IF (sp & 4) # 0 THEN 1 ELSE 0
      fp == ClearBit2(sp - 32)
      retPc == StackedPc
  IN /\ snap' = [pc |-> retPc, sp |-> sp, lr |-> lr]
     /\ sp' = fp
     /\ IF ~AccessFails(FrameWords(fp))
          THEN /\ mem' = [a \in DOMAIN mem |->
                           CASE a = fp + 20 -> lr
                             [] a = fp + 24 -> retPc
                             [] a = fp + 28 -> frameAlign * 512
                             [] a \in FrameWords(fp) -> 0
                             [] OTHER -> mem[a]]
               /\ UNCHANGED halted
          ELSE halted' = TRUE /\ UNCHANGED mem
     /\ lr' = IF handlerMode THEN ExcNested ELSE ExcThreadMain
     /\ handlerMode' = TRUE
     /\ ipsr' = id
     /\ pc' = Vectors[id]
     /\ Flush
     /\ frames' = <<[ret |-> expect, sp |-> sp, lr |-> lr]>> \o frames
     /\ expect' = Vectors[id] - (Vectors[id] % 2)

\* SP after the frame is popped: bit 2 set again if the frame was aligned
RestoredSp(fp, apsr) == IF (apsr & 512) # 0 THEN SetBit2(fp + 32) ELSE fp + 32

\* exceptionReturn(EXC_RETURN): mode from the tag, pop the frame at SP,
\* restore SP with bit 2 set again if the frame was aligned, takenBranch
ExceptionReturn(exc) ==
  LET fp == sp
      storedApsr == mem[fp + 28]
  IN /\ IF exc \in ExcReturns /\ ~AccessFails(FrameWords(fp))
          THEN /\ handlerMode' = (exc = ExcNested)
               /\ ipsr' = 0
               /\ lr' = mem[fp + 20]
               /\ pc' = mem[fp + 24]
               /\ sp' = RestoredSp(fp, storedApsr)
               /\ UNCHANGED halted
          ELSE halted' = TRUE /\ UNCHANGED <<handlerMode, ipsr, lr, pc, sp>>
     /\ Flush
     /\ frames' = IF frames = <<>> THEN <<>> ELSE Tail(frames)
     /\ expect' = IF frames = <<>> THEN expect ELSE Head(frames).ret
     /\ UNCHANGED <<mem, snap>>

-----------------------------------------------------------------------------
(***************************************************************************)
(* One pass of the loop body: the instruction at the head of the queue is  *)
(* executed while the word at the fetch pointer is appended.               *)
(***************************************************************************)

\* no branch: m_bubbles-- and PC + 2; the queue keeps two entries
Advance ==
  /\ pc' = pc + 2
  /\ queue' = Tail(Append(queue, FetchAddr))
  /\ bubbles' = IF bubbles > 0 THEN bubbles - 1 ELSE 0

\* takenBranch: flushPipeline(), the engine already set the PC
Taken(target) == pc' = target /\ Flush

DataRegs == <<sp, lr, ipsr, handlerMode, mem, snap, frames>>

\* a bubble: OPCODE_NOP from the queue
ExecBubble ==
  /\ Advance
  /\ UNCHANGED <<DataRegs, sleeping, pending, halted, expect>>

ExecNop(a) ==
  /\ Program[a].op = "NOP"
  /\ Advance /\ expect' = a + 2
  /\ UNCHANGED <<DataRegs, sleeping, pending, halted>>

\* WFI/WFE: m_sleeping = true; the PC still advances
ExecWfi(a) ==
  /\ Program[a].op = "WFI"
  /\ sleeping' = TRUE
  /\ Advance /\ expect' = a + 2
  /\ UNCHANGED <<DataRegs, pending, halted>>

\* B label: the engine adds the offset to the PC it reads (address + 4)
ExecB(a) ==
  /\ Program[a].op = "B"
  /\ Taken(FetchAddr + Program[a].off + 1)
  /\ expect' = a + 4 + Program[a].off
  /\ UNCHANGED <<DataRegs, sleeping, pending, halted>>

\* PUSH {r}: one word below SP
ExecPush(a) ==
  /\ Program[a].op = "PUSH"
  /\ sp' = sp - 4
  /\ IF ~AccessFails({sp - 4})
       THEN mem' = [mem EXCEPT ![sp - 4] = 0] /\ UNCHANGED halted
       ELSE halted' = TRUE /\ UNCHANGED mem
  /\ Advance /\ expect' = a + 2
  /\ UNCHANGED <<lr, ipsr, handlerMode, snap, frames, sleeping, pending>>

\* POP {r}
ExecPop(a) ==
  /\ Program[a].op = "POP"
  /\ sp' = sp + 4
  /\ halted' = AccessFails({sp})
  /\ Advance /\ expect' = a + 2
  /\ UNCHANGED <<lr, ipsr, handlerMode, mem, snap, frames, sleeping, pending>>

\* a handler's store to its peripheral that withdraws the request
ExecClrPend(a) ==
  /\ Program[a].op = "CLRPEND"
  /\ pending' = pending \ {Program[a].id}
  /\ Advance /\ expect' = a + 2
  /\ UNCHANGED <<DataRegs, sleeping, halted>>

\* BX LR with an EXC_RETURN value: exception_return_cb -> exceptionReturn
ExecExcReturn(a) ==
  /\ Program[a].op = "BX_LR"
  /\ lr < 0 /\ lr >= -268435456       \* 0xF0000000..0xFFFFFFFF: EXC_RETURN
  /\ ExceptionReturn(lr)
  /\ UNCHANGED <<sleeping, pending>>

Exec(a) ==
  \/ ExecNop(a) \/ ExecWfi(a) \/ ExecB(a) \/ ExecPush(a) \/ ExecPop(a)
  \/ ExecClrPend(a) \/ ExecExcReturn(a)

\* if (m_doStep && (m_bubbles == 0)): a step ends only on a full queue
EndStep ==
  IF doStep /\ bubbles' = 0
    THEN run' = FALSE /\ doStep' = FALSE
    ELSE UNCHANGED <<run, doStep>>

-----------------------------------------------------------------------------
(***************************************************************************)
(* The CPU thread: process().                                              *)
(***************************************************************************)

Goto(from, to) == ~halted /\ lp = from /\ lp' = to

\* the breakpoint test: (cpu_get_pc() & ~1) - 4
BpTest == FetchAddr - 4

\* while (true) { if (pwrOn.read() && m_run) ...
LoopTop ==
  /\ ~halted /\ lp = "top"
  /\ lp' = IF pwrOn /\ run THEN "exc" ELSE "stallchk"
  /\ window' = FALSE
  /\ UNCHANGED <<pc, sp, lr, ipsr, handlerMode, queue, bubbles, mem, snap,
                 sleeping, sleepSig, run, doStep, bps, pwrOn, pending, raised,
                 halted, frames, expect>>

\* the thumb-mode check (fatal on an even PC), then exceptionCheck() finds
\* a pending exception with no exception active: m_sleeping = false and
\* exceptionEnter(); the frame writes wait for the bus
TakeException ==
  /\ Goto("exc", "body")
  /\ IF pc % 2 = 0
       THEN halted' = TRUE
            /\ UNCHANGED <<pc, sp, lr, ipsr, handlerMode, queue, bubbles, mem,
                           snap, sleeping, frames, expect>>
       ELSE /\ ipsr = 0 /\ pending # {}
            /\ ExceptionEnter(ExcId)
            /\ sleeping' = FALSE
  /\ window' = TRUE
  /\ UNCHANGED <<sleepSig, run, doStep, bps, pwrOn, pending, raised>>

\* exceptionCheck() returns early (exception active) or finds nothing
NoException ==
  /\ Goto("exc", "body")
  /\ pc % 2 = 1
  /\ ipsr # 0 \/ pending = {}
  /\ window' = FALSE
  /\ UNCHANGED <<pc, sp, lr, ipsr, handlerMode, queue, bubbles, mem, snap,
                 sleeping, sleepSig, run, doStep, bps, pwrOn, pending, raised,
                 halted, frames, expect>>

NotWaiting == <<FALSE, -1, FALSE>>

\* the signals the sleep wait is sensitive to
WaitSignals == <<SysTickOut(pending), NvicOut(pending), pwrOn>>

\* if (m_sleeping) wait(sysTickIrq | nvicIrq value change | pwrOn event)
SleepWait ==
  /\ Goto("body", "sleepwait")
  /\ sleeping
  /\ sleepSig' = WaitSignals
  /\ window' = TRUE
  /\ UNCHANGED <<pc, sp, lr, ipsr, handlerMode, queue, bubbles, mem, snap,
                 sleeping, run, doStep, bps, pwrOn, pending, raised, halted,
                 frames, expect>>

\* mutant of Wake: the wait is sensitive to pwrOn only
WakePwrOnly ==
  /\ Goto("sleepwait", "stallchk")
  /\ sleepSig[3] # pwrOn
  /\ UNCHANGED <<pc, sp, lr, ipsr, handlerMode, queue, bubbles, mem, snap,
                 window, sleeping, sleepSig, run, doStep, bps, pwrOn, pending,
                 raised, halted, frames, expect>>

\* one of the three signals changed since the wait began (the recorded
\* values matter only during the wait)
Wake ==
  /\ Goto("sleepwait", "stallchk")
  /\ WaitSignals # sleepSig
  /\ sleepSig' = NotWaiting
  /\ UNCHANGED <<pc, sp, lr, ipsr, handlerMode, queue, bubbles, mem, snap,
                 window, sleeping, run, doStep, bps, pwrOn, pending,
                 raised, halted, frames, expect>>

\* m_breakpoints.count((pc & ~1) - 4): stall and continue at the loop top
BreakpointHit ==
  /\ Goto("body", "top")
  /\ ~sleeping
  /\ BpTest \in bps
  /\ run' = FALSE
  /\ window' = FALSE
  /\ UNCHANGED <<pc, sp, lr, ipsr, handlerMode, queue, bubbles, mem, snap,
                 sleeping, sleepSig, doStep, bps, pwrOn, pending, raised, halted,
                 frames, expect>>

\* fetch into the queue, pop and execute the head (an instruction at an
\* address outside Program is not modelled and has no successor), bubble
\* count, flush or PC + 2, end of a single step
Cycle ==
  /\ Goto("body", "stallchk")
  /\ ~sleeping
  /\ BpTest \notin bps
  /\ \/ Head(queue) = NOP /\ ExecBubble
     \/ Head(queue) # NOP /\ Head(queue) \in DOMAIN Program /\ Exec(Head(queue))
  /\ EndStep
  /\ window' = TRUE
  /\ UNCHANGED <<sleepSig, bps, pwrOn, raised>>

\* if (!m_run) waitForCommand(): polls m_run in wall-clock time
StallCheck ==
  /\ Goto("stallchk", "pwrchk")
  /\ run
  /\ UNCHANGED <<pc, sp, lr, ipsr, handlerMode, queue, bubbles, mem, snap,
                 window, sleeping, sleepSig, run, doStep, bps, pwrOn, pending,
                 raised, halted, frames, expect>>

\* if (m_run && !pwrOn.read()) wait(pwrOn.default_event())
PowerCheck ==
  /\ ~halted /\ lp = "pwrchk"
  /\ IF run /\ ~pwrOn
       THEN lp' = "off" /\ window' = TRUE
       ELSE lp' = "top" /\ window' = FALSE
  /\ UNCHANGED <<pc, sp, lr, ipsr, handlerMode, queue, bubbles, mem, snap,
                 sleeping, sleepSig, run, doStep, bps, pwrOn, pending, raised,
                 halted, frames, expect>>

\* reset(): thread mode, no exception, SP and PC from the first two ROM
\* words, LR = 0, pipeline flushed
Restart ==
  /\ Goto("off", "top")
  /\ pwrOn
  /\ sleeping' = FALSE
  /\ ipsr' = 0 /\ handlerMode' = FALSE
  /\ sp' = ResetSp - (ResetSp % 4)          \* 0xFFFFFFFC & word
  /\ pc' = ResetPc
  /\ lr' = 0
  /\ Flush
  /\ frames' = <<>>
  /\ expect' = ResetPc - (ResetPc % 2)
  /\ window' = FALSE
  /\ UNCHANGED <<mem, snap, sleepSig, run, doStep, bps, pwrOn, pending, raised,
                 halted>>

CpuStep ==
  \/ LoopTop \/ TakeException \/ NoException \/ SleepWait \/ Wake
  \/ BreakpointHit \/ Cycle \/ StallCheck \/ PowerCheck \/ Restart

-----------------------------------------------------------------------------
(***************************************************************************)
(* The debug-server thread.  Its GDB client sends continue and step only   *)
(* to a stopped target and writes registers only while it is stopped.      *)
(***************************************************************************)

DbgUnchanged == ~halted /\ UNCHANGED <<sp, lr, ipsr, handlerMode, queue,
                  bubbles, mem, snap, lp, window, sleeping, sleepSig, pwrOn,
                  pending, raised, halted, frames>>

Stall ==
  /\ run' = FALSE
  /\ UNCHANGED <<pc, doStep, bps, expect>> /\ DbgUnchanged

Unstall ==
  /\ ~run /\ run' = TRUE
  /\ UNCHANGED <<pc, doStep, bps, expect>> /\ DbgUnchanged

Step ==
  /\ ~run /\ doStep' = TRUE /\ run' = TRUE
  /\ UNCHANGED <<pc, bps, expect>> /\ DbgUnchanged

\* insertBreakpoint/removeBreakpoint store addr & ~1
InsertBreakpoint(a) ==
  /\ bps' = bps \cup {a - (a % 2)}
  /\ UNCHANGED <<pc, run, doStep, expect>> /\ DbgUnchanged

RemoveBreakpoint(a) ==
  /\ bps' = bps \ {a - (a % 2)}
  /\ UNCHANGED <<pc, run, doStep, expect>> /\ DbgUnchanged

\* dbg_writeReg(PC_REGNUM, data): cpu_set_pc((data + 4) | 1); the client
\* means the target to continue at data
WritePc(x) ==
  /\ ~run
  /\ pc' = (x + 4) | 1
  /\ expect' = x
  /\ UNCHANGED <<run, doStep, bps>> /\ DbgUnchanged

DebugStep ==
  \/ Stall \/ Unstall \/ Step
  \/ \E a \in BpAddrs : InsertBreakpoint(a) \/ RemoveBreakpoint(a)

DebugWriteStep == \E x \in PcWrites : WritePc(x)

-----------------------------------------------------------------------------
(***************************************************************************)
(* The environment: the supply switching pwrOn, peripherals raising        *)
(* SysTick or NVIC requests.  They act only while the CPU thread waits for *)
(* simulated time.                                                        *)
(***************************************************************************)

EnvUnchanged == ~halted /\ UNCHANGED <<pc, sp, lr, ipsr, handlerMode, queue,
                  bubbles, mem, snap, lp, window, sleeping, sleepSig, run, doStep, bps,
                  halted, frames, expect>>

\* powerOffChecks() only logs a warning when the CPU was not sleeping
PowerOff ==
  /\ window /\ pwrOn
  /\ pwrOn' = FALSE
  /\ UNCHANGED <<pending, raised>> /\ EnvUnchanged

\* peripherals come out of reset with no request pending
PowerOn ==
  /\ window /\ ~pwrOn
  /\ pwrOn' = TRUE
  /\ pending' = {}
  /\ UNCHANGED raised /\ EnvUnchanged

RaiseExc(id) ==
  /\ window /\ pwrOn
  /\ id \notin pending
  /\ raised < MaxIrqRaises
  /\ pending' = pending \cup {id}
  /\ raised' = raised + 1
  /\ UNCHANGED pwrOn /\ EnvUnchanged

EnvStep ==
  \/ PowerOff \/ PowerOn
  \/ \E id \in Exceptions : RaiseExc(id)

-----------------------------------------------------------------------------

\* memset(&cpu, 0): all registers 0, the queue empty; the supply is off
\* when simulation starts
Init ==
  /\ pc = 0 /\ sp = 0 /\ lr = 0 /\ ipsr = 0 /\ handlerMode = FALSE
  /\ queue = <<>> /\ bubbles = 0
  /\ mem = [a \in StackWords |-> 0]
  /\ snap = [pc |-> 0, sp |-> 0, lr |-> 0]
  /\ lp = "top" /\ window = FALSE
  /\ sleeping = FALSE /\ sleepSig = NotWaiting
  /\ run = TRUE /\ doStep = FALSE /\ bps = {}
  /\ pwrOn = FALSE
  /\ pending = {} /\ raised = 0
  /\ halted = FALSE
  /\ frames = <<>> /\ expect = 0

\* a halted state (sc_stop, SC_REPORT_FATAL) has no successor
Next == CpuStep \/ DebugStep \/ EnvStep

\* the same with the debugger writing the PC
NextWithPcWrite == Next \/ DebugWriteStep

\* the SystemC scheduler resumes the CPU thread whenever it is runnable
Fairness == WF_vars(CpuStep)

Spec == Init /\ [][Next]_vars /\ Fairness
SpecWithPcWrite == Init /\ [][NextWithPcWrite]_vars /\ Fairness

-----------------------------------------------------------------------------
(***************************************************************************)
(* Properties.                                                             *)
(***************************************************************************)

\* the instruction the core executes next: the first fetched entry of the
\* queue, or the word at the fetch pointer while the queue holds bubbles
NextExec ==
  IF \E i \in 1..Len(queue) : queue[i] # NOP
    THEN queue[CHOOSE i \in 1..Len(queue) :
                 queue[i] # NOP /\ \A j \in 1..i-1 : queue[j] = NOP]
    ELSE FetchAddr

\* The architecture the pipeline presents: the next instruction to execute
\* is the architectural PC, the history of saved contexts its exception
\* stack, and the other registers are the code's own.
Arch == INSTANCE CortexM0Arch
          WITH pc <- NextExec, sp <- sp, lr <- lr, ipsr <- ipsr,
               handlerMode <- handlerMode, pending <- pending, stack <- frames

\* the PC dbg_readReg reports: (pc & ~1) - 4
DbgPc == FetchAddr - 4

\* Registers keep their shape: the PC keeps its thumb bit, SP stays word
\* aligned, the queue holds the two entries flushPipeline set up.
TypeOK ==
  /\ lp \in Labels
  /\ pc % 2 = 1 \/ queue = <<>>            \* before the first reset()
  /\ sp % 4 = 0
  /\ queue = <<>> \/ Len(queue) = 2
  /\ bubbles \in 0..2
  /\ ipsr \in {0} \cup Exceptions
  /\ pending \subseteq Exceptions
  /\ raised \in 0..MaxIrqRaises
  /\ bps \subseteq BpAddrs

\* The core executes instructions in program order: every instruction it
\* takes off the queue is the one the previous instruction, the exception
\* entry (vector), the exception return (stacked PC) or reset leads to,
\* whatever bubbles, flushes and exceptions came in between.
ProgramOrder ==
  [][Cycle /\ Head(queue) # NOP => Head(queue) = expect]_vars

\* Every SysTick or NVIC request is eventually taken unless the debugger
\* stalls the core or the power fails: a sleeping core wakes for it and
\* exceptionReturn re-enables exception entry.
PendingServed ==
  \A id \in Exceptions :
    (id \in pending) ~> (id \notin pending \/ ~run \/ ~pwrOn \/ halted)

\* The pipelined core implements the ARMv6-M machine of CortexM0Arch:
\* whatever bubbles are queued, whenever an exception is taken or the core
\* sleeps, stalls or loses power, each step of process() either leaves the
\* architectural state alone or is one instruction, exception entry,
\* exception return or reset of the architecture, with the return address
\* stacked through the bubble correction and SP restored through the
\* frame alignment.
ArchRefinement == Arch!Spec

\* When the core is stopped for the debugger, the PC it reports is the
\* instruction it will execute when resumed (spec: a breakpoint stops the
\* core before the instruction at its address executes).
StoppedAtNextInstr ==
  (lp = "stallchk" /\ ~run /\ queue # <<>>) => DbgPc = NextExec

====
