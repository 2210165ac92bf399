# TLA+ models of the fused MSP430 / Cortex-M0 simulator

This directory holds TLA+ models of the CPU cores of the SystemC simulator in
`src/`, and the TLC configurations that check them. The models cover the
interpreter loops, interrupt and exception entry and return, run control
(stall, step, breakpoints), sleep, power cycling, and how these interact with
the debug-server thread and the SystemC processes around the cores.

## The system

| Part | Source | What it does |
|---|---|---|
| MSP430 CPU | `src/mcu/msp430fr5xx/Msp430Cpu.cpp` | `process()` is one SystemC thread. Each iteration it checks `pwrOn && m_run`, handles a pending interrupt (`processInterrupt`), tests the breakpoint set, and then either sleeps one MCLK period (CPUOFF) or fetches and executes one instruction. It ends a single step, polls `m_run` while stalled (`waitForCommand`) and waits for power before `reset()`. |
| Cortex-M0 CPU | `src/mcu/cortex-m0/CortexM0Cpu.cpp` | The same loop shape with a two-entry instruction queue. After a flush the queue holds two NOP bubbles. `exceptionCheck/Enter/Return` build and pop an 8-word frame aligned to 8 bytes. WFI/WFE sleep until a request signal or power changes. An external engine decodes and executes instructions through callbacks. |
| Debug-server thread | (outside `src/`) | An OS thread that calls `stall`, `unstall`, `step`, `insertBreakpoint`, `removeBreakpoint` and `dbg_writeReg` at any moment. `waitForCommand` polls in wall-clock time, so simulated time is frozen while a core is stalled. |
| Interrupt arbiter / NVIC | (outside `src/`, spec §4.4) | Raises `irq` while any line is asserted and presents the lowest asserted index. The acknowledge pulse clears a line only if that line's `ira` is wired. |
| Board wiring | `src/mcu/Msp430Microcontroller.cpp` | Builds the memories and peripherals, each with an address window, pushes them into `slaves`, sorts them by start address and adds them to the bus in that order. Wires line 0 (PMM, BOR) and line 10 (timer A) with acknowledge, line 9 (ADC) without, and the port lines. `nReset` powers the CPU and every slave. `dbgReadMem`/`dbgWriteMem` are debug transactions on the bus. |
| Bus router | (outside `src/`, spec §4.2) | Finds the slave whose window holds an address, forwards the address relative to that window's start, and answers an error (timed) or 0 bytes (debug) for an unrouted address. |
| Supply circuit | `src/ps/ExternalCircuitry.hpp` | A SystemC AMS dataflow (TDF) cluster that runs once per timestep. `VoltageTraceReplayTDF` replays a voltage trace as a charging current, holding each sample for 1 ms. `CapacitorIdeal` integrates the net current. `VoltageDetectorWithOverride` switches the capacitor onto the MCU's `vcc` with hysteresis, or whenever the MCU's `keepAlive` forces it. |
| Bus target | `src/mcu/BusTarget.hpp` | The base class of memory-mapped targets: a fixed `[startAddress, endAddress]` window, a `pwrOn` input, and `inRange`. |

Concurrency model, as the code implements it:
- SystemC processes are cooperative. Peripherals and the supply change `pwrOn`,
  `irq`, `irqIdx`, `sysTickIrq` and `nvicIrq` only while a CPU thread is
  suspended in a `wait`: a bus access, a sleep, the power wait, or extra
  cycles. The models represent this with the variable `window`.
  - A CPU action that waited sets `window`.
  - A CPU action that reads signals without waiting clears it.
  - Environment actions require it.
- The debug-server thread is a real thread, so its actions are enabled in
  every state.

## Modules

### `Msp430Cpu` (and `MC_Msp430Cpu`)

**Translation from the code:**
- `process()` becomes a control-point variable `lp` with one action per
  straight-line segment between two suspension points: `LoopTop`,
  `NoInterrupt`, `IrqReset`, `IrqPush`, `IrqPushSr`, `IrqMasked`,
  `IrqVector`, `VectorRead`, `BreakpointHit`, `Sleep`, `Execute`,
  `StallCheck`, `PowerCheck` and `Restart`.
- `processInterrupt` is split at each of its waits:
  - `IrqReset` is the BOR branch up to its two-cycle wait;
  - `IrqPush` and `IrqPushSr` are the two stack writes;
  - `IrqVector` reads `irqIdx` again and acknowledges it, then waits;
  - `VectorRead` clears SR except SCG0 and loads the vector. Only in the
    BOR branch (stage `resetread`) does it clear `m_sleeping`; the GIE
    branch keeps it even when the re-read `irqIdx` is 0.
  Supply changes can happen at any of these waits.
- The variable `addr` is the vector address that `processInterrupt` holds
  across those waits.
- `halted` records why the simulation stopped. `"fault"` means an access
  outside the modelled memory or an invalid fetch. `"unpowered"` means a bus
  access while `pwrOn` is low.
- `BusError` gives the target's answer: a transaction on an unpowered target
  fails, and `readMem`/`writeMem` then call `sc_stop`. The target side of
  this is outside `src/` and is modelled from spec §6.
- After `sc_stop`, `SimulationStopped` stutters, so a stopped run is not
  reported as a deadlock.
- Instructions are an abstract subset that carries control:
  - `BIS/BIC #k,SR`, `MOV #k,SP`, `BIC #k,0(SP)` (bic-on-exit), `JMP`, `RETI`,
    a flag-clearing store to a peripheral, and `NOP`;
  - `PUSH #k` and `CALL #k` (executeSingleOpInstruction: SP decremented, then
    the word written; CALL pushes the PC after its extension word), and `POP`
    and `RET`, which the MSP430 encodes as `MOV @SP+,dst` (getSourceOperand's
    autoincrement by 2 on SP, then the MOV writeback);
  - each with the PC advance given by the constant-generator rule
    (`isSourceConstant`) and the stack effects of the code.
- A bus access outside the modelled stack window, or a fetch from outside the
  program, sets `halted` (`sc_stop`, `SC_REPORT_FATAL`).

**The MC firmware** follows the validation programs:
- main sets SP, enables interrupts and calls `SleepSub` in a loop;
- `SleepSub` pushes a word, sleeps in LPM0, pops it and returns, so interrupt
  frames nest on top of a subroutine frame;
- the timer handler (line 10, acknowledge wired) wakes main with bic-on-exit;
- the ADC handler (line 9, no acknowledge) clears its flag and re-enables GIE,
  so the timer nests inside it.

### `CortexM0Cpu` (and `MC_CortexM0Cpu`)

**Translation from the code:**
- The variable `pc` is the fetch pointer `gpr[15]` with its thumb bit.
- `queue` holds the fetched halfword addresses, or `NOP` for a bubble.
- Loop actions: `LoopTop`, `TakeException`, `NoException`, `SleepWait`,
  `Wake`, `BreakpointHit`, `Cycle`, `StallCheck`, `PowerCheck` and `Restart`
  (`reset()`).
- `Cycle` is one pass of the body:
  1. fetch into the queue and pop its head;
  2. execute the head;
  3. decrement the bubbles;
  4. flush or add 2 to the PC;
  5. end a single step.
- `ExceptionEnter` and `ExceptionReturn` follow the code line by line:
  - the snapshot `m_regsAtExceptEnter`;
  - the bit-2 alignment and bit 9 of the stacked xPSR;
  - the stacked PC `pc - (4 - 2*m_bubbles)`;
  - EXC_RETURN in LR;
  - flushing the queue.
- `AccessFails` is the error response of `readMem`/`writeMem`. Only the
  stack window is mapped here, so a push or pop outside it stops the
  simulation, as `sc_stop` does in the code.
- The engine behind `decode/exwbmem` is not in the repository. It is reduced
  to NOP, B, WFI, PUSH, POP, BX LR (exception return) and a request clear.
- EXC_RETURN words are held as 32-bit two's complement, because TLC integers
  are signed 32-bit.

**The MC firmware:**
- main alternates PUSH/WFI/POP/WFI and branches back, so exceptions arrive
  with SP both 0 and 4 mod 8 and with 0, 1 or 2 bubbles queued;
- SysTick (15) and NVIC (16) handlers withdraw their request and return.

**What it implements: `CortexM0Arch`.**
- `CortexM0Arch` is the ARMv6-M programmer's model for the same instructions,
  with no pipeline. An instruction is one step. Exception entry and return
  are single steps on a stack of saved contexts: return address, SP before
  the 8-byte aligned frame, and LR. Entry sets EXC_RETURN in LR. Reset loads
  SP and PC from the vector table. Peripherals raise requests and drop them
  on reset.
- `CortexM0Cpu` instantiates it as
  `Arch == INSTANCE CortexM0Arch WITH pc <- NextExec, stack <- frames, ...`.
  `NextExec` is the architectural PC, read out of the queue: the first queued
  instruction address, or the fetch pointer when only bubbles are queued.
  `frames` is a history variable that pushes the expected return context at
  `ExceptionEnter` and pops it at `ExceptionReturn`.
- `ArchRefinement == Arch!Spec` is checked as a PROPERTY. A pipeline step
  that retires nothing (a bubble, a fetch, a stall) must be a stuttering step
  of the architecture. A stacked PC that forgets the bubbles, an SP not
  realigned on return, or a flush that leaves an instruction queued is an
  architectural step the ARMv6-M model cannot take.

### `Msp430Debug` (and `MC_Msp430Debug`)

The debug server's register and memory interface on the MSP430. It extends
`Msp430Cpu`, whose run control (`stall`, `unstall`, `step`, breakpoints)
it sits beside.
- `DbgWriteReg(r, val)` is `dbg_writeReg`:
  - PC, SP and SR are set;
  - R3 (the constant generator) is `SC_REPORT_FATAL`, with `halted =
    "fatal"`;
  - R4-R15 are not state of the model, so writing them changes nothing;
  - a number above `N_GPR` fails the assert, with `halted = "abort"`.
- `DbgReadReg(r)` is the assert of `dbg_readReg`. Any other read changes no
  state.
- `DbgWriteMem(a, val)` is `dbgWriteMem` on a mapped stack word.
- All of them are enabled while `run` is false. That is what `isStalled()`
  reports to the debug server, which then accesses registers from its own
  thread.
- `SpecDbg` adds `DebugRegStep` to `Msp430Cpu`'s next-state relation.

`MC_Msp430Debug` extends `MC_Msp430Cpu`:
- `N_GPR` = 15;
- PC writes into main's sleep loop and SR writes of GIE;
- a stack word write.

### `Msp430Alu` (and `MC_Msp430Alu`)

**Translation from the code:**
- `executeDoubleOpInstruction` and the RRC, SWPB, RRA and SXT cases of
  `executeSingleOpInstruction` are the operators `DoubleOp` and `SingleOp`.
- `isNegative`, `isZero`, `isCarry` and `isOverflow` are operators of the
  same names, and `loadOperand` and `writeback` are `LoadOperand` and
  `Writeback`.
- Operands are register direct, so `getSourceOperand` and
  `getDestinationOperand` reduce to a register number and a loaded value.
- `~srcOp.val` becomes `65535 - x`. The code widens it to an int, but every
  later use reads only its low 8 or 16 bits.

**The harness:**
- `Execute` runs the chosen instruction once.
- `Load` stands for `MOV #a,R4; MOV #b,R5` before it. These give the
  registers new values and keep the flags.

**The abstract specification `Msp430Isa`** is what the arithmetic promises.
It is the same machine as the harness, with the same variables, but each
instruction is defined in integer arithmetic from the MSP430 family user's
guide (`RefDouble`, `RefSingle`, `RefNext`):
- results are taken modulo 2^8 or 2^16;
- C is the unsigned carry out (for a subtraction, no borrow);
- V is a signed result outside the range of the width.

`Msp430Alu` instantiates it as `Isa == INSTANCE Msp430Isa`, with the
identity refinement mapping. The property `IsaRefinement == Isa!Spec` states
that every step of the code's bitwise computation is a step of the
user's-guide machine.

**The MC bounds:**
- registers R4 and R5;
- the values 0, 1, 0x7F, 0x80, 0x7FFF, 0x8000 and 0xFFFF, which together
  hit every byte and word carry and sign boundary;
- all 16 flag combinations;
- every modelled instruction in both widths where the encoding has both.

### `ExternalCircuitry` (and `MC_ExternalCircuitry`)

**Translation from the code:**
- One TDF cluster period is one action, `Tick`. Within it, the supply and the
  detector read the capacitor sample delayed by one timestep
  (`v.set_delay(1)`), which is the state variable `v`. The capacitor
  integrates the currents they write in the same period.
- `NextIndex` and `NextElapsed` model the trace replay: the 1 ms hold, counted
  in timesteps as `HoldSteps`, and the wrap at the end of the trace.
  `SupplyCurrent` is the overshoot guard `vcap + m_maxStepSize <
  m_voltageLimit` applied to `trace[i] / LoadResistance`.
- `Trace` is `ReadTraceFile(TraceFile)`. The file is a sequence of lines,
  each one either a number `std::stod` accepts or a line it rejects with
  `invalid_argument`. `readTraceFile` keeps the accepted values in order,
  which is a `SelectSeq` over the lines.
- `ConstantCurrentSupplyTDF` is defined in the header but not wired. It has
  the same ports as the trace supply, so it is modelled as the alternative
  `supplyKind = "constant"`. `Init` chooses the kind and no action changes
  it. `ConstantCurrent` supplies the setpoint
  `SupplyCurrentLimit` under the same guard, and the trace index and elapsed
  time then stay at 0.
- `SwitchOn` is the detector's condition:
  `forceOn || v > vOn || (v > vOff && m_isOn)`. The detector draws `ext.dc`,
  plus the MCU's `i_out` while it is on, and outputs `v` or 0 and the warning
  bit.
- `Integrate` is `CapacitorIdeal::processing`, clamped at 0.
- `m_isOn` is never initialized, so `Init` lets it take either value.
- `i_out` and `keepAlive` are inputs from the MCU, chosen freely at each
  timestep. `keepAlive` is driven from outside `src/`.
- `charged` is a history variable. It is true when the output has seen
  `v > VOn`, or `keepAlive`, since it was last off.

**Units:** voltages and currents are integers in one unit, the capacitor
change that a current causes in one timestep (`timestep * i / C`). This is
what the code's doubles compute when the thresholds and trace are multiples
of it.

**The MC instance:**
- thresholds VOff = 3, VWarn = 4, VOn = 6, and limit 10;
- a current limit of 3 and a detector draw of 1;
- a load of 0 or 2 while the MCU is powered;
- a trace file of a header line and two samples, with each sample held for
  2 timesteps;
- the capacitor starts empty.
These values reach every branch: charging, the guard cutting the supply, the
switch closing and opening, and `keepAlive` overriding it. They do so
with either supply.

### `Msp430Bus` (and `MC_Msp430Bus`)

**Translation from the code:**
- One definition per slave the constructor of `Msp430Microcontroller` builds,
  named as in the code (`cache`, `sram`, `portA`, ...), with the window given
  there. `fram` is not a slave: it sits behind the cache (line 181).
- `slaves` is the list in push order (lines 61-78). `SortedSlaves` is the
  `std::sort` by start address (lines 80-83). The bus ports are numbered in
  that order by `bus.addTarget` (lines 174-178), so port *i* is
  `SortedSlaves[i]`.
- The router is outside `src/`. `Search`/`Route` model it from spec §4.2 as a
  binary search over the sorted windows, the variant for which the sort
  matters. `Forward` is the relative address the target receives.
- `CpuAccess` is `readMem`/`writeMem`: a timed transaction that fails on an
  unrouted address or an unpowered target (spec §4.3), after which the CPU
  calls `sc_stop`. `DbgAccess` is `dbgReadMem`/`dbgWriteMem`: a debug
  transaction that bypasses the power gate and reports `received > 0`.
- Every slave's `pwrOn` is `nReset` (lines 153-156), switched by `PowerOff`
  and `PowerOn`.
- Data is left out. The properties are about which target answers, at which
  relative address, and whether it answers.

**The MC instance:**
- the base addresses are the MSP430FR5994 values of `msp430fr5994.h`, which
  is not in the repository;
- the windows of `PowerManagementModule`, `Adc12` and `Frctl_a` are set in
  their own classes, which are not in the repository either, so the MC uses
  the device's register map for them;
- `SimpleMonitor`'s window is an assumption: two bytes at 0x0F00, a gap of the
  device map;
- the initiators use both sides of every window's edges (`Probes`). This
  includes the back-to-back port windows and the cache/vectors boundary at
  0xFF7F/0xFF80.

## Runs

| Run | Config | Expect | What it shows |
|---|---|---|---|
| `msp430_core` | `MC_Msp430Cpu.cfg` | pass | `TypeOK` (16-bit registers, even PC); `NeverHalts` (no bus access outside RAM and no invalid fetch, across nesting and power cycles; stopping on an unpowered target is a separate question); `RetiRestoresContext` (every RETI returns to the PC, SP and GIE of its own entry, under nesting and the `irqIdx` re-read); `RetReturnsToCaller` (every RET pops the return address its CALL pushed and restores the caller's SP, with interrupt frames pushed and popped in between; `frames` is a history of both kinds of saved context); `ServedEventually` (every request is cleared unless the CPU is stalled or unpowered). |
| `msp430_step` | `MC_Msp430Cpu_step.cfg` | violation | `StallsOnlyAfterStep`: a stall that overtakes a step leaves `m_doStep` set, so a later continue stops after one instruction. |
| `cm0_core` | `MC_CortexM0Cpu.cfg` | pass | `TypeOK`; `ArchRefinement` (the pipelined core implements `CortexM0Arch`: instructions retire in program order, and exception frames save and restore the architectural PC, SP and LR); `PendingServed` (every SysTick or NVIC request is taken). |
| `msp430_alu` | `MC_Msp430Alu.cfg` | pass | `IsaRefinement` (`Msp430Alu` implements `Msp430Isa`: each instruction writes the value, to the register, and sets the C, Z, N, V of the user's guide). SXT runs on R4 only here. |
| `msp430_sxt_odd` | `MC_Msp430Alu_sxt.cfg` | violation | `IsaRefinement` for SXT R5: the code clears bit 0 of the register number (`Msp430Cpu.cpp:649`), so the result lands in R4 and R5 is unchanged. |
| `cm0_stopped_pc` | `MC_CortexM0Cpu_dbgpc.cfg` | violation | `StoppedAtNextInstr`: a core stopped while bubbles are queued reports `pc-4`, which is not the instruction it resumes with. |
| `power_supply` | `MC_ExternalCircuitry.cfg` | pass | For the trace supply and for `ConstantCurrentSupplyTDF`: `TypeOK`; `NoOvershoot` (the capacitor never exceeds `SupplyVoltageLimit`); `PoweredOnlyAfterCharge` (the switch closes only after the capacitor exceeded `SVSVon` since it last opened, or under `keepAlive`); `PoweredInfinitelyOften` (once `keepAlive` is released for good, `vcc` is nonzero infinitely often). |
| `supply_overshoot` | `MC_ExternalCircuitry_overshoot.cfg` | violation | `NoOvershoot` with a trace current of 6 against a current limit of 3: the guard uses the current limit's step, so the capacitor reaches 11 against a limit of 10. |
| `msp430_stall_race` | `MC_Msp430Debug_race.cfg` | violation | `StalledStateStable`: once `isStalled()` is true, the registers change only by the debugger's writes. TLC finds two ways to break it. (1) A core stalled while waiting for power is reset on the power-up edge, which discards a PC the debugger wrote. (2) A stall during interrupt entry still lets the vector load set PC and SR. |
| `supply_uninit` | `MC_ExternalCircuitry_uninit.cfg` | violation | `PoweredOnlyAfterCharge` with the capacitor starting at 5, between the thresholds: a garbage `m_isOn = true` powers the MCU at the first timestep. |
| `msp430_bus` | `MC_Msp430Bus.cfg` | pass | `RoutedToOwner` (every CPU or debugger transaction reaches the one slave whose window holds the address, at the address relative to its start, and only an address no window holds is unrouted: the binary search is right for the sorted slave list); `SingleOwner` (no address used lies in two windows; the constructor checks no overlap). |
| `cm0_pc_write` | `MC_CortexM0Cpu_pcwrite.cfg` | violation | `ProgramOrder` with debugger PC writes: the two queued instructions run first and execution resumes at the written address + 4. |

Each property of a passing run has a mutant in `PROJECT.json`: an operator that
reproduces a plausible bug of the mapped code, which TLC must catch.

## Bounds, and why they are enough

- **`MaxIrqRaises`** (2 in `msp430_core`, 3 in `msp430_step` and
  `msp430_stall_race`, 2
  for the Cortex-M0) bounds the
  peripheral requests in a behaviour, which bounds the state space. It allows
  nesting, a raise during a stack push, and a raise while asleep. Power-on
  requests (BOR) are not counted.
- **Stack windows** are 8 words (MSP430) and 12 words (Cortex-M0):
  - the MSP430's is enough for the subroutine's return address and pushed
    word under two nested interrupt frames;
  - the Cortex-M0's is enough for one aligned 8-word frame below a pushed
    word.
- **Breakpoints** are one address in main for the MSP430; for the Cortex-M0,
  main's first instruction, reached again only through the bubbles after the
  loop branch, and the POP.

## Fairness

`WF_vars(CpuStep)` on each model. The SystemC scheduler always resumes a
runnable thread, so a CPU action that stays enabled eventually runs. The
debugger and the environment get no fairness: they may stop acting at any
time. The liveness properties are therefore stated up to "stalled or
unpowered".

`ExternalCircuitry` has `WF_vars(Tick)`. The TDF scheduler runs the cluster
at every timestep for as long as the simulation runs. Its inputs get no
fairness. `PoweredInfinitelyOften` assumes that `keepAlive` is eventually
released for good: a `keepAlive` held while the load drains the capacitor
keeps the switch closed on 0 V.

## Not modelled

- **MSP430 addressing modes:** memory operands, autoincrement, the constant
  generator and DADD (fatal in the code) are not in `Msp430Alu`. Of
  autoincrement, only `@SP+` (POP, RET) is modelled, in `Msp430Cpu`.
- **Debug access to general registers:** `dbg_readReg`/`dbg_writeReg` of
  R4-R15 (MSP430) and R0-R12 (Cortex-M0) act on registers the models do not
  hold, since no modelled instruction reads them. `dbgReadMem` changes no
  state. `N_GPR` and the register numbers come from headers that are not in
  the repository, so they are constants.
- **Cycle counts and energy accounting:** the power model port calls.
- **Supply and CPU together:** the CPU models take power changes as free
  `PowerOn`/`PowerOff` actions. `ExternalCircuitry` shows when the detector
  produces them. Composing the two would multiply two state spaces without
  constraining the CPU further, since any power pattern is possible.
- **Register reads out of range:** `dbg_readReg` asserts
  `addr <= N_GPR`, so a bad index aborts the simulator. Spec section 7 has it
  logged and answered with 0. `DbgReadReg` models the abort. No run is spent
  on this one-call divergence.
- **Empty trace:** with no parseable line, `m_voltageTrace` is empty and the
  first timestep reads past it. `TypeOK` fails in the initial state of such a
  file. The run's file has a header line and two samples.
- **Trace file I/O:** opening the file is left out, and so is a line whose
  value is out of `double`'s range. `std::stod` throws `out_of_range` for
  such a line, `readTraceFile` does not catch it, and the program terminates
  during construction, before any state the model describes. Which prefix of
  a line `std::stod` accepts is abstracted to the value it yields.
- **`BusTarget::inRange`:** it compares the address with
  `m_startAddress - m_endAddress`, which wraps for every real window, so it
  accepts almost any address. It has no caller in `src/`. The router of
  `Msp430Bus` picks the target by its window and forwards a relative address
  inside it, so the reversed subtraction matters only to a caller outside
  `src/`. It stays a hazard in `PROJECT.json`.
- **Power loss during interrupt entry:** a power-off in the waits of
  `processInterrupt` makes the next access reach an unpowered target, and
  `readMem`/`writeMem` call `sc_stop`. Spec §9 asks to keep this late
  detection, and §7 makes such an access a fatal bus error. `Msp430Cpu`
  reaches it as `halted = "unpowered"`, and no property claims otherwise.
- **Bus timing and target data:** delays, wait states, the cache in front of
  FRAM, and register-file contents are not modelled.
- **Outside `src/`:** the bus router, the bus targets' power check, and
  peripheral registers.
- **Cortex-M0 process stack:** EXC_RETURN 0xFFFFFFFD.
- **DMA validation firmware:** test firmware, not part of the simulator.
  `Msp430Microcontroller` builds no DMA controller among its bus slaves, so
  the firmware's DMA register accesses would go to unrouted addresses. The
  MC firmware keeps its control shape instead: set up, enable interrupts,
  sleep in a subroutine.

## Plan for later work

1. `Msp430Alu` with memory operands: indexed, indirect and autoincrement
   addressing, and the constant generator.
2. Routing the CPU model's own accesses through `Msp430Bus`, so that
   `BusError` comes from the memory map rather than from the stack window.
3. `StalledStateStable` for the Cortex-M0. Its `process()` has the same
   loop shape, so the same stall race is expected.
