---------------------------- MODULE CortexM0Arch ----------------------------
(***************************************************************************)
(* What the Cortex-M0 core promises: the ARMv6-M programmer's model for    *)
(* the instructions CortexM0Cpu models.  There is no pipeline here: the PC *)
(* is the address of the next instruction, an instruction is one step,     *)
(* and exception entry and return are single steps on a stack of saved     *)
(* contexts (return address, SP before the frame, LR).  Exceptions have    *)
(* the default priority, so the lowest pending exception number is taken, *)
(* and only from thread mode with no exception active.                     *)
(* CortexM0Cpu is shown to implement this module under a refinement        *)
(* mapping that reads the architectural PC out of the instruction queue.  *)
(***************************************************************************)
EXTENDS Integers, Sequences

CONSTANTS Program, Vectors, ResetSp, ResetPc, Exceptions

\* EXC_RETURN: back to handler mode, back to thread mode on the main stack
\* (0xFFFFFFF1, 0xFFFFFFF9 as 32-bit two's complement)
ExcToHandler == -15
ExcToThread == -7
ExcReturnValues == {ExcToHandler, ExcToThread}

VARIABLES
  pc,           \* address of the next instruction
  sp, lr,       \* R13 (main stack), R14
  ipsr,         \* number of the active exception, 0 in thread mode
  handlerMode,
  pending,      \* exception requests
  stack         \* contexts saved by exception entries, innermost first

vars == <<pc, sp, lr, ipsr, handlerMode, pending, stack>>

Halfword(a) == a - (a % 2)

\* PushStack: the 8-word frame goes below SP, at an 8-byte aligned address
FrameBase(s) == (s - 32) - ((s - 32) % 8)

\* among exceptions of equal priority the lowest number is taken first
Highest(p) == CHOOSE id \in p : \A j \in p : id =< j

Op == Program[pc].op

Regs == <<sp, lr, ipsr, handlerMode, pending, stack>>

Sequential ==
  /\ pc \in DOMAIN Program /\ Op \in {"NOP", "WFI"}
  /\ pc' = pc + 2 /\ UNCHANGED Regs

\* B: the offset is relative to the PC as read, the address + 4
Branch ==
  /\ pc \in DOMAIN Program /\ Op = "B"
  /\ pc' = pc + 4 + Program[pc].off /\ UNCHANGED Regs

Push ==
  /\ pc \in DOMAIN Program /\ Op = "PUSH"
  /\ sp' = sp - 4 /\ pc' = pc + 2
  /\ UNCHANGED <<lr, ipsr, handlerMode, pending, stack>>

Pop ==
  /\ pc \in DOMAIN Program /\ Op = "POP"
  /\ sp' = sp + 4 /\ pc' = pc + 2
  /\ UNCHANGED <<lr, ipsr, handlerMode, pending, stack>>

\* a store to the peripheral that withdraws its request
ClearPending ==
  /\ pc \in DOMAIN Program /\ Op = "CLRPEND"
  /\ pending' = pending \ {Program[pc].id} /\ pc' = pc + 2
  /\ UNCHANGED <<sp, lr, ipsr, handlerMode, stack>>

ExceptionEntry ==
  /\ ipsr = 0 /\ pending # {}
  /\ LET id == Highest(pending) IN
       /\ stack' = <<[ret |-> pc, sp |-> sp, lr |-> lr]>> \o stack
       /\ sp' = FrameBase(sp)
       /\ lr' = IF handlerMode THEN ExcToHandler ELSE ExcToThread
       /\ ipsr' = id /\ handlerMode' = TRUE
       /\ pc' = Halfword(Vectors[id])
  /\ UNCHANGED pending

\* BX LR with an EXC_RETURN value: the saved context comes back whole
ExceptionReturn ==
  /\ pc \in DOMAIN Program /\ Op = "BX_LR"
  /\ lr \in ExcReturnValues /\ stack # <<>>
  /\ pc' = Head(stack).ret /\ sp' = Head(stack).sp /\ lr' = Head(stack).lr
  /\ ipsr' = 0 /\ handlerMode' = (lr = ExcToHandler)
  /\ stack' = Tail(stack)
  /\ UNCHANGED pending

\* reset: SP and PC from the vector table, thread mode; LR is UNKNOWN
Reset ==
  /\ pc' = Halfword(ResetPc) /\ sp' = ResetSp - (ResetSp % 4)
  /\ lr' \in Int
  /\ ipsr' = 0 /\ handlerMode' = FALSE /\ stack' = <<>>
  /\ UNCHANGED pending

\* peripherals raise requests, and drop them all when they are reset
Request(id) ==
  /\ pending' = pending \cup {id}
  /\ UNCHANGED <<pc, sp, lr, ipsr, handlerMode, stack>>

PeripheralReset ==
  /\ pending' = {}
  /\ UNCHANGED <<pc, sp, lr, ipsr, handlerMode, stack>>

\* the core is held in reset with every register 0 before power-up
Init ==
  /\ pc = 0 /\ sp = 0 /\ lr = 0 /\ ipsr = 0 /\ handlerMode = FALSE
  /\ pending = {} /\ stack = <<>>

Next ==
  \/ Sequential \/ Branch \/ Push \/ Pop \/ ClearPending
  \/ ExceptionEntry \/ ExceptionReturn \/ Reset
  \/ \E id \in Exceptions : Request(id)
  \/ PeripheralReset

Spec == Init /\ [][Next]_vars
====
