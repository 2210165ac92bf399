----------------------------- MODULE Msp430Bus -----------------------------
(***************************************************************************)
(* The MSP430 board's memory map and the bus that routes through it.  The  *)
(* constructor of Msp430Microcontroller builds the bus slaves, each a      *)
(* BusTarget with a fixed [startAddress, endAddress] window, pushes them   *)
(* into `slaves', sorts them by start address and adds them to the bus in  *)
(* that order.  The bus router is outside src/: it is modelled from spec   *)
(* section 4.2 as a binary search over the sorted windows that forwards    *)
(* the address relative to the target's start.                            *)
(* Two initiators use the bus: the CPU with timed transactions             *)
(* (readMem/writeMem, which call sc_stop on an error response) and the     *)
(* debugger with debug transactions (dbgReadMem/dbgWriteMem, which report  *)
(* whether any byte was transferred).  Every slave's pwrOn is nReset.      *)
(* Data is left out: which target answers, at which relative address, and  *)
(* whether it answers, is what the bus decides.                            *)
(***************************************************************************)
EXTENDS Integers, Sequences, TLC

CONSTANTS
  \* base addresses from msp430fr5994.h (not in the repository)
  FRAM_START, RAM_START, REF_A_BASE, WDT_A_BASE, PJ_BASE,
  PA_BASE, PB_BASE, PC_BASE, PD_BASE, CS_BASE, TA0_BASE, MPY32_BASE,
  EUSCI_B0_BASE,
  \* windows fixed inside the classes of PowerManagementModule, Adc12,
  \* Frctl_a and SimpleMonitor, whose constructors take no address
  ClassRange,
  \* last register offset of ClockSystem and TimerA, built at a given base
  ClassLastOffset

Word == 0..65535

ASSUME
  /\ ClassRange \in [{"pmm", "Adc", "FRAM_CTL_A", "mon"} ->
                       [start : Word, end : Word]]
  /\ ClassLastOffset \in [{"cs", "tima"} -> Word]

Tgt(name, start, end) == [name |-> name, start |-> start, end |-> end]

\* ------ Memories ------ (the cache is the slave; fram sits behind it)

\* mutant of cache: the window runs to the top of the address space
cacheToTop == Tgt("cache", FRAM_START, \hffff)

cache == Tgt("cache", FRAM_START, \hff7f)
vectors == Tgt("vectors", \hff80, \hffff)
sram == Tgt("sram", RAM_START, RAM_START + \h2000 - 1)

\* ------ Peripherals ------
pmm == Tgt("pmm", ClassRange["pmm"].start, ClassRange["pmm"].end)
adc == Tgt("Adc", ClassRange["Adc"].start, ClassRange["Adc"].end)
refgen == Tgt("refgen", REF_A_BASE, REF_A_BASE + 1)
fram_ctl == Tgt("FRAM_CTL_A", ClassRange["FRAM_CTL_A"].start,
                ClassRange["FRAM_CTL_A"].end)
watchdog == Tgt("watchdog", WDT_A_BASE, WDT_A_BASE + 1)
mon == Tgt("mon", ClassRange["mon"].start, ClassRange["mon"].end)
portJ == Tgt("portJ", PJ_BASE, PJ_BASE + \h16)
portA == Tgt("portA", PA_BASE, PA_BASE + \h1f)
portB == Tgt("portB", PB_BASE, PB_BASE + \h1f)
portC == Tgt("portC", PC_BASE, PC_BASE + \h1f)
portD == Tgt("portD", PD_BASE, PD_BASE + \h1f)
cs == Tgt("cs", CS_BASE, CS_BASE + ClassLastOffset["cs"])
tima == Tgt("tima", TA0_BASE, TA0_BASE + ClassLastOffset["tima"])
mpy32 == Tgt("mpy32", MPY32_BASE, MPY32_BASE + \h2e)
eusci_b == Tgt("eUSCI_B", EUSCI_B0_BASE, EUSCI_B0_BASE + \h2e)

\* the slaves in the order they are pushed
slaves == <<cache, fram_ctl, sram, vectors, adc, refgen, watchdog, portJ,
            portA, portB, portC, portD, pmm, cs, tima, mpy32, mon, eusci_b>>

\* mutant of SortedSlaves: the sort is left out
SlavesUnsorted == slaves

\* std::sort by startAddress; bus.addTarget then numbers the ports in this
\* order (port i is SortedSlaves[i])
SortedSlaves == SortSeq(slaves, LAMBDA x, y : x.start < y.start)

\* the router: a binary search for the window holding a, 0 for none
RECURSIVE Search(_, _, _)
Search(a, lo, hi) ==
  IF lo > hi THEN 0
  ELSE LET mid == (lo + hi) \div 2
           t == SortedSlaves[mid]
       IN CASE a < t.start -> Search(a, lo, mid - 1)
            [] a > t.end -> Search(a, mid + 1, hi)
            [] OTHER -> mid

Route(a) == Search(a, 1, Len(SortedSlaves))

\* the addresses initiators use: both sides of every window's edges
Probes == UNION {{s.start - 1, s.start, s.end, s.end + 1} :
                   s \in {slaves[i] : i \in DOMAIN slaves}} \cap Word

-----------------------------------------------------------------------------

VARIABLES
  nReset,   \* power to the CPU and every slave
  stopped,  \* sc_stop has been called
  last      \* the last transaction: initiator kind, address, port, the
            \* address forwarded to the target, and whether it succeeded

vars == <<nReset, stopped, last>>

\* mutant of Forward: the address is taken relative to the window's end
ForwardFromEnd(a) ==
  IF Route(a) = 0 THEN 0 ELSE a - SortedSlaves[Route(a)].end

\* the address the target sees: relative to its window's start
Forward(a) == IF Route(a) = 0 THEN 0 ELSE a - SortedSlaves[Route(a)].start

\* readMem/writeMem: b_transport through the bus; a target answers only
\* while powered, and an error response stops the simulation
CpuAccess(a) ==
  /\ ~stopped
  /\ LET ok == Route(a) # 0 /\ nReset
     IN /\ last' = [kind |-> "timed", addr |-> a, port |-> Route(a),
                    rel |-> Forward(a), ok |-> ok]
        /\ stopped' = ~ok
  /\ UNCHANGED nReset

\* dbgReadMem/dbgWriteMem: transport_dbg bypasses the power gate; the call
\* returns received > 0, so only an unrouted address fails
DbgAccess(a) ==
  /\ ~stopped
  /\ last' = [kind |-> "dbg", addr |-> a, port |-> Route(a),
              rel |-> Forward(a), ok |-> Route(a) # 0]
  /\ UNCHANGED <<nReset, stopped>>

PowerOff == ~stopped /\ nReset /\ nReset' = FALSE /\ UNCHANGED <<stopped, last>>
PowerOn == ~stopped /\ ~nReset /\ nReset' = TRUE /\ UNCHANGED <<stopped, last>>

SimulationStopped == stopped /\ UNCHANGED vars

Init ==
  /\ nReset \in BOOLEAN
  /\ stopped = FALSE
  /\ last = [kind |-> "none", addr |-> 0, port |-> 0, rel |-> 0, ok |-> TRUE]

Next ==
  \/ \E a \in Probes : CpuAccess(a) \/ DbgAccess(a)
  \/ PowerOff \/ PowerOn
  \/ SimulationStopped

Spec == Init /\ [][Next]_vars

-----------------------------------------------------------------------------

\* the windows that hold a (the reference the router is checked against)
Owners(a) == {i \in DOMAIN SortedSlaves :
                SortedSlaves[i].start <= a /\ a <= SortedSlaves[i].end}

\* Every transaction, from the CPU or the debugger, reaches the port of the
\* window that holds its address, at the address relative to that window's
\* start, and reports an unrouted address only when no window holds it:
\* the binary search of the router is right for the slave list the
\* constructor builds and sorts.
RoutedToOwner ==
  last.kind # "none" =>
    /\ Owners(last.addr) = {} <=> last.port = 0
    /\ last.port # 0 =>
         /\ last.port \in Owners(last.addr)
         /\ last.rel = last.addr - SortedSlaves[last.port].start

\* No address an initiator uses lies in two windows (spec 4.2: the ranges
\* are disjoint by construction, overlapping ranges are a configuration
\* error); the constructor pushes and sorts the slaves without checking, so
\* the router would pick either owner.
SingleOwner == \A i, j \in Owners(last.addr) : i = j
====
