------------------------- MODULE ExternalCircuitry -------------------------
(***************************************************************************)
(* The supply circuit of src/ps/ExternalCircuitry.hpp: a SystemC AMS TDF   *)
(* cluster of VoltageTraceReplayTDF (supply), CapacitorIdeal (c) and       *)
(* VoltageDetectorWithOverride (svs), wired by SC_MODULE ExternalCircuitry. *)
(* The unwired ConstantCurrentSupplyTDF, a drop-in for the trace supply   *)
(* with the same ports, is the alternative supplyKind = "constant", fixed  *)
(* when the cluster is built.                                              *)
(* All three run once per timestep, so one Tick is one cluster period.     *)
(*                                                                         *)
(* Voltages and currents are integers in one unit: the capacitor voltage   *)
(* change that a current causes in one timestep (timestep * i / C).  The   *)
(* model's thresholds and trace are chosen as multiples of it, so the      *)
(* double arithmetic of the code is exact on them.                         *)
(***************************************************************************)
EXTENDS Integers, Sequences

CONSTANTS
  VOn, VOff, VWarn,  \* SVSVon, SVSVoff, VoltageWarning
  Icc,               \* ext.dc: the detector's own draw
  TraceFile,         \* lines of VoltageTraceFile: [parses, val], parses
                     \* FALSE for a line std::stod rejects
  LoadResistance,    \* LoadResistance
  CurrentLimit,      \* SupplyCurrentLimit: m_maxStepSize in capacitor units
  VoltageLimit,      \* SupplyVoltageLimit
  HoldSteps,         \* timesteps until m_timeElapsed reaches 1 ms
  VInit,             \* CapacitorInitialVoltage
  Loads,             \* values of i_out, the MCU's current draw
  ForceOnValues      \* values of forceOn (the MCU's keepAlive output)

ASSUME
  /\ 0 <= VOff /\ VOff < VOn
  /\ Icc \in Nat /\ CurrentLimit \in Nat /\ HoldSteps \in Nat \ {0}
  /\ LoadResistance \in Nat \ {0}
  /\ VInit \in Nat /\ Loads \subseteq Nat /\ ForceOnValues \subseteq BOOLEAN

VARIABLES
  v,          \* CapacitorIdeal::m_crntVoltage, the sample on v_cap
  isOn,       \* VoltageDetectorWithOverride::m_isOn
  vcc,        \* v_out of the detector (the MCU's vcc)
  warn,       \* v_warn
  traceIndex, \* VoltageTraceReplayTDF::m_traceIndex
  elapsed,    \* m_timeElapsed, counted in timesteps
  keepAlive,  \* the forceOn sample of the last timestep
  charged,    \* history: the output has seen v above VOn (or forceOn)
              \* since it was last off
  supplyKind  \* "trace": VoltageTraceReplayTDF, "constant":
              \* ConstantCurrentSupplyTDF

vars == <<v, isOn, vcc, warn, traceIndex, elapsed, keepAlive, charged,
          supplyKind>>

-----------------------------------------------------------------------------

\* readTraceFile: push std::stod of every line, skipping (and logging) the
\* lines it rejects with invalid_argument
ReadTraceFile(lines) ==
  LET parsed == SelectSeq(lines, LAMBDA l : l.parses)
  IN [k \in DOMAIN parsed |-> parsed[k].val]

\* m_voltageTrace, filled by the constructor
Trace == ReadTraceFile(TraceFile)

\* deriveCurrentFromVoltage: voltage / m_loadResistance
DeriveCurrentFromVoltage(voltage) == voltage \div LoadResistance

\* VoltageTraceReplayTDF::processing: advance the trace index every 1 ms,
\* wrap it at the end of the trace, and supply the trace's current unless
\* one more step could reach the voltage limit
NextIndex ==
  LET e == elapsed + 1
      i == IF e >= HoldSteps THEN traceIndex + 1 ELSE traceIndex
  IN IF i >= Len(Trace) THEN 0 ELSE i

\* mutant of NextElapsed: the 1 ms comparison is off by one timestep
NextElapsedLate == IF elapsed + 1 > HoldSteps THEN 0 ELSE elapsed + 1

NextElapsed == IF elapsed + 1 >= HoldSteps THEN 0 ELSE elapsed + 1

\* mutant of SupplyCurrent: the overshoot guard is dropped
SupplyCurrentUnguarded(idx) == DeriveCurrentFromVoltage(Trace[idx + 1])

SupplyCurrent(idx) ==
  IF v + CurrentLimit < VoltageLimit
    THEN DeriveCurrentFromVoltage(Trace[idx + 1])
    ELSE 0

\* mutant of ConstantCurrent: the overshoot guard is dropped
ConstantCurrentUnguarded == CurrentLimit

\* ConstantCurrentSupplyTDF::processing: the setpoint (SupplyCurrentLimit)
\* under the same guard, whose step is that of the setpoint itself
ConstantCurrent == IF v + CurrentLimit < VoltageLimit THEN CurrentLimit ELSE 0

\* the supply's output in this timestep
SupplyOut ==
  IF supplyKind = "trace" THEN SupplyCurrent(NextIndex) ELSE ConstantCurrent

\* mutant of SwitchOn: the on-threshold also requires m_isOn
SwitchOnStuckOff(force) == force \/ (v > VOn /\ isOn) \/ (v > VOff /\ isOn)

\* mutant of SwitchOn: hysteresis lost, the switch closes above VOff
SwitchOnNoHysteresis(force) == force \/ v > VOn \/ v > VOff

\* VoltageDetectorWithOverride::processing: the switch condition
SwitchOn(force) == force \/ v > VOn \/ (v > VOff /\ isOn)

\* CapacitorIdeal::processing: integrate the net current, clamp at 0
Integrate(iIn, iOut) == IF v + iIn - iOut <= 0 THEN 0 ELSE v + iIn - iOut

\* One cluster period: supply, detector and capacitor read the delayed
\* v_cap sample (v) and the MCU's inputs i_out and forceOn
Tick ==
  \E load \in Loads, force \in ForceOnValues :
    LET on == SwitchOn(force)
        iSvs == IF on THEN load + Icc ELSE Icc
    IN /\ IF supplyKind = "trace"
            THEN traceIndex' = NextIndex /\ elapsed' = NextElapsed
            ELSE UNCHANGED <<traceIndex, elapsed>>
       /\ isOn' = on
       /\ vcc' = IF on THEN v ELSE 0
       /\ warn' = (v < VWarn)
       /\ v' = Integrate(SupplyOut, iSvs)
       /\ keepAlive' = force
       /\ charged' = (on /\ (charged \/ force \/ v > VOn))
       /\ UNCHANGED supplyKind

\* m_isOn is read before anything writes it: either value may be found;
\* the cluster is built with either supply
Init ==
  /\ v = VInit
  /\ isOn \in BOOLEAN
  /\ vcc = 0 /\ warn = FALSE
  /\ traceIndex = 0 /\ elapsed = 0
  /\ keepAlive = FALSE /\ charged = FALSE
  /\ supplyKind \in {"trace", "constant"}

Next == Tick

\* the TDF scheduler runs the cluster at every timestep
Spec == Init /\ [][Next]_vars /\ WF_vars(Tick)

-----------------------------------------------------------------------------

TypeOK ==
  /\ v \in Nat /\ vcc \in Nat
  /\ {isOn, warn, keepAlive, charged} \subseteq BOOLEAN
  /\ supplyKind \in {"trace", "constant"}
  /\ traceIndex \in 0..(Len(Trace) - 1)
  /\ elapsed \in 0..(HoldSteps - 1)

\* The supply's step guard (v + m_maxStepSize < m_voltageLimit, "to avoid
\* overshoot") keeps the capacitor at or below SupplyVoltageLimit.
NoOvershoot == v <= VoltageLimit

\* The detector powers the MCU only after the capacitor has been above the
\* on-threshold since the output was last off, or while keepAlive forces
\* it: the hysteresis of VoltageDetectorWithOverride never closes the
\* switch between VOff and VOn on its own.
PoweredOnlyAfterCharge == vcc > 0 => charged

\* Once the MCU releases keepAlive for good, it is powered again and again:
\* a capacitor drained by the load is recharged by the trace until the
\* detector closes the switch.  (Held keepAlive can drain the capacitor for
\* ever: the switch is then closed on 0 V.)
PoweredInfinitelyOften == <>[](~keepAlive) => []<>(vcc > 0)
====
