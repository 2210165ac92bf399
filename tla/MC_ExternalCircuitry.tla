----------------------- MODULE MC_ExternalCircuitry -----------------------
(* Instances of the supply circuit in capacitor-step units: thresholds of *)
(* a 1.8 V / 2.4 V SVS scaled to 3 and 6, a two-sample trace held for two *)
(* timesteps each, and an MCU that draws 0 or 2 units when powered.       *)
EXTENDS ExternalCircuitry

\* a line std::stod rejects, such as a column header
Header == [parses |-> FALSE, val |-> 0]
Sample(x) == [parses |-> TRUE, val |-> x]

\* a trace whose currents stay within SupplyCurrentLimit, under a header
MCTraceFile == <<Header, Sample(3), Sample(1)>>

\* a trace with a sample whose current exceeds SupplyCurrentLimit
MCHighTraceFile == <<Sample(6), Sample(1)>>
====
