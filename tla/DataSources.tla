----------------------------- MODULE DataSources -----------------------------
(***************************************************************************)
(* The sources of the Windows builds: what each makes of its sensor's      *)
(* value, and the one piece of state among them, the times of the last CPU *)
(* sample, which all channels bound to the CPU share.                      *)
(*                                                                         *)
(* A sample is a record: the part of the sensor's range that is in use     *)
(* (load) out of the whole of it (of), and the byte the source returned.   *)
(* Temperatures are taken out of 100 degrees.  A CPU sample is taken out   *)
(* of the time that has gone by since the one before.                      *)
(***************************************************************************)
EXTENDS PanelBase

CONSTANTS
    Percentages,    \* what a load sensor may say
    Heats, Frosts,  \* degrees above and below zero it may have
    MaxElapsed,     \* bound of the time between two CPU samples: a pause, or more
    Undefined       \* bytes the conversion of 0.0/0.0 may yield

ASSUME SensorAssumption ==
    Percentages \subseteq 0..100 /\ Heats \subseteq Nat /\ Frosts \subseteq Nat
ASSUME ElapsedAssumption == MaxElapsed \in Nat \ {0, 1}
ASSUME UndefinedAssumption == Undefined \subseteq Byte /\ Undefined # {}

Degrees == Heats \cup {0 - degrees : degrees \in Frosts}

VARIABLES
    since,          \* system time since the last CPU sample: all, and idle
    sample          \* what the last call of a source gave

(* C division: toward zero.                                                *)
Quotient(a, b) == IF a >= 0 THEN a \div b ELSE 0 - ((0 - a) \div b)

(* Mutant: the overflow case is not caught.                                *)
data_source_nvidia_gpu_utility_Overflows(percentage) ==
    AsByte(Quotient(percentage * 256, 100))

(* 100 per cent would be 256.                                              *)
data_source_nvidia_gpu_utility(percentage) ==
    LET bounded == IF percentage = 100 THEN 99 ELSE percentage
    IN  AsByte(Quotient(bounded * 256, 100))

data_source_nvidia_gpu_temperature(degrees) ==
    LET bounded == IF degrees >= 100 THEN 99 ELSE degrees
    IN  AsByte(Quotient(bounded * 256, 100))

(* The test is for more than 256, so 100 per cent wraps to 0.              *)
data_source_ram_utility(load) ==
    LET val == Quotient(load * 256, 100)
    IN  IF val > 256 THEN 255 ELSE AsByte(val)

(* A double, converted to a byte: it is never above 255.                   *)
data_source_cpu_utility(busy, total) ==
    IF total = 0 THEN Undefined ELSE {(busy * 255) \div total}

---------------------------------------------------------------------------

Sample(load, of, value) == [load |-> load, of |-> of, value |-> value]

(* A source returns 0 when its sensor does not answer.                     *)
Unanswered == Sample(0, 1, 0)

SamplesOf(callback) ==
    CASE callback = "data_source_calibration" ->
            {Sample(1, 1, data_source_calibration)}
      [] callback = "data_source_ram_utility" ->
            {Sample(p, 100, data_source_ram_utility(p)) : p \in Percentages}
      [] callback = "data_source_nvidia_gpu_utility" ->
            {Sample(p, 100, data_source_nvidia_gpu_utility(p)) : p \in Percentages}
      [] callback = "data_source_nvidia_gpu_temperature" ->
            {Sample(d, 100, data_source_nvidia_gpu_temperature(d)) : d \in Degrees}
      [] callback = "data_source_cpu_utility" ->
            LET busy == since.total - since.idle
            IN  {Sample(busy, since.total, value) :
                    value \in data_source_cpu_utility(busy, since.total)}

Elapsed(total, idle) == [total |-> total, idle |-> idle]

(* Time goes by, some of it idle.  Beyond the bound it is not counted.     *)
TimePasses(elapsed) ==
    IF since.total + elapsed > MaxElapsed THEN UNCHANGED since
    ELSE \E idle \in 0..elapsed :
            since' = Elapsed(since.total + elapsed, since.idle + idle)

(* A source is called.  The CPU source remembers when it was, if it was    *)
(* told the times.                                                         *)
Call(callback) ==
    \/ /\ sample' \in SamplesOf(callback)
       /\ IF callback = "data_source_cpu_utility"
          THEN since' = Elapsed(0, 0)
          ELSE UNCHANGED since
    \/ /\ callback # "data_source_calibration"
       /\ sample' = Unanswered
       /\ UNCHANGED since

=============================================================================
