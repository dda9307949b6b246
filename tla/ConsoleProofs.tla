---------------------------- MODULE ConsoleProofs ----------------------------
(***************************************************************************)
(* What the console program sends is the load, proved for every            *)
(* calibration, sensor value and number of channels; what the query        *)
(* returns and when; when a CPU sample spans time; type correctness; how a *)
(* tick ends.                                                              *)
(*                                                                         *)
(* The arithmetic comes first: what two roundings and a narrowing leave of *)
(* a load.  Then the invariant that ties the sample in hand to its source, *)
(* and one invariant for each of the other theorems.                       *)
(***************************************************************************)
EXTENDS ConsoleProgram, PanelBaseProofs

(* A sample that tells the truth: the byte is the load's share of the      *)
(* scale, up to less than two steps for the top of the scale and one for   *)
(* what rounding loses.                                                    *)
Truthful(s) ==
    /\ s.value \in Byte
    /\ s.load \in Int /\ s.of \in Nat
    /\ s.load >= 0 /\ s.of > 0 =>
          LET load == IF s.load > s.of THEN s.of ELSE s.load
          IN  /\ s.value * s.of <= 256 * load
              /\ 256 * load <= s.value * s.of + 3 * s.of

LEMMA CalibrationTruthful == Truthful(Sample(1, 1, data_source_calibration))
  BY SMT DEF Truthful, Sample, data_source_calibration, Byte

LEMMA UnansweredTruthful == Truthful(Unanswered)
  BY SMT DEF Truthful, Unanswered, Sample, Byte

(* A per cent of n, for n below 100, becomes n * 256 / 100 rounded down.   *)
LEMMA Hundredths ==
    ASSUME NEW n \in 0..99
    PROVE  LET v == AsByte(Quotient(n * 256, 100))
           IN  v \in Byte /\ 100 * v <= 256 * n /\ 256 * n < 100 * v + 100
  <1>1. n * 256 \in Nat /\ n * 256 < 100 * 256
    BY SMT
  <1>2. Quotient(n * 256, 100) = (n * 256) \div 100
    BY <1>1, SMT DEF Quotient
  <1>3. (n * 256) \div 100 \in 0..255
    BY <1>1, SMT
  <1>4. AsByte((n * 256) \div 100) = (n * 256) \div 100
    BY <1>3, SMT DEF AsByte
  <1> QED
    BY <1>1, <1>2, <1>3, <1>4, SMT DEF Byte

LEMMA GpuUtilityTruthful ==
    ASSUME NEW p \in 0..100
    PROVE  Truthful(Sample(p, 100, data_source_nvidia_gpu_utility(p)))
  <1> DEFINE bounded == IF p = 100 THEN 99 ELSE p
             v == data_source_nvidia_gpu_utility(p)
  <1>1. bounded \in 0..99
    BY SMT
  <1>2. v = AsByte(Quotient(bounded * 256, 100))
    BY DEF data_source_nvidia_gpu_utility
  <1>3. v \in Byte /\ 100 * v <= 256 * bounded /\ 256 * bounded < 100 * v + 100
    BY <1>1, <1>2, Hundredths
  <1>4. p = 100 => v = 253
    BY <1>3, SMT DEF Byte
  <1> QED
    BY <1>3, <1>4, SMT DEF Truthful, Sample, Byte

LEMMA TemperatureTruthful ==
    ASSUME NEW d \in Int
    PROVE  Truthful(Sample(d, 100, data_source_nvidia_gpu_temperature(d)))
  <1> DEFINE bounded == IF d >= 100 THEN 99 ELSE d
             v == data_source_nvidia_gpu_temperature(d)
  <1>1. v = AsByte(Quotient(bounded * 256, 100))
    BY DEF data_source_nvidia_gpu_temperature
  <1>2. CASE d < 0
    <2>1. v \in Byte
      BY <1>1, <1>2, SMT DEF AsByte, Quotient, Byte
    <2> QED
      BY <1>2, <2>1, SMT DEF Truthful, Sample
  <1>3. CASE d >= 0
    <2>1. bounded \in 0..99
      BY <1>3, SMT
    <2>2. v \in Byte /\ 100 * v <= 256 * bounded /\ 256 * bounded < 100 * v + 100
      BY <1>1, <2>1, Hundredths
    <2>3. d >= 100 => v = 253
      BY <2>2, SMT DEF Byte
    <2> QED
      BY <1>3, <2>2, <2>3, SMT DEF Truthful, Sample, Byte
  <1> QED
    BY <1>2, <1>3, SMT

(* The RAM source wraps to 0 when the memory is full, and at no other load *)
(* says anything but the truth.                                            *)
FullRam == Sample(100, 100, 0)

LEMMA RamUtilityTruthful ==
    ASSUME NEW p \in 0..100
    PROVE  LET s == Sample(p, 100, data_source_ram_utility(p))
           IN  Truthful(s) \/ s = FullRam
  <1> DEFINE v == data_source_ram_utility(p)
  <1>1. CASE p = 100
    <2>1. v = 0
      BY <1>1, SMT DEF data_source_ram_utility, Quotient, AsByte
    <2> QED
      BY <1>1, <2>1 DEF FullRam
  <1>2. CASE p # 100
    <2>1. p \in 0..99
      BY <1>2, SMT
    <2> DEFINE val == Quotient(p * 256, 100)
    <2>2. AsByte(val) \in Byte /\ 100 * AsByte(val) <= 256 * p
          /\ 256 * p < 100 * AsByte(val) + 100
      BY <2>1, Hundredths
    <2>3. val <= 256
      BY <2>1, SMT DEF Quotient
    <2>4. val \in Int
      BY <2>1, SMT DEF Quotient
    <2>5. v = IF val > 256 THEN 255 ELSE AsByte(val)
      BY DEF data_source_ram_utility
    <2> HIDE DEF val, v
    <2>6. v = AsByte(val)
      BY <2>3, <2>4, <2>5, SMT
    <2> QED
      BY <2>1, <2>2, <2>6, SMT DEF Truthful, Sample, Byte, v
  <1> QED
    BY <1>1, <1>2

LEMMA CpuTruthful ==
    ASSUME NEW total \in Nat, NEW busy \in 0..total,
           NEW value \in data_source_cpu_utility(busy, total)
    PROVE  Truthful(Sample(busy, total, value))
  <1>1. CASE total = 0
    <2>1. value \in Byte
      BY <1>1, UndefinedAssumption DEF data_source_cpu_utility
    <2> QED
      BY <1>1, <2>1, SMT DEF Truthful, Sample
  <1>2. CASE total # 0
    <2> DEFINE scaled == busy * 255
    <2>1. value = scaled \div total
      BY <1>2 DEF data_source_cpu_utility
    <2>2. scaled \in Nat
      BY SMT
    <2>3. total * value <= scaled /\ scaled < total * value + total /\ value \in Nat
      BY <1>2, <2>1, <2>2, DivFacts, SMT
    <2>4. value <= 255
      <3>1. SUFFICES ASSUME value >= 256 PROVE FALSE
        BY <2>3, SMT
      <3>2. 256 * total <= value * total
        BY <3>1, <2>3, TimesMonotone, SMT
      <3> QED
        BY <3>2, <2>3, <1>2, SMT
    <2>5. value * total = total * value /\ value * total \in Nat
      BY <2>3, SMT
    <2> QED
      BY <1>2, <2>3, <2>4, <2>5, SMT DEF Truthful, Sample, Byte
  <1> QED
    BY <1>1, <1>2

(* Scaled by the calibration, a truthful sample stands for its load, less  *)
(* than four steps short.                                                  *)
LEMMA ScaledTruth ==
    ASSUME NEW s, Truthful(s), s.load >= 0, s.of > 0, NEW cal \in Byte
    PROVE  LET load == IF s.load > s.of THEN s.of ELSE s.load
               needle == Scaled(s.value, cal) * s.of
           IN  /\ needle <= load * cal
               /\ needle >= load * cal - 4 * s.of
  <1> DEFINE load == IF s.load > s.of THEN s.of ELSE s.load
             n == Scaled(s.value, cal)
             of == s.of
             v == s.value
  <1>1. /\ v \in Byte /\ of \in Nat \ {0} /\ load \in Nat
        /\ v * of <= 256 * load
        /\ 256 * load <= v * of + 3 * of
    BY SMT DEF Truthful
  <1>2. n \in Byte /\ 256 * n <= v * cal /\ v * cal < 256 * n + 256
    BY <1>1, ScaledIsTheShare
  <1> HIDE DEF load, n, of, v
  <1>3. n \in Nat /\ v \in Nat /\ cal \in Nat
    BY <1>1, <1>2, SMT DEF Byte
  <1>4. n * of <= load * cal
    <2>1. (256 * n) * of <= (v * cal) * of
      BY <1>1, <1>2, <1>3, TimesMonotone, SMT
    <2>2. (v * of) * cal <= (256 * load) * cal
      BY <1>1, <1>3, TimesMonotone, SMT
    <2>3. /\ (256 * n) * of = 256 * (n * of) /\ (v * cal) * of = (v * of) * cal
          /\ (256 * load) * cal = 256 * (load * cal)
      BY <1>1, <1>3, SMT
    <2>4. n * of \in Int /\ load * cal \in Int /\ (v * of) * cal \in Int
      BY <1>1, <1>3, SMT
    <2> QED
      BY <2>1, <2>2, <2>3, <2>4, SMT
  <1>5. n * of >= load * cal - 4 * of
    <2>1. (v * cal) * of <= (256 * n + 256) * of
      BY <1>1, <1>2, <1>3, TimesMonotone, SMT
    <2>2. (256 * load) * cal <= (v * of + 3 * of) * cal
      BY <1>1, <1>3, TimesMonotone, SMT
    <2>3. of * cal <= 255 * of
      BY <1>1, TimesByteBound
    <2>4. /\ (v * cal) * of = (v * of) * cal
          /\ (256 * n + 256) * of = 256 * (n * of) + 256 * of
          /\ (256 * load) * cal = 256 * (load * cal)
          /\ (v * of + 3 * of) * cal = (v * of) * cal + 3 * (of * cal)
      BY <1>1, <1>3, SMT
    <2>5. /\ n * of \in Int /\ load * cal \in Int /\ (v * of) * cal \in Int
          /\ of * cal \in Int
      BY <1>1, <1>3, SMT
    <2> QED
      BY <1>1, <2>1, <2>2, <2>3, <2>4, <2>5, SMT
  <1> QED
    BY <1>4, <1>5 DEF load, n, of

---------------------------------------------------------------------------
(* The invariant.                                                          *)

QueryInv ==
    reply \in Byte /\ ret_val \in Byte /\ count \in Byte /\ i \in Nat

ClockInv ==
    since.total \in Nat /\ since.idle \in 0..since.total

TableInv ==
    /\ data_source_callbacks \in [DOMAIN data_source_callbacks -> Bindable]
    /\ calibration_values \in [DOMAIN data_source_callbacks -> Byte]

(* The sample in hand is true, or the one the RAM source is wrong about,   *)
(* read from a channel that is bound to it.                                *)
RamMayBeFull == "data_source_ram_utility" \in WindowsSources /\ 100 \in Percentages

ReadFrom(callback, s) ==
    \/ Truthful(s)
    \/ callback = "data_source_ram_utility" /\ s = FullRam /\ RamMayBeFull

TransferInv ==
    phase = "transfer" =>
        /\ i < channel_count
        /\ TablesThere
        /\ ReadFrom(data_source_callbacks[i], sample)

ConsoleInv == QueryInv /\ ClockInv /\ TableInv /\ TransferInv

LEMMA InitInv == ConsoleInit => ConsoleInv
  <1> SUFFICES ASSUME ConsoleInit PROVE ConsoleInv
    OBVIOUS
  <1>1. QueryInv
    BY RepliesAreBytes, SMT DEF ConsoleInit, Init, QueryInv, Byte
  <1>2. ClockInv
    BY ElapsedAssumption, SMT DEF ConsoleInit, ClockInv, Elapsed
  <1>3. TableInv /\ TransferInv
    BY SMT DEF ConsoleInit, TableInv, TransferInv
  <1> QED
    BY <1>1, <1>2, <1>3 DEF ConsoleInv

(* The query moves bytes about, and bytes they stay.                       *)
LEMMA QueryKeepsBytes ==
    ASSUME QueryInv, QueryStep
    PROVE  reply' \in Byte /\ ret_val' \in Byte /\ count' \in Byte
  <1>1. CASE transfer_control
    BY <1>1, SMT DEF QueryInv, transfer_control
  <1>2. CASE StripFlag
    BY <1>2, SMT DEF QueryInv, StripFlag, RawValue, Byte
  <1>3. CASE EnterLoop
    BY <1>3, SMT DEF QueryInv, EnterLoop
  <1>4. CASE CountChannel
    BY <1>4, SMT DEF QueryInv, CountChannel, AsByte, Byte
  <1>5. CASE LeaveLoop
    BY <1>5, SMT DEF QueryInv, LeaveLoop
  <1>6. CASE Report
    BY <1>6, SMT DEF QueryInv, Report, Byte
  <1> QED
    BY <1>1, <1>2, <1>3, <1>4, <1>5, <1>6 DEF QueryStep

(* Time only goes on, and is not idle for longer than it lasts.            *)
LEMMA TimeKeepsClock ==
    ASSUME ClockInv, NEW elapsed \in Nat, Passing(elapsed)
    PROVE  ClockInv'
  BY SMT DEF ClockInv, Passing, TimePasses, Elapsed

(* Every source but that of the RAM is truthful.                           *)
LEMMA CallTruthful ==
    ASSUME ClockInv, NEW callback, Call(callback),
           callback \in {"data_source_calibration"} \cup WindowsSources
    PROVE  ClockInv' /\ ReadFrom(callback, sample')
  <1>1. ClockInv'
    BY SMT DEF ClockInv, Call, Elapsed
  <1>2. CASE sample' = Unanswered
    BY <1>1, <1>2, UnansweredTruthful DEF Truthful, ReadFrom
  <1>3. CASE sample' \in SamplesOf(callback)
    <2>1. CASE callback = "data_source_calibration"
      BY <1>1, <1>3, <2>1, CalibrationTruthful DEF SamplesOf, Truthful, ReadFrom
    <2>2. CASE callback = "data_source_nvidia_gpu_utility"
      <3>1. PICK p \in Percentages :
                sample' = Sample(p, 100, data_source_nvidia_gpu_utility(p))
        BY <1>3, <2>2 DEF SamplesOf
      <3>2. Truthful(Sample(p, 100, data_source_nvidia_gpu_utility(p)))
        BY SensorAssumption, GpuUtilityTruthful
      <3> QED
        BY <1>1, <3>1, <3>2 DEF Truthful, ReadFrom
    <2>3. CASE callback = "data_source_nvidia_gpu_temperature"
      <3>1. PICK d \in Degrees :
                sample' = Sample(d, 100, data_source_nvidia_gpu_temperature(d))
        BY <1>3, <2>3 DEF SamplesOf
      <3>2. d \in Int
        BY SensorAssumption, SMT DEF Degrees
      <3>3. Truthful(Sample(d, 100, data_source_nvidia_gpu_temperature(d)))
        BY <3>2, TemperatureTruthful
      <3> QED
        BY <1>1, <3>1, <3>3 DEF Truthful, ReadFrom
    <2>4. CASE callback = "data_source_cpu_utility"
      <3> DEFINE busy == since.total - since.idle
      <3>1. PICK value \in data_source_cpu_utility(busy, since.total) :
                sample' = Sample(busy, since.total, value)
        BY <1>3, <2>4 DEF SamplesOf
      <3>2. since.total \in Nat /\ busy \in 0..since.total
        BY SMT DEF ClockInv
      <3>3. Truthful(Sample(busy, since.total, value))
        BY <3>2, CpuTruthful
      <3> QED
        BY <1>1, <3>1, <3>3 DEF Truthful, ReadFrom
    <2>5. CASE callback = "data_source_ram_utility"
      <3>1. PICK p \in Percentages :
                sample' = Sample(p, 100, data_source_ram_utility(p))
        BY <1>3, <2>5 DEF SamplesOf
      <3>2. Truthful(sample') \/ sample' = FullRam
        BY <3>1, SensorAssumption, RamUtilityTruthful
      <3>3. sample' = FullRam => p = 100
        BY <3>1 DEF FullRam, Sample
      <3>4. "data_source_ram_utility" \in WindowsSources
        BY <2>5
      <3> QED
        BY <1>1, <2>5, <3>2, <3>3, <3>4 DEF ReadFrom, RamMayBeFull
    <2> QED
      BY <2>1, <2>2, <2>3, <2>4, <2>5, ConsoleAssumption
  <1> QED
    BY <1>1, <1>2, <1>3 DEF Call

LEMMA LoadKeepsTables ==
    ASSUME QueryInv, TableInv, initialize_data_source_binding
    PROVE  TableInv'
  <1>1. Bindable' = Bindable
    BY DEF initialize_data_source_binding, Bindable
  <1>2. CASE UNCHANGED tables
    BY <1>1, <1>2 DEF TableInv, tables
  <1>3. CASE \E k \in 0..channel_count : LoadedTo(k)
    <2>1. /\ data_source_callbacks' \in [Tables(channel_count) -> Bindable]
          /\ calibration_values' \in [Tables(channel_count) -> Calibrations \cup {0}]
      BY <1>3 DEF LoadedTo
    <2>2. Calibrations \cup {0} \subseteq Byte
      BY ConsoleAssumption, SMT DEF Byte
    <2> QED
      BY <1>1, <2>1, <2>2 DEF TableInv
  <1> QED
    BY <1>2, <1>3 DEF initialize_data_source_binding

LEMMA NextInv ==
    ASSUME ConsoleInv, [ConsoleNext]_consoleVars
    PROVE  ConsoleInv'
  <1> USE DEF ConsoleInv
  <1>1. CASE open_device
    BY <1>1, SMT DEF open_device, vars, tables, clock, QueryInv, ClockInv, TableInv,
        TransferInv, Bindable
  <1>2. CASE get_channel_count
    <2>1. QueryInv'
      BY <1>2, QueryKeepsBytes DEF get_channel_count, QueryInv
    <2>2. ClockInv' /\ TableInv' /\ TransferInv'
      BY <1>2 DEF get_channel_count, tables, ClockInv, TableInv, TransferInv, Bindable
    <2> QED
      BY <2>1, <2>2
  <1>3. CASE NullHandle
    BY <1>3, SMT DEF NullHandle, vars, tables, QueryInv, ClockInv, TableInv, TransferInv,
        Bindable
  <1>4. CASE initialize_data_source_binding
    <2>1. TableInv'
      BY <1>4, LoadKeepsTables
    <2>2. QueryInv' /\ ClockInv' /\ TransferInv'
      BY <1>4 DEF initialize_data_source_binding, vars, QueryInv, ClockInv, TransferInv
    <2> QED
      BY <2>1, <2>2
  <1>5. CASE SkipChannel
    BY <1>5, SMT DEF SkipChannel, vars, tables, QueryInv, ClockInv, TableInv, TransferInv,
        Bindable
  <1>6. CASE CallSource
    <2>1. data_source_callbacks[i] \in {"data_source_calibration"} \cup WindowsSources
      <3>1. i \in DOMAIN data_source_callbacks
        BY <1>6, SMT DEF CallSource, TablesThere, QueryInv, channel_count, Byte
      <3>2. data_source_callbacks[i] \in Bindable \ {"NULL"}
        BY <1>6, <3>1 DEF CallSource, TableInv
      <3> QED
        BY <3>2 DEF Bindable
    <2>2. ClockInv' /\ ReadFrom(data_source_callbacks[i], sample')
      BY <1>6, <2>1, CallTruthful DEF CallSource
    <2>3. QueryInv' /\ TableInv'
      BY <1>6 DEF CallSource, vars, tables, QueryInv, TableInv, Bindable
    <2>4. TransferInv'
      BY <1>6, <2>2 DEF CallSource, vars, tables, TransferInv, TablesThere, channel_count
    <2> QED
      BY <2>2, <2>3, <2>4
  <1>7. CASE NullTables
    BY <1>7, SMT DEF NullTables, vars, tables, QueryInv, ClockInv, TableInv, TransferInv,
        Bindable
  <1>8. CASE send_usage_or_fail
    <2>1. PICK elapsed \in {0, 1} : Passing(elapsed)
      BY <1>8 DEF send_usage_or_fail
    <2>2. ClockInv'
      BY <2>1, TimeKeepsClock
    <2>3. QueryInv' /\ TableInv' /\ TransferInv'
      BY <1>8, SMT DEF send_usage_or_fail, vars, tables, QueryInv, TableInv, TransferInv,
          Bindable
    <2> QED
      BY <2>2, <2>3
  <1>9. CASE EndOfTick
    BY <1>9, SMT DEF EndOfTick, vars, tables, QueryInv, ClockInv, TableInv, TransferInv,
        Bindable
  <1>10. CASE AfterFailure
    BY <1>10, SMT DEF AfterFailure, vars, tables, QueryInv, ClockInv, TableInv,
        TransferInv, Bindable
  <1>11. CASE NextTick
    <2>1. PICK elapsed \in {0, 1, 2} : Passing(elapsed)
      BY <1>11 DEF NextTick, Pauses
    <2>2. ClockInv'
      BY <2>1, TimeKeepsClock
    <2>3. QueryInv' /\ TableInv' /\ TransferInv'
      BY <1>11, SMT DEF NextTick, vars, tables, QueryInv, TableInv, TransferInv, Bindable
    <2> QED
      BY <2>2, <2>3
  <1>12. CASE UNCHANGED consoleVars
    BY <1>12 DEF consoleVars, vars, tables, QueryInv, ClockInv, TableInv, TransferInv,
        Bindable, TablesThere, channel_count, ReadFrom, Truthful
  <1> QED
    BY <1>1, <1>2, <1>3, <1>4, <1>5, <1>6, <1>7, <1>8, <1>9, <1>10, <1>11, <1>12
    DEF ConsoleNext

(* What a delivered transfer is, that can be held against a load; and what *)
(* the needle then shows.                                                  *)
Delivers ==
    phase = "transfer" /\ phase' = "collect" /\ sample.load >= 0 /\ sample.of > 0

ShowsLoad ==
    LET load == IF sample.load > sample.of THEN sample.of ELSE sample.load
        needle == UsageValue(word') * sample.of
        full == load * calibration_values[i]
    IN  /\ UsageChannel(word') = i
        /\ needle <= full
        /\ needle >= full - 4 * sample.of

ShowsNothingOfFullRam ==
    /\ data_source_callbacks[i] = "data_source_ram_utility"
    /\ sample.load = 100 /\ sample.of = 100
    /\ UsageChannel(word') = i
    /\ UsageValue(word') = 0

(* A delivered transfer shows the load of the source that was read, or     *)
(* nothing of a full memory.                                               *)
LEMMA DeliveryShowsLoad ==
    ASSUME ConsoleInv, [ConsoleNext]_consoleVars, Delivers
    PROVE  ShowsLoad \/ (RamMayBeFull /\ ShowsNothingOfFullRam)
  <1> USE DEF Delivers
  <1>1. word' = Word
    BY DEF ConsoleNext, consoleVars, open_device, get_channel_count, NullHandle,
        initialize_data_source_binding, SkipChannel, CallSource, NullTables,
        send_usage_or_fail, EndOfTick, AfterFailure, NextTick
  <1>2. i \in Nat /\ i \in DOMAIN data_source_callbacks
    BY SMT DEF ConsoleInv, QueryInv, TransferInv, TablesThere, channel_count, Byte
  <1>3. calibration_values[i] \in Byte
    BY <1>2 DEF ConsoleInv, TableInv
  <1>4. ReadFrom(data_source_callbacks[i], sample)
    BY DEF ConsoleInv, TransferInv
  <1>5. sample.value \in Byte
    BY <1>4, SMT DEF ReadFrom, Truthful, FullRam, Sample, Byte
  <1>6. Scaled(sample.value, calibration_values[i]) \in Byte
    BY <1>3, <1>5, ScaledIsTheShare
  <1>7. /\ UsageChannel(word') = i
        /\ UsageValue(word') = Scaled(sample.value, calibration_values[i])
    BY <1>1, <1>2, <1>6, WordRoundTrip DEF Word
  <1>8. CASE Truthful(sample)
    BY <1>3, <1>7, <1>8, ScaledTruth DEF ShowsLoad
  <1>9. CASE /\ data_source_callbacks[i] = "data_source_ram_utility"
             /\ sample = FullRam /\ RamMayBeFull
    <2>1. sample.load = 100 /\ sample.of = 100 /\ sample.value = 0
      BY <1>9 DEF FullRam, Sample
    <2>2. Scaled(0, calibration_values[i]) <= 0 /\ Scaled(0, calibration_values[i]) \in Byte
      BY <1>3, <1>5, <2>1, ScaledWithin
    <2>3. Scaled(0, calibration_values[i]) = 0
      BY <2>2, SMT DEF Byte
    <2> QED
      BY <1>7, <1>9, <2>1, <2>3 DEF ShowsNothingOfFullRam
  <1> QED
    BY <1>4, <1>8, <1>9 DEF ReadFrom

LEMMA ConsoleInvariance == ConsoleSpec => []ConsoleInv
  <1>1. ConsoleInv /\ [ConsoleNext]_consoleVars => ConsoleInv'
    BY NextInv
  <1> QED
    BY InitInv, <1>1, PTL DEF ConsoleSpec

(* Every delivered transfer of the console program names the channel whose *)
(* source was read and shows its load on the scale of its calibration,     *)
(* less at most four steps: whatever the sources and their sensors say, a  *)
(* memory that is full, and shown as empty, is the only exception.         *)
THEOREM OnlyFullRamIsNotShown ==
    ConsoleSpec => [][Delivers => ShowsLoad \/ ShowsNothingOfFullRam]_consoleVars
  <1>1. ConsoleInv /\ [ConsoleNext]_consoleVars =>
            [Delivers => ShowsLoad \/ ShowsNothingOfFullRam]_consoleVars
    BY DeliveryShowsLoad
  <1> QED
    BY <1>1, ConsoleInvariance, PTL DEF ConsoleSpec

(* So every needle shows its load where no channel is bound to the RAM     *)
(* source, or the memory is never full.                                    *)
THEOREM NeedlesShowTheLoad ==
    ASSUME "data_source_ram_utility" \notin WindowsSources \/ 100 \notin Percentages
    PROVE  ConsoleSpec => NeedleShowsLoad
  <1>1. ConsoleInv /\ [ConsoleNext]_consoleVars =>
            ((phase = "transfer" /\ phase' = "collect"
                /\ sample.load >= 0 /\ sample.of > 0) =>
               LET load == IF sample.load > sample.of THEN sample.of ELSE sample.load
                   needle == UsageValue(word') * sample.of
                   full == load * calibration_values[i]
               IN  /\ UsageChannel(word') = i
                   /\ needle <= full
                   /\ needle >= full - 4 * sample.of)
    BY DeliveryShowsLoad DEF RamMayBeFull, Delivers, ShowsLoad
  <1> QED
    BY <1>1, ConsoleInvariance, PTL DEF ConsoleSpec, NeedleShowsLoad

---------------------------------------------------------------------------
(* The query                                                               *)

(* What is in ret_val, by where the function is.  The count is 0 when the  *)
(* loop is left, because the loop is only ever left by not entering it.    *)
CountInv ==
    /\ pc \in {"transfer", "test", "loop", "report", "done"}
    /\ reply \in Byte /\ ret_val \in Byte /\ count \in Byte
    /\ pc = "transfer" => ret_val = 0
    /\ pc = "test" => ret_val = IF status = "STATUS_SUCCESS" THEN reply ELSE 0
    /\ pc = "loop" =>
          /\ ret_val = IF status = "STATUS_SUCCESS" THEN reply ELSE 0
          /\ ~ReportsRawValue(ret_val)
    /\ pc \in {"transfer", "test"} \/ (pc = "loop" /\ ret_val % 2 = 0) => count = 0
    /\ pc = "report" /\ status = "STATUS_SUCCESS" => ret_val \in ChannelCounts(reply)
    /\ ReturnsChannelCount

LEMMA InitCountInv == Init => CountInv
  BY RepliesAreBytes, SMT DEF Init, CountInv, ReturnsChannelCount, Byte

LEMMA QueryKeepsCount ==
    ASSUME CountInv, QueryStep
    PROVE  CountInv'
  <1> USE DEF CountInv, ReturnsChannelCount
  <1>1. CASE transfer_control
    BY <1>1, SMT DEF transfer_control, Byte
  <1>2. CASE StripFlag
    BY <1>2, SMT DEF StripFlag, ReportsRawValue, RawValue, ChannelCounts, Byte
  <1>3. CASE EnterLoop
    BY <1>3, SMT DEF EnterLoop
  <1>4. CASE CountChannel
    BY <1>4, SMT DEF CountChannel, AsByte, Byte
  <1>5. CASE LeaveLoop
    BY <1>5, SMT DEF LeaveLoop, ChannelCounts, Byte
  <1>6. CASE Report
    BY <1>6, SMT DEF Report, Byte
  <1> QED
    BY <1>1, <1>2, <1>3, <1>4, <1>5, <1>6 DEF QueryStep

(* Only main's call of the query touches its variables.                    *)
LEMMA QueryOrNot ==
    ASSUME [ConsoleNext]_consoleVars
    PROVE  QueryStep \/ UNCHANGED vars
  BY DEF ConsoleNext, consoleVars, open_device, get_channel_count, NullHandle,
      initialize_data_source_binding, SkipChannel, CallSource, NullTables,
      send_usage_or_fail, EndOfTick, AfterFailure, NextTick

LEMMA NextCountInv ==
    ASSUME CountInv, [ConsoleNext]_consoleVars
    PROVE  CountInv'
  <1>1. CASE QueryStep
    BY <1>1, QueryKeepsCount
  <1>2. CASE UNCHANGED vars
    BY <1>2 DEF vars, CountInv, ReturnsChannelCount
  <1> QED
    BY <1>1, <1>2, QueryOrNot

(* The count main goes on with is what ChannelCounts says of the reply,    *)
(* and 0 after a transfer that failed, for every reply of a panel.         *)
THEOREM QueryCounts == ConsoleSpec => []ReturnsChannelCount
  <1>1. ConsoleInit => CountInv
    BY InitCountInv DEF ConsoleInit
  <1>2. CountInv /\ [ConsoleNext]_consoleVars => CountInv'
    BY NextCountInv
  <1>3. CountInv => ReturnsChannelCount
    BY DEF CountInv
  <1> QED
    BY <1>1, <1>2, <1>3, PTL DEF ConsoleSpec

---------------------------------------------------------------------------
(* The shared CPU sample                                                   *)

Rests(c) == data_source_callbacks[c] = "data_source_cpu_utility"

(* No time since the last sample means that a channel took it in this      *)
(* tick, at the present one or before, or that the tick was rushed.        *)
SpanInv ==
    /\ since.total \in Nat
    /\ i \in Nat
    /\ phase \in {"open", "query"} => since.total > 0
    /\ since.total = 0 =>
          /\ \E c \in DOMAIN data_source_callbacks : Rests(c)
          /\ phase = "collect" => rushed \/ \E c \in 0..(i - 1) : Rests(c)
          /\ phase = "transfer" => rushed \/ \E c \in 0..i : Rests(c)

(* Every entry is a source there is, or none.                              *)
Sources ==
    {"data_source_calibration", "data_source_cpu_utility", "data_source_ram_utility",
     "data_source_nvidia_gpu_utility", "data_source_nvidia_gpu_temperature"}

KnownInv ==
    \A c \in DOMAIN data_source_callbacks :
        data_source_callbacks[c] \in Sources \cup {"NULL"}

LEMMA NextKnownInv ==
    ASSUME KnownInv, [ConsoleNext]_consoleVars
    PROVE  KnownInv'
  <1>1. CASE UNCHANGED tables
    BY <1>1 DEF tables, KnownInv
  <1>2. CASE \E k \in 0..channel_count : LoadedTo(k)
    BY <1>2, ConsoleAssumption DEF LoadedTo, Bindable, KnownInv, Sources
  <1> QED
    BY <1>1, <1>2 DEF ConsoleNext, consoleVars, open_device, get_channel_count, NullHandle,
        initialize_data_source_binding, SkipChannel, CallSource, NullTables,
        send_usage_or_fail, EndOfTick, AfterFailure, NextTick

LEMMA CountIsNat == CountInv => channel_count \in Nat
  BY SMT DEF CountInv, channel_count, Byte

LEMMA ChannelInTables ==
    ASSUME CountInv, i \in Nat, i < channel_count, TablesThere
    PROVE  i \in DOMAIN data_source_callbacks
  BY SMT DEF CountInv, TablesThere, channel_count, Byte

LEMMA InitSpanInv == ConsoleInit => SpanInv
  BY ElapsedAssumption, SMT DEF ConsoleInit, SpanInv, Elapsed

(* Time never goes back.                                                   *)
LEMMA TimePassesOn ==
    ASSUME since.total \in Nat, NEW elapsed \in Nat, Passing(elapsed)
    PROVE  since'.total \in Nat /\ since'.total >= since.total
  BY SMT DEF Passing, TimePasses, Elapsed

(* A pause leaves a program with a channel bound to the CPU some time.     *)
LEMMA PauseSpansTime ==
    ASSUME since.total \in Nat, NEW elapsed \in {1, 2}, Passing(elapsed),
           \E c \in DOMAIN data_source_callbacks : Rests(c)
    PROVE  since'.total > 0
  <1>1. TimePasses(elapsed)
    BY DEF Passing, Rests
  <1> QED
    BY <1>1, ElapsedAssumption, SMT DEF TimePasses, Elapsed

LEMMA NextSpanInv ==
    ASSUME CountInv, SpanInv, [ConsoleNext]_consoleVars
    PROVE  SpanInv'
  <1> USE DEF SpanInv, Rests
  <1>1. CASE open_device
    BY <1>1 DEF open_device, tables, clock
  <1>2. CASE get_channel_count
    BY <1>2 DEF get_channel_count, tables, clock
  <1>3. CASE NullHandle
    BY <1>3 DEF NullHandle, tables
  <1>4. CASE initialize_data_source_binding
    BY <1>4 DEF initialize_data_source_binding
  <1>5. CASE SkipChannel
    <2>1. /\ phase = "collect" /\ phase' = "collect" /\ since' = since /\ i' = i + 1
          /\ rushed' = rushed /\ data_source_callbacks' = data_source_callbacks
      BY <1>5 DEF SkipChannel, tables, clock
    <2>2. 0..(i - 1) \subseteq 0..(i' - 1)
      BY <2>1, SMT
    <2> QED
      BY <2>1, <2>2
  <1>6. CASE CallSource
    <2>1. /\ phase = "collect" /\ phase' = "transfer" /\ i' = i /\ rushed' = rushed
          /\ data_source_callbacks' = data_source_callbacks
          /\ i < channel_count /\ TablesThere
      BY <1>6 DEF CallSource, tables, clock
    <2>2. CASE since' = since
      <3>1. 0..(i - 1) \subseteq 0..i'
        BY <2>1, SMT
      <3> QED
        BY <2>1, <2>2, <3>1
    <2>3. CASE since' # since
      <3>1. Rests(i) /\ since' = Elapsed(0, 0)
        BY <1>6, <2>3 DEF CallSource, Call
      <3>2. i \in 0..i' /\ i \in Nat
        BY <2>1, SMT
      <3>3. i \in DOMAIN data_source_callbacks
        BY <2>1, ChannelInTables
      <3>4. since'.total = 0
        BY <3>1 DEF Elapsed
      <3> QED
        BY <2>1, <3>1, <3>2, <3>3, <3>4
    <2> QED
      BY <2>2, <2>3
  <1>7. CASE NullTables
    BY <1>7 DEF NullTables, tables
  <1>8. CASE send_usage_or_fail
    <2>1. PICK elapsed \in {0, 1} : Passing(elapsed)
      BY <1>8 DEF send_usage_or_fail
    <2>2. since'.total \in Nat /\ since'.total >= since.total
      BY <2>1, TimePassesOn
    <2>3. since'.total = 0 => since.total = 0
      BY <2>2, SMT
    <2>4. /\ phase = "transfer" /\ rushed' = rushed
          /\ data_source_callbacks' = data_source_callbacks
          /\ \/ phase' = "collect" /\ i' = i + 1
             \/ phase' = "failed" /\ i' = i
      BY <1>8 DEF send_usage_or_fail, tables
    <2>5. i' = i + 1 => i' \in Nat /\ 0..i \subseteq 0..(i' - 1)
      BY SMT
    <2> QED
      BY <2>2, <2>3, <2>4, <2>5
  <1>9. CASE EndOfTick
    BY <1>9 DEF EndOfTick, tables
  <1>10. CASE AfterFailure
    BY <1>10 DEF AfterFailure, tables
  <1>11. CASE NextTick
    <2>1. PICK elapsed \in Pauses : Passing(elapsed) /\ rushed' = (late /\ elapsed = 0)
      BY <1>11 DEF NextTick
    <2>2. /\ phase' = "collect" /\ i' = 0
          /\ data_source_callbacks' = data_source_callbacks
      BY <1>11 DEF NextTick, tables
    <2>3. since'.total \in Nat /\ since'.total >= since.total
      BY <2>1, TimePassesOn DEF Pauses
    <2>4. CASE elapsed = 0
      <3>1. late
        BY <2>1, <2>4 DEF Pauses
      <3>2. rushed'
        BY <2>1, <2>4, <3>1
      <3>3. since'.total = 0 => since.total = 0
        BY <2>3, SMT
      <3> QED
        BY <2>2, <2>3, <3>2, <3>3
    <2>5. CASE elapsed \in {1, 2}
      <3>1. since.total > 0 \/ since'.total > 0
        BY <2>1, <2>5, PauseSpansTime, SMT
      <3> QED
        BY <2>2, <2>3, <3>1, SMT
    <2> QED
      BY <2>1, <2>4, <2>5 DEF Pauses
  <1>12. CASE UNCHANGED consoleVars
    BY <1>12 DEF consoleVars, tables, clock
  <1> QED
    BY <1>1, <1>2, <1>3, <1>4, <1>5, <1>6, <1>7, <1>8, <1>9, <1>10, <1>11, <1>12
    DEF ConsoleNext

(* A source whose sample is out of nothing is the CPU's, called with no    *)
(* time gone by.                                                           *)
LEMMA NothingIsOfTheCpu ==
    ASSUME NEW callback \in Sources, Call(callback), sample'.of = 0
    PROVE  callback = "data_source_cpu_utility" /\ since.total = 0
  BY SMT DEF Call, SamplesOf, Sample, Unanswered, Sources

LEMMA CallsSpanTime ==
    ASSUME CountInv, KnownInv, SpanInv, [ConsoleNext]_consoleVars,
           phase = "collect", phase' = "transfer", sample'.of = 0
    PROVE  \/ \E c \in 0..(i - 1) : data_source_callbacks[c] = data_source_callbacks[i]
           \/ rushed
  <1>1. CallSource
    BY DEF ConsoleNext, consoleVars, open_device, get_channel_count, NullHandle,
        initialize_data_source_binding, SkipChannel, NullTables,
        send_usage_or_fail, EndOfTick, AfterFailure, NextTick
  <1>2. data_source_callbacks[i] \in Sources
    BY <1>1, ChannelInTables DEF CallSource, SpanInv, KnownInv
  <1>3. data_source_callbacks[i] = "data_source_cpu_utility" /\ since.total = 0
    BY <1>1, <1>2, NothingIsOfTheCpu DEF CallSource
  <1> QED
    BY <1>3 DEF SpanInv, Rests

(* Two CPU samples in one tick, or one each in a late tick and the one     *)
(* that follows at once, are the only ways to a sample that spans no time, *)
(* whatever the settings and however long transfers take.                  *)
THEOREM SamplesSpanTime == ConsoleSpec => CpuSampleSpansTime
  <1> DEFINE Inv == CountInv /\ KnownInv /\ SpanInv
             Shared == \/ \E c \in 0..(i - 1) :
                             data_source_callbacks[c] = data_source_callbacks[i]
                       \/ rushed
  <1>1. ConsoleInit => Inv
    BY InitCountInv, InitSpanInv DEF ConsoleInit, KnownInv
  <1>2. Inv /\ [ConsoleNext]_consoleVars => Inv'
    BY NextCountInv, NextKnownInv, NextSpanInv
  <1>3. Inv /\ [ConsoleNext]_consoleVars =>
            ((phase = "collect" /\ phase' = "transfer" /\ sample'.of = 0) => Shared)
    BY CallsSpanTime
  <1> HIDE DEF Inv
  <1> QED
    BY <1>1, <1>2, <1>3, PTL DEF ConsoleSpec, CpuSampleSpansTime

---------------------------------------------------------------------------
(* Types                                                                   *)

(* The tables are there whole or not at all, and the loop stays in them.   *)
Loaded(n) ==
    /\ data_source_callbacks \in [Tables(n) -> Bindable]
    /\ calibration_values \in [Tables(n) -> Byte]

Asking == phase \in {"open", "query"}

LoadedInv ==
    /\ Asking => Loaded(0)
    /\ ~Asking => Loaded(0) \/ Loaded(channel_count)

ScalarTypes ==
    /\ build \in Builds
    /\ opened \in BOOLEAN
    /\ phase \in Phases
    /\ i \in 0..MaxChannels
    /\ word \in Nat /\ UsageChannel(word) \in Channel
    /\ late \in BOOLEAN /\ rushed \in BOOLEAN

ClockTypes == since.total \in 0..MaxElapsed /\ since.idle \in 0..since.total

BoundsInv ==
    /\ ~Asking => channel_count <= MaxChannels
    /\ phase = "transfer" => i < channel_count /\ TablesThere

TypeInv ==
    LoadedInv /\ ScalarTypes /\ ClockTypes /\ sample.value \in Byte /\ BoundsInv

LEMMA InitTypeInv == ConsoleInit => TypeInv
  <1> SUFFICES ASSUME ConsoleInit PROVE TypeInv
    OBVIOUS
  <1>1. /\ pc = "transfer" /\ ret_val \in Byte /\ count \in Byte
        /\ ClockTypes
        /\ sample.value \in Byte
        /\ i \in 0..MaxChannels /\ word \in Nat /\ UsageChannel(word) \in Channel
    BY ElapsedAssumption, ConsoleAssumption, SMT
    DEF ConsoleInit, Init, ClockTypes, Elapsed, Unanswered, Sample, UsageChannel, Channel, Byte
  <1>2. Loaded(0)
    <2>1. Tables(0) = {}
      BY SMT DEF Tables
    <2> QED
      BY <2>1 DEF ConsoleInit, Loaded
  <1>3. phase = "open" /\ build \in Builds /\ opened = FALSE /\ late = FALSE /\ rushed = FALSE
    BY DEF ConsoleInit
  <1>4. LoadedInv /\ BoundsInv
    BY <1>2, <1>3 DEF LoadedInv, BoundsInv, Asking
  <1>5. ScalarTypes
    BY <1>1, <1>3 DEF ScalarTypes, Phases
  <1> QED
    BY <1>1, <1>4, <1>5 DEF TypeInv

(* Whatever the source, the byte is a byte, and the clock stays in bounds. *)
LEMMA CallTypes ==
    ASSUME ClockTypes, NEW callback \in Sources, Call(callback)
    PROVE  sample'.value \in Byte /\ ClockTypes'
  <1>1. \A n \in Int : AsByte(n) \in Byte
    BY SMT DEF AsByte, Byte
  <1>2. ClockTypes'
    BY ElapsedAssumption, SMT DEF ClockTypes, Call, Elapsed
  <1> SUFFICES sample'.value \in Byte
    BY <1>2
  <1>3. CASE sample' = Unanswered
    BY <1>3, SMT DEF Unanswered, Sample, Byte
  <1>4. CASE sample' \in SamplesOf(callback)
    <2>1. CASE callback = "data_source_calibration"
      BY <1>4, <2>1, SMT DEF SamplesOf, Sample, data_source_calibration, Byte
    <2>2. CASE callback = "data_source_ram_utility"
      BY <1>4, <2>2, SensorAssumption, SMT
      DEF SamplesOf, Sample, data_source_ram_utility, Quotient, AsByte, Byte
    <2>3. CASE callback = "data_source_nvidia_gpu_utility"
      BY <1>4, <2>3, SensorAssumption, SMT
      DEF SamplesOf, Sample, data_source_nvidia_gpu_utility, Quotient, AsByte, Byte
    <2>4. CASE callback = "data_source_nvidia_gpu_temperature"
      <3>1. PICK d \in Degrees :
                sample' = Sample(d, 100, data_source_nvidia_gpu_temperature(d))
        BY <1>4, <2>4 DEF SamplesOf
      <3>2. d \in Int
        BY SensorAssumption, SMT DEF Degrees
      <3>3. Truthful(Sample(d, 100, data_source_nvidia_gpu_temperature(d)))
        BY <3>2, TemperatureTruthful
      <3> QED
        BY <3>1, <3>3 DEF Truthful
    <2>5. CASE callback = "data_source_cpu_utility"
      <3> DEFINE busy == since.total - since.idle
      <3>1. PICK value \in data_source_cpu_utility(busy, since.total) :
                sample' = Sample(busy, since.total, value)
        BY <1>4, <2>5 DEF SamplesOf
      <3>2. since.total \in Nat /\ busy \in 0..since.total
        BY ElapsedAssumption, SMT DEF ClockTypes
      <3>3. Truthful(Sample(busy, since.total, value))
        BY <3>2, CpuTruthful
      <3> QED
        BY <3>1, <3>3 DEF Truthful
    <2> QED
      BY <2>1, <2>2, <2>3, <2>4, <2>5 DEF Sources
  <1> QED
    BY <1>3, <1>4 DEF Call

LEMMA PassingTypes ==
    ASSUME ClockTypes, NEW elapsed \in Nat, Passing(elapsed)
    PROVE  ClockTypes'
  BY ElapsedAssumption, SMT DEF ClockTypes, Passing, TimePasses, Elapsed

(* The entries are made once, and stay.                                    *)
LEMMA NextLoadedInv ==
    ASSUME LoadedInv, [ConsoleNext]_consoleVars
    PROVE  LoadedInv'
  <1>1. CASE initialize_data_source_binding
    <2>1. Bindable' = Bindable /\ channel_count' = channel_count /\ ~Asking' /\ Asking
      BY <1>1 DEF initialize_data_source_binding, vars, Bindable, channel_count, Asking
    <2>2. CASE UNCHANGED tables
      BY <2>1, <2>2 DEF LoadedInv, Loaded, tables
    <2>3. CASE \E k \in 0..channel_count : LoadedTo(k)
      <3>1. Calibrations \cup {0} \subseteq Byte
        BY ConsoleAssumption, SMT DEF Byte
      <3>2. Loaded(channel_count)'
        BY <2>1, <2>3, <3>1 DEF LoadedTo, Loaded
      <3> QED
        BY <2>1, <3>2 DEF LoadedInv
    <2> QED
      BY <1>1, <2>2, <2>3 DEF initialize_data_source_binding
  <1>2. CASE /\ UNCHANGED <<build, tables>>
             /\ Asking' <=> Asking
             /\ ~Asking => UNCHANGED vars
    <2>1. Bindable' = Bindable
      BY <1>2 DEF Bindable
    <2>2. \A n : Loaded(n)' = Loaded(n)
      BY <1>2, <2>1 DEF Loaded, tables
    <2>3. ~Asking => channel_count' = channel_count
      BY <1>2 DEF vars, channel_count
    <2> QED
      BY <1>2, <2>2, <2>3 DEF LoadedInv
  <1>3. CASE open_device \/ get_channel_count
    BY <1>2, <1>3 DEF open_device, get_channel_count, Asking
  <1>4. CASE NullHandle
    <2>1. Loaded(0) /\ Bindable' = Bindable
      BY <1>4 DEF NullHandle, LoadedInv, Asking, Bindable
    <2>2. Loaded(0)' /\ ~Asking'
      BY <1>4, <2>1 DEF NullHandle, tables, Loaded, Asking
    <2> QED
      BY <2>2 DEF LoadedInv
  <1>5. CASE SkipChannel \/ CallSource \/ NullTables
    BY <1>2, <1>5 DEF SkipChannel, CallSource, NullTables, Asking
  <1>6. CASE send_usage_or_fail
    BY <1>2, <1>6 DEF send_usage_or_fail, Asking
  <1>7. CASE EndOfTick \/ AfterFailure \/ NextTick
    BY <1>2, <1>7 DEF EndOfTick, AfterFailure, NextTick, Asking
  <1>8. CASE UNCHANGED consoleVars
    BY <1>2, <1>8 DEF consoleVars, Asking
  <1> QED
    BY <1>1, <1>3, <1>4, <1>5, <1>6, <1>7, <1>8 DEF ConsoleNext

(* The word of a transfer names a channel there is.                        *)
LEMMA WordOfChannel ==
    ASSUME CountInv, TypeInv, phase = "transfer"
    PROVE  Word \in Nat /\ UsageChannel(Word) \in Channel
  <1>0. channel_count \in Nat /\ i < channel_count /\ channel_count <= MaxChannels
    BY CountIsNat DEF TypeInv, BoundsInv, Asking
  <1>1. i \in Channel /\ i \in Nat
    <2>1. i \in 0..MaxChannels
      BY DEF TypeInv, ScalarTypes
    <2> QED
      BY <1>0, <2>1, ConsoleAssumption, SMT DEF Channel
  <1>2. i \in DOMAIN data_source_callbacks
    BY <1>0, <1>1, ChannelInTables DEF TypeInv, BoundsInv
  <1>3. calibration_values[i] \in Byte
    BY <1>2 DEF TypeInv, LoadedInv, Loaded
  <1>4. Scaled(sample.value, calibration_values[i]) \in Byte
    BY <1>3, ScaledIsTheShare DEF TypeInv
  <1>5. \A value \in Byte : UsageWord(i, value) \in Nat
    BY <1>1, SMT DEF UsageWord, Byte
  <1> QED
    BY <1>1, <1>4, <1>5, WordRoundTrip DEF Word

LEMMA NextTypeInv ==
    ASSUME CountInv, KnownInv, TypeInv, [ConsoleNext]_consoleVars
    PROVE  TypeInv'
  <1> USE DEF ScalarTypes, BoundsInv, Asking
  <1>0. /\ LoadedInv' /\ ScalarTypes /\ ClockTypes /\ sample.value \in Byte
        /\ BoundsInv /\ channel_count \in Nat
    BY NextLoadedInv, CountIsNat DEF TypeInv
  <1>1. CASE open_device
    <2>1. (ScalarTypes /\ BoundsInv)'
      BY <1>0, <1>1 DEF open_device, libusb_open_device, winusb_open_device, clock, Phases
    <2> QED
      BY <1>0, <1>1, <2>1 DEF TypeInv, ClockTypes, open_device
  <1>2. CASE get_channel_count
    BY <1>0, <1>2 DEF TypeInv, ClockTypes, get_channel_count, clock
  <1>3. CASE NullHandle
    <2>1. phase' = "crashed" /\ channel_count' = 0
      BY <1>3 DEF NullHandle, vars, channel_count, CountInv
    <2>2. channel_count' <= MaxChannels
      BY <2>1, ConsoleAssumption, SMT
    <2> QED
      BY <1>0, <1>3, <2>1, <2>2 DEF TypeInv, ClockTypes, NullHandle, clock, Phases
  <1>4. CASE initialize_data_source_binding
    <2>1. (ScalarTypes /\ BoundsInv)'
      BY <1>0, <1>4
      DEF initialize_data_source_binding, vars, clock, Phases, channel_count
    <2> QED
      BY <1>0, <1>4, <2>1 DEF TypeInv, ClockTypes, initialize_data_source_binding
  <1>5. CASE SkipChannel
    <2>1. i' \in 0..MaxChannels
      BY <1>0, <1>5, ConsoleAssumption, SMT DEF SkipChannel
    <2>2. (ScalarTypes /\ BoundsInv)'
      BY <1>0, <1>5, <2>1 DEF SkipChannel, vars, clock, Phases, channel_count
    <2> QED
      BY <1>0, <1>5, <2>2 DEF TypeInv, ClockTypes, SkipChannel
  <1>6. CASE CallSource
    <2>1. i \in Nat
      BY <1>0, ConsoleAssumption, SMT
    <2>2. data_source_callbacks[i] \in Sources
      BY <1>6, <2>1, ChannelInTables DEF CallSource, KnownInv
    <2>3. sample'.value \in Byte /\ ClockTypes'
      BY <1>0, <1>6, <2>2, CallTypes DEF CallSource
    <2>4. (ScalarTypes /\ BoundsInv)'
      BY <1>0, <1>6
      DEF CallSource, vars, tables, clock, Phases, TablesThere, channel_count
    <2> QED
      BY <1>0, <2>3, <2>4 DEF TypeInv
  <1>7. CASE NullTables
    <2>1. (ScalarTypes /\ BoundsInv)'
      BY <1>0, <1>7 DEF NullTables, vars, clock, Phases, channel_count
    <2> QED
      BY <1>0, <1>7, <2>1 DEF TypeInv, ClockTypes, NullTables
  <1>8. CASE send_usage_or_fail
    <2>1. PICK elapsed \in {0, 1} : Passing(elapsed) /\ late' = (late \/ elapsed > 0)
      BY <1>8 DEF send_usage_or_fail
    <2>2. ClockTypes'
      BY <1>0, <2>1, PassingTypes
    <2>3. word' \in Nat /\ UsageChannel(word') \in Channel
      BY <1>0, <1>8, WordOfChannel DEF send_usage_or_fail
    <2>4. i' \in 0..MaxChannels
      BY <1>0, <1>8, ConsoleAssumption, SMT DEF send_usage_or_fail
    <2>5. late' \in BOOLEAN
      BY <2>1
    <2>6. (ScalarTypes /\ BoundsInv)'
      BY <1>0, <1>8, <2>3, <2>4, <2>5
      DEF send_usage_or_fail, vars, Phases, channel_count
    <2> QED
      BY <1>0, <1>8, <2>2, <2>6 DEF TypeInv, send_usage_or_fail
  <1>9. CASE EndOfTick
    <2>1. (ScalarTypes /\ BoundsInv)'
      BY <1>0, <1>9 DEF EndOfTick, vars, clock, Phases, channel_count
    <2> QED
      BY <1>0, <1>9, <2>1 DEF TypeInv, ClockTypes, EndOfTick
  <1>10. CASE AfterFailure
    <2>1. (ScalarTypes /\ BoundsInv)'
      BY <1>0, <1>10 DEF AfterFailure, vars, clock, Phases, channel_count
    <2> QED
      BY <1>0, <1>10, <2>1 DEF TypeInv, ClockTypes, AfterFailure
  <1>11. CASE NextTick
    <2>1. PICK elapsed \in {0, 1, 2} : Passing(elapsed) /\ rushed' = (late /\ elapsed = 0)
      BY <1>11 DEF NextTick, Pauses
    <2>2. ClockTypes'
      BY <1>0, <2>1, PassingTypes
    <2>3. i' \in 0..MaxChannels
      BY <1>11, ConsoleAssumption, SMT DEF NextTick
    <2>4. rushed' \in BOOLEAN
      BY <2>1
    <2>5. (ScalarTypes /\ BoundsInv)'
      BY <1>0, <1>11, <2>3, <2>4 DEF NextTick, vars, Phases, channel_count
    <2> QED
      BY <1>0, <1>11, <2>2, <2>5 DEF TypeInv, NextTick
  <1>12. CASE UNCHANGED consoleVars
    BY <1>0, <1>12
    DEF TypeInv, ClockTypes, consoleVars, vars, tables, clock, TablesThere, channel_count
  <1> QED
    BY <1>1, <1>2, <1>3, <1>4, <1>5, <1>6, <1>7, <1>8, <1>9, <1>10, <1>11, <1>12
    DEF ConsoleNext

(* Type correctness of the console program, for every sensor and reply.    *)
THEOREM ConsoleTypes == ConsoleSpec => []ConsoleTypeOK
  <1> DEFINE Inv == CountInv /\ KnownInv /\ TypeInv
  <1>1. ConsoleInit => Inv
    BY InitCountInv, InitTypeInv DEF ConsoleInit, KnownInv
  <1>2. Inv /\ [ConsoleNext]_consoleVars => Inv'
    BY NextCountInv, NextKnownInv, NextTypeInv
  <1>3. Inv => ConsoleTypeOK
    <2> SUFFICES ASSUME Inv PROVE ConsoleTypeOK
      OBVIOUS
    <2>1. CASE Asking
      BY <2>1
      DEF CountInv, TypeInv, LoadedInv, Loaded, Asking, ScalarTypes, ClockTypes, ConsoleTypeOK
    <2>2. CASE ~Asking
      BY <2>2
      DEF CountInv, TypeInv, LoadedInv, Loaded, Asking, ScalarTypes, ClockTypes, ConsoleTypeOK
    <2> QED
      BY <2>1, <2>2
  <1> HIDE DEF Inv
  <1> QED
    BY <1>1, <1>2, <1>3, PTL DEF ConsoleSpec

---------------------------------------------------------------------------
(* How the query and the ticks end                                         *)

QueryStepsLeft ==
    CASE pc = "transfer" -> 4
      [] pc = "test" -> 3
      [] pc = "loop" -> 2
      [] pc = "report" -> 1
      [] OTHER -> 0

LEMMA QueryProgress ==
    ASSUME CountInv, QueryStep
    PROVE  \/ QueryStepsLeft' < QueryStepsLeft
           \/ CountChannel /\ ChannelCounts(reply) = {}
  <1>1. CASE transfer_control \/ StripFlag \/ EnterLoop \/ LeaveLoop \/ Report
    BY <1>1, SMT DEF transfer_control, StripFlag, EnterLoop, LeaveLoop, Report, QueryStepsLeft
  <1>2. CASE CountChannel
    <2>1. status = "STATUS_SUCCESS" /\ ret_val = reply
      BY <1>2, SMT DEF CountChannel, CountInv
    <2>2. ChannelCounts(reply) = {}
      BY <1>2, <2>1, SMT DEF CountChannel, CountInv, ChannelCounts
    <2> QED
      BY <1>2, <2>2
  <1> QED
    BY <1>1, <1>2 DEF QueryStep

(* The query is over after at most four steps, for every reply but the     *)
(* bitmaps whose lowest bit is set, and for these it is never over, unless *)
(* the transfer failed.                                                    *)
THEOREM OnlyOddBitmapsHang ==
    ConsoleSpec =>
        /\ [][QueryStep => \/ QueryStepsLeft' < QueryStepsLeft
                           \/ CountChannel /\ ChannelCounts(reply) = {}]_consoleVars
        /\ [](ChannelCounts(reply) = {} /\ status = "STATUS_SUCCESS" => pc # "done")
  <1>1. ConsoleInit => CountInv
    BY InitCountInv DEF ConsoleInit
  <1>2. CountInv /\ [ConsoleNext]_consoleVars => CountInv'
    BY NextCountInv
  <1>3. CountInv /\ [ConsoleNext]_consoleVars =>
            [QueryStep => \/ QueryStepsLeft' < QueryStepsLeft
                          \/ CountChannel /\ ChannelCounts(reply) = {}]_consoleVars
    BY QueryProgress
  <1>4. CountInv => (ChannelCounts(reply) = {} /\ status = "STATUS_SUCCESS" => pc # "done")
    BY DEF CountInv, ReturnsChannelCount
  <1> HIDE DEF CountInv
  <1> QED
    BY <1>1, <1>2, <1>3, <1>4, PTL DEF ConsoleSpec

Serving == phase \in {"collect", "transfer", "failed"}

(* The steps a tick has ahead of it, at the most: two for each channel     *)
(* left, and the return to the loop.                                       *)
TickStepsLeft ==
    CASE phase = "collect" -> 2 * (channel_count - i) + 1
      [] phase = "transfer" -> 2 * (channel_count - i)
      [] phase = "failed" -> 1
      [] OTHER -> 0

(* EndOfTick is for i = channel_count: a loop that had gone beyond would    *)
(* not end.                                                                *)
LoopInv ==
    /\ phase \in {"open", "query"} => i = 0
    /\ phase = "collect" => i <= channel_count

LEMMA NextLoopInv ==
    ASSUME CountInv, TypeInv, LoopInv, [ConsoleNext]_consoleVars
    PROVE  LoopInv'
  <1>0. channel_count \in Nat /\ i \in Nat /\ (phase = "transfer" => i < channel_count)
    <2>1. i \in 0..MaxChannels
      BY DEF TypeInv, ScalarTypes
    <2> QED
      BY <2>1, CountIsNat, ConsoleAssumption, SMT DEF TypeInv, BoundsInv
  <1>1. CASE open_device \/ get_channel_count
    BY <1>1 DEF open_device, get_channel_count, LoopInv
  <1>2. CASE initialize_data_source_binding
    <2>1. phase' = "collect" /\ i' = 0 /\ channel_count' = channel_count
      BY <1>2 DEF initialize_data_source_binding, vars, channel_count, LoopInv
    <2> HIDE DEF channel_count
    <2> QED
      BY <1>0, <2>1, SMT DEF LoopInv
  <1>3. CASE SkipChannel \/ send_usage_or_fail
    <2>1. /\ channel_count' = channel_count /\ i < channel_count
          /\ phase' = "failed" \/ (phase' = "collect" /\ i' = i + 1)
      BY <1>0, <1>3 DEF SkipChannel, send_usage_or_fail, vars, channel_count
    <2> HIDE DEF channel_count
    <2> QED
      BY <1>0, <2>1, SMT DEF LoopInv
  <1>4. CASE NullHandle \/ CallSource \/ NullTables \/ EndOfTick \/ AfterFailure
    BY <1>4 DEF NullHandle, CallSource, NullTables, EndOfTick, AfterFailure, LoopInv
  <1>5. CASE NextTick
    <2>1. phase' = "collect" /\ i' = 0 /\ channel_count' = channel_count
      BY <1>5 DEF NextTick, vars, channel_count
    <2> HIDE DEF channel_count
    <2> QED
      BY <1>0, <2>1, SMT DEF LoopInv
  <1>6. CASE UNCHANGED consoleVars
    BY <1>6 DEF consoleVars, vars, channel_count, LoopInv
  <1> QED
    BY <1>1, <1>2, <1>3, <1>4, <1>5, <1>6 DEF ConsoleNext

LEMMA TickBounds ==
    ASSUME CountInv, TypeInv, LoopInv, Serving
    PROVE  /\ MaxChannels \in Nat /\ channel_count \in Nat /\ channel_count <= MaxChannels
           /\ i \in Nat
           /\ phase \in {"collect", "transfer"} => i <= channel_count
           /\ phase = "transfer" => i < channel_count
  <1>1. channel_count \in Nat
    BY CountIsNat
  <1>2. MaxChannels \in Nat
    BY ConsoleAssumption, SMT
  <1>3. i \in 0..MaxChannels /\ channel_count <= MaxChannels
    BY DEF TypeInv, ScalarTypes, BoundsInv, Serving, Asking
  <1>4. /\ phase \in {"collect", "transfer"} => i <= channel_count
        /\ phase = "transfer" => i < channel_count
    <2>1. phase = "transfer" => i < channel_count
      BY DEF TypeInv, BoundsInv
    <2>2. phase = "collect" => i <= channel_count
      BY DEF LoopInv
    <2> HIDE DEF channel_count
    <2> QED
      BY <1>1, <1>2, <1>3, <2>1, <2>2, SMT
  <1> QED
    BY <1>1, <1>2, <1>3, <1>4

LEMMA TickStepsLeftBounds ==
    ASSUME CountInv, TypeInv, LoopInv, Serving
    PROVE  TickStepsLeft \in 1..(2 * MaxChannels + 1)
  <1> HIDE DEF channel_count
  <1> QED
    BY TickBounds, SMT DEF Serving, TickStepsLeft

LEMMA TickProgress ==
    ASSUME CountInv, TypeInv, LoopInv, Serving, ConsoleNext
    PROVE  TickStepsLeft' < TickStepsLeft
  <1>0. /\ MaxChannels \in Nat /\ channel_count \in Nat /\ i \in Nat
        /\ phase \in {"collect", "transfer"} => i <= channel_count
        /\ phase = "transfer" => i < channel_count
    BY TickBounds
  <1>1. channel_count' = channel_count
    BY DEF ConsoleNext, Serving, open_device, get_channel_count, NullHandle,
       initialize_data_source_binding, SkipChannel, CallSource, NullTables,
       send_usage_or_fail, EndOfTick, AfterFailure, NextTick, vars, channel_count
  <1> HIDE DEF channel_count
  <1>2. CASE SkipChannel \/ CallSource \/ NullTables
    <2>1. /\ phase = "collect" /\ i < channel_count
          /\ \/ phase' = "collect" /\ i' = i + 1
             \/ phase' \in {"transfer", "crashed"} /\ i' = i
      BY <1>2 DEF SkipChannel, CallSource, NullTables
    <2> QED
      BY <1>0, <1>1, <2>1, SMT DEF TickStepsLeft
  <1>3. CASE send_usage_or_fail
    <2>1. /\ phase = "transfer"
          /\ \/ phase' = "collect" /\ i' = i + 1
             \/ phase' = "failed" /\ i' = i
      BY <1>3 DEF send_usage_or_fail
    <2> QED
      BY <1>0, <1>1, <2>1, SMT DEF TickStepsLeft
  <1>4. CASE EndOfTick \/ AfterFailure
    <2>1. /\ (phase = "collect" /\ i = channel_count) \/ phase = "failed"
          /\ phase' \in {"asleep", "returned"}
      BY <1>4 DEF EndOfTick, AfterFailure
    <2> QED
      BY <1>0, <2>1, SMT DEF TickStepsLeft
  <1> QED
    BY <1>2, <1>3, <1>4
    DEF ConsoleNext, Serving, open_device, get_channel_count, NullHandle,
        initialize_data_source_binding, NextTick

(* A tick goes through its channels and comes back to the loop, or out of  *)
(* it after a failed transfer, in at most two steps for each channel and   *)
(* one more, whatever the tables, the sensors and the transfers.           *)
THEOREM TicksMakeProgress ==
    ConsoleSpec =>
        /\ [](Serving => TickStepsLeft \in 1..(2 * MaxChannels + 1))
        /\ [][Serving => TickStepsLeft' < TickStepsLeft]_consoleVars
  <1> DEFINE Inv == CountInv /\ KnownInv /\ TypeInv /\ LoopInv
  <1>1. ConsoleInit => Inv
    BY InitCountInv, InitTypeInv DEF ConsoleInit, KnownInv, LoopInv
  <1>2. Inv /\ [ConsoleNext]_consoleVars => Inv'
    BY NextCountInv, NextKnownInv, NextTypeInv, NextLoopInv
  <1>3. Inv => (Serving => TickStepsLeft \in 1..(2 * MaxChannels + 1))
    BY TickStepsLeftBounds
  <1>4. Inv /\ [ConsoleNext]_consoleVars =>
            [Serving => TickStepsLeft' < TickStepsLeft]_consoleVars
    BY TickProgress
  <1> HIDE DEF Inv
  <1> QED
    BY <1>1, <1>2, <1>3, <1>4, PTL DEF ConsoleSpec

=============================================================================
