--------------------------- MODULE UmdfDriverProofs ---------------------------
(***************************************************************************)
(* Theorems about UmdfDriver, for any number of channels, starts of the    *)
(* device, stored values and garbage, and any interleaving of the          *)
(* framework's thread with the timers' threads.                            *)
(*                                                                         *)
(* What an invalid read may yield is the one thing the driver cannot       *)
(* bound, so the invariant speaks of the needles only while there was      *)
(* none, and of a first start apart from later ones.  A second invariant   *)
(* bounds the needles when there were, by the garbage read.  Last, how     *)
(* ticks and calls of PrepareHardware end.                                 *)
(***************************************************************************)
EXTENDS UmdfDriver, PanelBaseProofs

CallbackTable(n) == [0..(n - 1) -> BOOLEAN]
CalibrationTable(n) == [0..(n - 1) -> Byte]

Live == 0..(channel_count - 1)

Ticks == [pc : {"asleep", "test", "entry", "call", "send"}, i : 0..MaxChannels]

DriverTypes ==
    /\ TypeOK
    /\ stage # "idle" => prepares > 0
    /\ bound \subseteq Channel
    /\ stored \in [Channel -> Byte]
    /\ tick \in [Timers -> Ticks]
    /\ needle \in [Channel -> Byte]

(* How far the tables are, by where the framework's thread is.             *)
BuiltInv ==
    /\ stage \in {"allocate calibrations", "timer", "idle"} =>
          data_source_callbacks \in {Null} \cup CallbackTable(channel_count)
    /\ stage \in {"timer", "idle"} =>
          calibration_values \in {Null} \cup CalibrationTable(channel_count)
    /\ stage \in {"binding", "calibration"} =>
          /\ data_source_callbacks \in CallbackTable(channel_count)
          /\ calibration_values \in CalibrationTable(channel_count)
          /\ next < channel_count

(* A table holds what the registry holds, or what it was cleared to.       *)
ContentInv ==
    \A c \in Channel :
        /\ Valid(data_source_callbacks, c) /\ data_source_callbacks[c] => c \in bound
        /\ Valid(calibration_values, c) => calibration_values[c] \in {0, stored[c]}

Working(t) == tick[t].pc \in {"call", "send"}

(* channel_count was tested for this turn of the loop.                     *)
Tested(t) == tick[t].pc = "entry" \/ Working(t)

WorkingInv == \A t \in Timers : Tested(t) => tick[t].i \in Channel

(* As long as no read was invalid, a tick works on channels with a source. *)
BoundInv == wild = {} => \A t \in Timers : Working(t) => tick[t].i \in bound

(* A quiet tick has the tables and their length to itself.                 *)
QuietInv ==
    /\ "undisturbed" \notin wild
    /\ \A t \in quiet :
          /\ stage \in {"idle", "crashed"}
          /\ Tested(t) => tick[t].i < channel_count
          /\ tick[t].pc = "call" =>
                /\ Valid(data_source_callbacks, tick[t].i)
                /\ data_source_callbacks[tick[t].i]

(* The first start: no timer runs before the tables are built, and nothing *)
(* touches them from then on.                                              *)
FirstStartInv ==
    prepares <= 1 =>
        /\ wild \subseteq {"no memory"}
        /\ stage \notin {"idle", "crashed"} => timers = {}
        /\ \A t \in Timers : tick[t].pc # "asleep" => t \in quiet

DriverInv ==
    /\ DriverTypes /\ BuiltInv /\ ContentInv /\ WorkingInv /\ BoundInv
    /\ CalibrationHolds /\ QuietInv /\ FirstStartInv

---------------------------------------------------------------------------

(* A delivered transfer moves the needle it is meant for, and no other.    *)
LEMMA TransferMovesOne ==
    ASSUME NEW panel \in [Channel -> Byte], NEW c \in Channel, NEW v \in Byte,
           NEW delivered \in BOOLEAN
    PROVE  /\ send_usage(panel, c, v, delivered) \in [Channel -> Byte]
           /\ send_usage(panel, c, v, delivered)
                 = IF delivered THEN [panel EXCEPT ![c] = v] ELSE panel
<1>1. Channel \subseteq Nat
    BY ChannelsAssumption DEF Channel
<1> QED
    BY <1>1, SendUsageMovesOne

LEMMA CountsInRange ==
    ASSUME NEW n \in {0} \cup UNION {ChannelCounts(reply) : reply \in Replies}
    PROVE  n \in 0..MaxChannels
<1>1. ASSUME NEW reply \in Replies, n \in ChannelCounts(reply)
      PROVE  n \in 0..MaxChannels
    BY <1>1, RepliesAssumption, ChannelsAssumption
    DEF ChannelCounts, RawValue, ReportsRawValue, Byte
<1> QED
    BY <1>1, ChannelsAssumption

(* A table is neither of the sentinels.                                    *)
LEMMA TablesAreValid ==
    ASSUME NEW n \in 0..MaxChannels, NEW table \in CallbackTable(n) \cup CalibrationTable(n)
    PROVE  /\ table \notin {Null, Dangling}
           /\ \A i : Valid(table, i) <=> i \in 0..(n - 1)
BY SentinelAssumption DEF CallbackTable, CalibrationTable, Valid

LEMMA InitDriverInv == Init => DriverInv
<1> SUFFICES ASSUME Init PROVE DriverInv
    OBVIOUS
<1>1. TypeOK
    BY ChannelsAssumption, PreparesAssumption DEF Init, TypeOK, Timers, Asleep
<1>2. 0 \in Byte /\ 0 \in 0..MaxChannels
    BY ChannelsAssumption DEF Byte
<1>3. DriverTypes
    BY <1>1, <1>2, BytesAssumption DEF Init, DriverTypes, Ticks, Asleep
<1>4. BuiltInv /\ ContentInv /\ WorkingInv /\ BoundInv /\ QuietInv
    BY DEF Init, BuiltInv, ContentInv, WorkingInv, BoundInv, QuietInv, Tested, Working,
       Valid, Asleep, Timers
<1>5. CalibrationHolds
    <2> SUFFICES ASSUME NEW c \in Channel
                 PROVE  needle[c] = 0 /\ needle[c] <= Scaled(data_source_calibration, stored[c])
        BY DEF CalibrationHolds
    <2>1. Scaled(data_source_calibration, stored[c]) \in Byte
        BY <1>3, FullScaleWithin DEF DriverTypes
    <2> QED
        BY <2>1 DEF Init, Byte
<1>6. FirstStartInv
    BY DEF Init, FirstStartInv, Asleep, Timers
<1> QED
    BY <1>3, <1>4, <1>5, <1>6 DEF DriverInv

---------------------------------------------------------------------------
(* The framework's thread                                                  *)

(* Its steps leave needles and ticks alone.                                *)
LEMMA NeedlesStay ==
    ASSUME DriverInv, UNCHANGED <<registryVars, tick, needle, wild>>
    PROVE  (WorkingInv /\ BoundInv /\ CalibrationHolds)'
BY DEF DriverInv, registryVars, WorkingInv, BoundInv, Tested, Working, CalibrationHolds

(* The counters and the timers.                                            *)
LEMMA CounterFacts ==
    ASSUME DriverInv
    PROVE  /\ channel_count \in 0..MaxChannels /\ channel_count \in Nat
           /\ MaxChannels \in Nat
           /\ prepares \in 0..MaxPrepares /\ prepares \in Nat
           /\ timers \subseteq 1..prepares /\ timers \subseteq Timers
           /\ prepares = 0 => timers = {}
           /\ quiet \subseteq timers
           /\ stage # "idle" => prepares \in 1..MaxPrepares
<1>1. /\ channel_count \in 0..MaxChannels
      /\ prepares \in 0..MaxPrepares
      /\ timers \subseteq 1..prepares
      /\ quiet \subseteq timers
      /\ stage # "idle" => prepares > 0
    BY DEF DriverInv, DriverTypes, TypeOK
<1> QED
    BY <1>1, ChannelsAssumption, PreparesAssumption DEF Timers

(* No timer is there during a first start.                                 *)
LEMMA FirstStartAlone ==
    ASSUME DriverInv, stage \notin {"idle", "crashed"} \/ prepares = 0,
           UNCHANGED <<tick, wild>>, prepares' = prepares \/ prepares = 0,
           timers' = timers \/ stage' = "idle"
    PROVE  FirstStartInv'
<1> SUFFICES ASSUME prepares' <= 1 PROVE FirstStartInv'
    BY DEF FirstStartInv
<1>1. prepares \in Nat /\ prepares <= 1 /\ (prepares = 0 => timers = {})
    BY CounterFacts
<1>2. timers = {} /\ wild \subseteq {"no memory"}
    BY <1>1 DEF DriverInv, FirstStartInv
<1>3. \A t \in Timers : tick[t].pc = "asleep"
    BY <1>1, <1>2, CounterFacts DEF DriverInv, FirstStartInv
<1> QED
    BY <1>2, <1>3 DEF FirstStartInv

LEMMA PrepareHardwareStep ==
    ASSUME DriverInv, PrepareHardware
    PROVE  DriverInv'
<1>1. DriverTypes'
    <2>1. /\ prepares' \in 0..MaxPrepares /\ prepares' > 0
          /\ timers' \subseteq 1..prepares' /\ quiet' \subseteq timers'
        BY CounterFacts, PreparesAssumption DEF PrepareHardware
    <2> QED
        BY <2>1
        DEF PrepareHardware, tables, registryVars, DriverInv, DriverTypes, TypeOK
<1>2. (BuiltInv /\ ContentInv /\ QuietInv)'
    BY DEF PrepareHardware, tables, registryVars, DriverInv, BuiltInv, ContentInv, QuietInv
<1>3. FirstStartInv'
    <2> SUFFICES ASSUME prepares' <= 1 PROVE FirstStartInv'
        BY DEF FirstStartInv
    <2>1. prepares = 0 /\ prepares' = prepares + 1
        BY CounterFacts DEF PrepareHardware
    <2> QED
        BY <2>1, FirstStartAlone DEF PrepareHardware
<1> QED
    BY <1>1, <1>2, <1>3, NeedlesStay DEF PrepareHardware, DriverInv

LEMMA PrepareStep ==
    ASSUME DriverInv, Prepare
    PROVE  DriverInv'
<1>0. /\ UNCHANGED <<registryVars, tick, needle, wild, quiet, prepares>>
      /\ stage \notin {"idle", "crashed"}
      /\ timers' = timers \/ stage' = "idle"
    BY DEF Prepare, QueryChannels, QueryNeverReturns, FreeCallbacks, FreeCalibrations,
       AllocateCallbacks, AllocateCalibrations, LoadBinding, LoadCalibration, LoadFails,
       enter_loop
<1>1. (WorkingInv /\ BoundInv /\ CalibrationHolds /\ QuietInv /\ FirstStartInv)'
    <2>1. (WorkingInv /\ BoundInv /\ CalibrationHolds)'
        BY <1>0, NeedlesStay
    <2>2. QuietInv'
        BY <1>0 DEF DriverInv, QuietInv
    <2>3. FirstStartInv'
        BY <1>0, FirstStartAlone
    <2> QED
        BY <2>1, <2>2, <2>3
<1>2. /\ channel_count \in 0..MaxChannels /\ MaxChannels \in Nat
      /\ prepares \in 1..MaxPrepares
    BY <1>0, CounterFacts
<1>3. ASSUME TypeOK' PROVE DriverTypes'
    BY <1>0, <1>2, <1>3 DEF registryVars, DriverInv, DriverTypes
<1>4. CASE QueryChannels
    <2>1. channel_count' \in 0..MaxChannels
        BY <1>4, CountsInRange DEF QueryChannels
    <2>2. TypeOK'
        BY <1>4, <2>1 DEF QueryChannels, tables, DriverInv, DriverTypes, TypeOK
    <2>3. (BuiltInv /\ ContentInv)'
        BY <1>0, <1>4 DEF QueryChannels, tables, registryVars, DriverInv, BuiltInv, ContentInv
    <2> QED
        BY <1>1, <1>3, <2>2, <2>3 DEF DriverInv
<1>5. CASE QueryNeverReturns \/ LoadFails
    <2>1. TypeOK'
        BY <1>5 DEF QueryNeverReturns, LoadFails, tables, DriverInv, DriverTypes, TypeOK
    <2>2. (BuiltInv /\ ContentInv)'
        BY <1>0, <1>5
        DEF QueryNeverReturns, LoadFails, tables, registryVars, DriverInv, BuiltInv, ContentInv
    <2> QED
        BY <1>1, <1>3, <2>1, <2>2 DEF DriverInv
<1>6. CASE FreeCallbacks \/ FreeCalibrations
    <2>1. TypeOK'
        BY <1>6 DEF FreeCallbacks, FreeCalibrations, AfterFree, DriverInv, DriverTypes, TypeOK
    <2>2. BuiltInv'
        BY <1>6 DEF FreeCallbacks, FreeCalibrations, BuiltInv
    <2>3. ContentInv'
        BY <1>0, <1>6
        DEF FreeCallbacks, FreeCalibrations, AfterFree, registryVars, DriverInv, ContentInv,
            Valid
    <2> QED
        BY <1>1, <1>3, <2>1, <2>2, <2>3 DEF DriverInv
<1>7. CASE AllocateCallbacks
    <2>1. data_source_callbacks' \in {Null, [c \in 0..(channel_count - 1) |-> FALSE]}
        BY <1>7 DEF AllocateCallbacks
    <2>2. data_source_callbacks' \in {Null} \cup CallbackTable(channel_count)
        BY <2>1 DEF CallbackTable
    <2>3. TypeOK'
        BY <1>2, <1>7, <2>2
        DEF AllocateCallbacks, CallbackTable, DriverInv, DriverTypes, TypeOK
    <2>4. BuiltInv'
        BY <1>7, <2>2 DEF AllocateCallbacks, BuiltInv, CallbackTable
    <2>5. ContentInv'
        BY <1>0, <1>7, <2>1 DEF AllocateCallbacks, registryVars, DriverInv, ContentInv, Valid
    <2> QED
        BY <1>1, <1>3, <2>3, <2>4, <2>5 DEF DriverInv
<1>8. CASE AllocateCalibrations
    <2>1. calibration_values' \in {Null, [c \in 0..(channel_count - 1) |-> 0]}
        BY <1>8 DEF AllocateCalibrations
    <2>2. calibration_values' \in {Null} \cup CalibrationTable(channel_count)
        <3>1. 0 \in Byte
            BY DEF Byte
        <3> QED
            BY <2>1, <3>1 DEF CalibrationTable
    <2>3. /\ UNCHANGED <<channel_count, data_source_callbacks, timers>>
          /\ next' = 0 /\ next' \in 0..MaxChannels /\ stage' \in {"timer", "binding"}
          /\ stage' = "binding" => /\ data_source_callbacks # Null
                                   /\ calibration_values' # Null
                                   /\ channel_count # 0
        <3>1. 0 \in 0..MaxChannels
            BY <1>2
        <3>2. \/ stage' = "timer"
              \/ /\ stage' = "binding" /\ channel_count # 0
                 /\ Null \notin {data_source_callbacks, calibration_values'}
            BY <1>8 DEF AllocateCalibrations
        <3> QED
            BY <1>8, <3>1, <3>2 DEF AllocateCalibrations
    <2>4. TypeOK'
        <3>1. calibration_values' \in {Null, Dangling} \cup
                 UNION {[0..(n - 1) -> Byte] : n \in 0..MaxChannels}
            BY <1>2, <2>2 DEF CalibrationTable
        <3> QED
            BY <1>0, <2>3, <3>1 DEF DriverInv, DriverTypes, TypeOK
    <2>6. BuiltInv'
        <3>1. data_source_callbacks \in {Null} \cup CallbackTable(channel_count)
            BY <1>8 DEF AllocateCalibrations, DriverInv, BuiltInv
        <3>2. stage' = "binding" => 0 < channel_count
            BY <1>2, <2>3
        <3> QED
            BY <2>2, <2>3, <3>1, <3>2 DEF BuiltInv, CallbackTable, CalibrationTable
    <2>5. ContentInv'
        BY <1>0, <1>8, <2>1 DEF AllocateCalibrations, registryVars, DriverInv, ContentInv, Valid
    <2> QED
        BY <1>1, <1>3, <2>4, <2>5, <2>6 DEF DriverInv
<1>9. CASE LoadBinding \/ LoadCalibration
    <2>0. /\ data_source_callbacks \in CallbackTable(channel_count)
          /\ calibration_values \in CalibrationTable(channel_count)
          /\ next \in 0..(channel_count - 1) /\ next \in Channel
          /\ channel_count' = channel_count
          /\ stored \in [Channel -> Byte]
        <3>1. /\ data_source_callbacks \in CallbackTable(channel_count)
              /\ calibration_values \in CalibrationTable(channel_count)
              /\ next < channel_count
            BY <1>9 DEF LoadBinding, LoadCalibration, DriverInv, BuiltInv
        <3>2. next \in 0..MaxChannels /\ stored \in [Channel -> Byte]
            BY DEF DriverInv, DriverTypes, TypeOK
        <3> QED
            BY <1>2, <1>9, <3>1, <3>2 DEF LoadBinding, LoadCalibration, Channel
    <2>1. /\ data_source_callbacks' \in CallbackTable(channel_count)
          /\ calibration_values' \in CalibrationTable(channel_count)
        <3>1. CASE LoadBinding
            BY <2>0, <3>1 DEF LoadBinding, CallbackTable
        <3>2. CASE LoadCalibration
            BY <2>0, <3>2 DEF LoadCalibration, CalibrationTable
        <3> QED
            BY <1>9, <3>1, <3>2
    <2>2. next' \in 0..MaxChannels
        BY <1>2, <1>9, <2>0 DEF LoadBinding, LoadCalibration
    <2>3. stage' \in {"calibration", "binding", "timer"}
          /\ (stage' \in {"calibration", "binding"} => next' < channel_count)
        BY <1>2, <1>9, <2>0 DEF LoadBinding, LoadCalibration
    <2>4. TypeOK'
        BY <1>0, <1>2, <1>9, <2>0, <2>1, <2>2, <2>3
        DEF LoadBinding, LoadCalibration, CallbackTable, CalibrationTable, DriverInv,
            DriverTypes, TypeOK
    <2>5. BuiltInv'
        BY <2>0, <2>1, <2>3 DEF BuiltInv, CallbackTable, CalibrationTable
    <2>6. ContentInv'
        <3>1. /\ \A c \in Channel : Valid(data_source_callbacks, c) <=> c \in Live
              /\ \A c \in Channel : Valid(calibration_values, c) <=> c \in Live
              /\ \A c \in Channel : Valid(data_source_callbacks, c)' <=> c \in Live
              /\ \A c \in Channel : Valid(calibration_values, c)' <=> c \in Live
            BY <1>2, <2>0, <2>1, TablesAreValid DEF Live
        <3>2. UNCHANGED <<bound, stored>>
            BY <1>0 DEF registryVars
        <3>3. CASE LoadBinding
            <4>1. /\ calibration_values' = calibration_values
                  /\ data_source_callbacks'[next] = (next \in bound)
                  /\ \A c \in Live \ {next} :
                        data_source_callbacks'[c] = data_source_callbacks[c]
                BY <2>0, <3>3 DEF LoadBinding, CallbackTable, Live
            <4> QED
                BY <3>1, <3>2, <4>1 DEF DriverInv, ContentInv
        <3>4. CASE LoadCalibration
            <4>1. /\ data_source_callbacks' = data_source_callbacks
                  /\ calibration_values'[next] = stored[next]
                  /\ \A c \in Live \ {next} :
                        calibration_values'[c] = calibration_values[c]
                BY <2>0, <3>4 DEF LoadCalibration, CalibrationTable, Live
            <4> QED
                BY <3>1, <3>2, <4>1 DEF DriverInv, ContentInv
        <3> QED
            BY <1>9, <3>3, <3>4
    <2> QED
        BY <1>1, <1>3, <2>4, <2>5, <2>6 DEF DriverInv
<1>10. CASE enter_loop
    <2>1. timers' \subseteq 1..prepares
        BY <1>2, <1>10, CounterFacts DEF enter_loop
    <2>2. TypeOK'
        BY <1>0, <1>10, <2>1 DEF enter_loop, tables, DriverInv, DriverTypes, TypeOK
    <2>3. (BuiltInv /\ ContentInv)'
        BY <1>0, <1>10 DEF enter_loop, tables, registryVars, DriverInv, BuiltInv, ContentInv
    <2> QED
        BY <1>1, <1>3, <2>2, <2>3 DEF DriverInv
<1> QED
    BY <1>4, <1>5, <1>6, <1>7, <1>8, <1>9, <1>10 DEF Prepare

---------------------------------------------------------------------------
(* The timers' threads                                                     *)

(* A quiet tick finds the tables built, or no memory.                      *)
LEMMA QuietTick ==
    ASSUME DriverInv, Running, NEW t \in quiet
    PROVE  /\ t \in timers /\ stage = "idle"
           /\ \A i \in Live : /\ Valid(data_source_callbacks, i) \/ data_source_callbacks = Null
                              /\ Valid(calibration_values, i) \/ calibration_values = Null
<1>1. t \in timers /\ stage = "idle"
    BY CounterFacts DEF DriverInv, QuietInv, Running
<1>2. /\ data_source_callbacks \in {Null} \cup CallbackTable(channel_count)
      /\ calibration_values \in {Null} \cup CalibrationTable(channel_count)
    BY <1>1 DEF DriverInv, BuiltInv
<1>3. channel_count \in 0..MaxChannels
    BY CounterFacts
<1> QED
    BY <1>1, <1>2, <1>3, TablesAreValid DEF Live

(* In a first start every tick is quiet.                                   *)
LEMMA FirstTick ==
    ASSUME DriverInv, prepares <= 1, NEW t \in Timers, tick[t].pc # "asleep"
    PROVE  t \in quiet /\ wild \subseteq {"no memory"}
BY DEF DriverInv, FirstStartInv

(* What an invalid read adds to the list.                                  *)
LEMMA InvalidReads ==
    ASSUME NEW t, NEW table, NEW i, Invalid(t, table, i)
    PROVE  /\ wild \subseteq wild' /\ wild' # {}
           /\ (table = Null /\ stage = "idle") => wild' = wild \cup {"no memory"}
           /\ (t \notin quiet /\ "undisturbed" \notin wild) => "undisturbed" \notin wild'
<1> DEFINE read == CASE table = Null /\ stage = "idle" -> "no memory"
                     [] table # Null /\ t \in quiet -> "undisturbed"
                     [] table = Null /\ stage # "idle" -> "not yet there"
                     [] table = Dangling /\ t \notin quiet -> "freed"
                     [] OTHER -> "out of bounds"
<1>1. wild' = wild \cup {read}
    BY DEF Invalid
<1>2. (table = Null /\ stage = "idle") => read = "no memory"
    BY SentinelAssumption
<1>3. t \notin quiet => read # "undisturbed"
    BY SentinelAssumption
<1> HIDE DEF read
<1> QED
    BY <1>1, <1>2, <1>3

(* A tick that is under way belongs to a timer, and so to a start.         *)
LEMMA TickHasStart ==
    ASSUME DriverInv, NEW t \in Timers, tick[t].pc # "asleep"
    PROVE  prepares > 0
<1>1. prepares <= 1 => t \in timers
    BY CounterFacts DEF DriverInv, FirstStartInv
<1> QED
    BY <1>1, CounterFacts

(* A process that dies of an access keeps its needles.                     *)
LEMMA CrashStep ==
    ASSUME DriverInv, NEW t \in Timers, tick[t].pc # "asleep", Crash, wild' # {},
           "undisturbed" \notin wild',
           prepares <= 1 => wild' \subseteq {"no memory"}
    PROVE  DriverInv'
<1>1. prepares > 0
    BY TickHasStart
<1>2. DriverTypes'
    BY <1>1 DEF Crash, tables, registryVars, DriverInv, DriverTypes, TypeOK
<1>3. (BuiltInv /\ BoundInv /\ CalibrationHolds)'
    BY DEF Crash, BuiltInv, BoundInv, CalibrationHolds
<1>4. (ContentInv /\ WorkingInv)'
    BY DEF Crash, tables, registryVars, DriverInv, ContentInv, Valid, WorkingInv,
       Tested, Working
<1>5. (QuietInv /\ FirstStartInv)'
    BY DEF Crash, tables, DriverInv, QuietInv, FirstStartInv, Valid, Tested, Working
<1> QED
    BY <1>2, <1>3, <1>4, <1>5 DEF DriverInv

(* A tick moves on to entry.                                               *)
LEMMA TickMoves ==
    ASSUME DriverInv, NEW t \in Timers, NEW entry \in Ticks,
           tick' = [tick EXCEPT ![t] = entry], UNCHANGED pnpVars,
           needle' \in [Channel -> Byte], CalibrationHolds', wild \subseteq wild',
           "undisturbed" \notin wild',
           quiet' = quiet \/ quiet' = quiet \cup {t},
           t \in quiet' => /\ stage \in {"idle", "crashed"} /\ t \in timers
                           /\ entry.pc \in {"entry", "call", "send"} => entry.i < channel_count
                           /\ entry.pc = "call" => /\ Valid(data_source_callbacks, entry.i)
                                                   /\ data_source_callbacks[entry.i],
           entry.pc \in {"entry", "call", "send"} => entry.i \in Channel,
           wild' = {} /\ entry.pc \in {"call", "send"} => entry.i \in bound,
           prepares <= 1 => /\ wild' \subseteq {"no memory"}
                            /\ entry.pc # "asleep" => t \in quiet'
    PROVE  DriverInv'
<1>1. /\ tick' \in [Timers -> Ticks]
      /\ \A u \in Timers : tick'[u] = IF u = t THEN entry ELSE tick[u]
    BY DEF DriverInv, DriverTypes
<1>2. UNCHANGED <<stage, prepares, channel_count, data_source_callbacks,
                  calibration_values, next, bound, stored, timers>>
    BY DEF pnpVars, tables, registryVars
<1>3. DriverTypes'
    <2>1. \A u \in Timers : tick'[u].i \in 0..MaxChannels
        BY <1>1 DEF Ticks
    <2>2. quiet' \subseteq timers'
        BY <1>2, CounterFacts
    <2> QED
        BY <1>1, <1>2, <2>1, <2>2 DEF DriverInv, DriverTypes, TypeOK
<1>4. (BuiltInv /\ ContentInv)'
    BY <1>2 DEF DriverInv, BuiltInv, CallbackTable, CalibrationTable, ContentInv, Valid
<1>5. (WorkingInv /\ BoundInv)'
    BY <1>1, <1>2 DEF DriverInv, WorkingInv, BoundInv, Tested, Working
<1>6. (QuietInv /\ FirstStartInv)'
    <2>1. quiet' \subseteq Timers
        BY <1>2, CounterFacts
    <2>2. QuietInv'
        BY <1>1, <1>2, <2>1 DEF DriverInv, QuietInv, Tested, Working, Valid
    <2>3. FirstStartInv'
        BY <1>1, <1>2 DEF DriverInv, FirstStartInv
    <2> QED
        BY <2>2, <2>3
<1> QED
    BY <1>3, <1>4, <1>5, <1>6 DEF DriverInv

(* Needles that stay, stay within what the registry allows them.           *)
LEMMA NoTransfer ==
    ASSUME DriverInv, UNCHANGED <<pnpVars, needle>>, wild \subseteq wild'
    PROVE  needle' \in [Channel -> Byte] /\ CalibrationHolds'
BY DEF pnpVars, registryVars, DriverInv, DriverTypes, CalibrationHolds

LEMMA FireStep ==
    ASSUME DriverInv, NEW t \in Timers, Fire(t)
    PROVE  DriverInv'
<1> DEFINE entry == [pc |-> "test", i |-> 0]
<1>1. entry \in Ticks
    BY ChannelsAssumption DEF Ticks
<1>2. needle' \in [Channel -> Byte] /\ CalibrationHolds'
    BY NoTransfer DEF Fire
<1>3. /\ "undisturbed" \notin wild'
      /\ quiet' = quiet \/ quiet' = quiet \cup {t}
      /\ t \in quiet' => stage \in {"idle", "crashed"}
    BY DEF Fire, DriverInv, QuietInv
<1>4. prepares <= 1 => wild' \subseteq {"no memory"} /\ t \in quiet'
    BY DEF Fire, Running, DriverInv, FirstStartInv
<1> QED
    BY <1>1, <1>2, <1>3, <1>4, TickMoves DEF Fire

LEMMA EndOfLoopStep ==
    ASSUME DriverInv, NEW t \in Timers, EndOfLoop(t)
    PROVE  DriverInv'
<1>1. Asleep \in Ticks
    BY ChannelsAssumption DEF Ticks, Asleep
<1>2. needle' \in [Channel -> Byte] /\ CalibrationHolds'
    BY NoTransfer DEF EndOfLoop
<1>3. /\ "undisturbed" \notin wild'
      /\ t \in quiet' => stage \in {"idle", "crashed"} /\ t \in timers
    BY CounterFacts DEF EndOfLoop, DriverInv, QuietInv
<1>4. prepares <= 1 => wild' \subseteq {"no memory"}
    BY DEF EndOfLoop, DriverInv, FirstStartInv
<1> QED
    BY <1>1, <1>2, <1>3, <1>4, TickMoves DEF EndOfLoop, Asleep

LEMMA TestCountStep ==
    ASSUME DriverInv, NEW t \in Timers, TestCount(t)
    PROVE  DriverInv'
<1> DEFINE i == tick[t].i
           entry == [pc |-> "entry", i |-> i]
<1>0. tick[t].pc = "test" /\ i < channel_count /\ i \in 0..MaxChannels
    BY DEF TestCount, DriverInv, DriverTypes, TypeOK
<1>1. i \in Channel /\ entry \in Ticks
    BY <1>0, CounterFacts DEF Channel, Ticks
<1>2. needle' \in [Channel -> Byte] /\ CalibrationHolds'
    BY NoTransfer DEF TestCount, Continue
<1>3. /\ "undisturbed" \notin wild'
      /\ t \in quiet' => stage \in {"idle", "crashed"} /\ t \in timers
    BY CounterFacts DEF TestCount, Continue, DriverInv, QuietInv
<1>4. prepares <= 1 => wild' \subseteq {"no memory"} /\ t \in quiet'
    BY <1>0, FirstTick DEF TestCount, Continue
<1> QED
    BY <1>0, <1>1, <1>2, <1>3, <1>4, TickMoves DEF TestCount, Continue

LEMMA TestCallbackStep ==
    ASSUME DriverInv, NEW t \in Timers, TestCallback(t)
    PROVE  DriverInv'
<1> DEFINE i == tick[t].i
           Entry(pc, j) == [pc |-> pc, i |-> j]
<1>0. /\ Running /\ tick[t].pc = "entry"
    BY DEF TestCallback
<1>1. /\ i \in Channel /\ i \in 0..MaxChannels /\ i + 1 \in 0..MaxChannels
    <2>1. i \in Channel
        BY <1>0 DEF DriverInv, WorkingInv, Tested
    <2> QED
        BY <2>1, ChannelsAssumption DEF Channel
<1>2. Entry("call", i) \in Ticks /\ Entry("test", i + 1) \in Ticks
    BY <1>1 DEF Ticks
<1>3. t \in quiet => /\ t \in timers /\ stage = "idle" /\ i < channel_count
                     /\ Valid(data_source_callbacks, i) \/ data_source_callbacks = Null
    <2>1. t \in quiet => i < channel_count
        BY <1>0 DEF DriverInv, QuietInv, Tested
    <2>2. t \in quiet => i \in Live
        BY <1>1, <2>1, CounterFacts DEF Live
    <2> QED
        BY <1>0, <2>1, <2>2, QuietTick
<1>4. /\ "undisturbed" \notin wild
      /\ prepares <= 1 => wild \subseteq {"no memory"} /\ t \in quiet
    BY <1>0, FirstTick DEF DriverInv, QuietInv
<1>5. CASE Valid(data_source_callbacks, i) /\ UNCHANGED wild
    <2>1. CASE data_source_callbacks[i] /\ Continue(t, "call", i)
        <3>1. i \in bound
            BY <1>1, <1>5, <2>1 DEF DriverInv, ContentInv
        <3>2. needle' \in [Channel -> Byte] /\ CalibrationHolds'
            BY <1>5, <2>1, NoTransfer DEF Continue
        <3> QED
            BY <1>1, <1>2, <1>3, <1>4, <1>5, <2>1, <3>1, <3>2, TickMoves DEF Continue
    <2>2. CASE Continue(t, "test", i + 1)
        <3>1. needle' \in [Channel -> Byte] /\ CalibrationHolds'
            BY <1>5, <2>2, NoTransfer DEF Continue
        <3> QED
            BY <1>2, <1>3, <1>4, <1>5, <2>2, <3>1, TickMoves DEF Continue
    <2> QED
        BY <1>0, <1>5, <2>1, <2>2 DEF TestCallback
<1>6. CASE /\ ~Valid(data_source_callbacks, i) /\ Invalid(t, data_source_callbacks, i)
    <2>1. wild \subseteq wild' /\ wild' # {} /\ "undisturbed" \notin wild'
        <3>1. CASE t \in quiet
            <4>1. wild' = wild \cup {"no memory"} /\ wild' # {}
                BY <1>3, <1>6, <3>1, InvalidReads
            <4> QED
                BY <1>4, <4>1
        <3>2. CASE t \notin quiet
            BY <1>4, <1>6, <3>2, InvalidReads
        <3> QED
            BY <3>1, <3>2
    <2>2. t \in quiet => data_source_callbacks = Null /\ wild' = wild \cup {"no memory"}
        BY <1>3, <1>6, InvalidReads
    <2>3. CASE Crash
        BY <1>0, <1>4, <2>1, <2>2, <2>3, CrashStep
    <2>4. CASE /\ data_source_callbacks # Null
               /\ Continue(t, "call", i) \/ Continue(t, "test", i + 1)
        <3>1. needle' \in [Channel -> Byte] /\ CalibrationHolds'
            BY <2>1, <2>4, NoTransfer DEF Continue
        <3>2. t \notin quiet /\ ~(prepares <= 1) /\ quiet' = quiet
            BY <1>4, <2>2, <2>4 DEF Continue
        <3> QED
            BY <1>1, <1>2, <2>1, <2>4, <3>1, <3>2, TickMoves DEF Continue
    <2> QED
        BY <1>0, <1>6, <2>3, <2>4 DEF TestCallback
<1> QED
    BY <1>5, <1>6 DEF TestCallback

LEMMA CallSourceStep ==
    ASSUME DriverInv, NEW t \in Timers, CallSource(t)
    PROVE  DriverInv'
<1> DEFINE i == tick[t].i
           entry == [pc |-> "send", i |-> i]
<1>0. Running /\ tick[t].pc = "call"
    BY DEF CallSource
<1>1. i \in Channel /\ entry \in Ticks
    <2>1. i \in Channel
        BY <1>0 DEF DriverInv, WorkingInv, Tested, Working
    <2>2. i \in 0..MaxChannels
        BY DEF DriverInv, DriverTypes, TypeOK
    <2> QED
        BY <2>1, <2>2 DEF Ticks
<1>2. t \in quiet => /\ t \in timers /\ stage = "idle" /\ i < channel_count
                     /\ Valid(data_source_callbacks, i) /\ data_source_callbacks[i]
    BY <1>0, QuietTick DEF DriverInv, QuietInv, Tested, Working
<1>3. /\ "undisturbed" \notin wild
      /\ prepares <= 1 => wild \subseteq {"no memory"} /\ t \in quiet
    BY <1>0, FirstTick DEF DriverInv, QuietInv
<1>4. CASE Valid(data_source_callbacks, i) /\ UNCHANGED wild /\ Continue(t, "send", i)
    <2>1. wild' = {} => i \in bound
        BY <1>0, <1>4 DEF DriverInv, BoundInv, Working
    <2>2. needle' \in [Channel -> Byte] /\ CalibrationHolds'
        BY <1>4, NoTransfer DEF Continue
    <2> QED
        BY <1>1, <1>2, <1>3, <1>4, <2>1, <2>2, TickMoves DEF Continue
<1>5. CASE /\ wild' = wild \cup {IF t \in quiet THEN "undisturbed" ELSE "null call"}
           /\ ~data_source_callbacks[i] /\ Crash
    <2>1. t \notin quiet /\ ~(prepares <= 1)
        BY <1>2, <1>3, <1>5
    <2>2. "undisturbed" \notin wild' /\ wild' # {}
        BY <1>3, <1>5, <2>1
    <2> QED
        BY <1>0, <1>5, <2>1, <2>2, CrashStep
<1>6. CASE /\ ~Valid(data_source_callbacks, i) /\ Invalid(t, data_source_callbacks, i)
           /\ Crash \/ Continue(t, "send", i)
    <2>1. t \notin quiet /\ ~(prepares <= 1)
        BY <1>2, <1>3, <1>6
    <2>2. wild \subseteq wild' /\ wild' # {} /\ "undisturbed" \notin wild'
        BY <1>3, <1>6, <2>1, InvalidReads
    <2>3. CASE Crash
        BY <1>0, <2>1, <2>2, <2>3, CrashStep
    <2>4. CASE Continue(t, "send", i)
        <3>1. needle' \in [Channel -> Byte] /\ CalibrationHolds'
            BY <2>2, <2>4, NoTransfer DEF Continue
        <3> QED
            BY <1>1, <2>1, <2>2, <2>4, <3>1, TickMoves DEF Continue
    <2> QED
        BY <1>6, <2>3, <2>4
<1> QED
    BY <1>4, <1>5, <1>6 DEF CallSource

(* A transfer sends a byte, and if nothing was read amiss at most what the *)
(* registry allows the channel, which has a source.                        *)
LEMMA TransferHolds ==
    ASSUME DriverInv, UNCHANGED pnpVars, NEW c \in Channel, NEW calibration \in Byte,
           NEW delivered \in BOOLEAN, wild \subseteq wild',
           needle' = send_usage(needle, c, Scaled(data_source_calibration, calibration),
                                delivered),
           wild' = {} => c \in bound /\ calibration \in {0, stored[c]}
    PROVE  needle' \in [Channel -> Byte] /\ CalibrationHolds'
<1> DEFINE v == Scaled(data_source_calibration, calibration)
<1>1. v \in Byte
    BY FullScaleWithin
<1>2. /\ needle' \in [Channel -> Byte]
      /\ needle' = IF delivered THEN [needle EXCEPT ![c] = v] ELSE needle
    BY <1>1, TransferMovesOne DEF DriverInv, DriverTypes
<1>3. UNCHANGED <<bound, stored>>
    BY DEF pnpVars, registryVars
<1>4. wild' = {} => v <= Scaled(data_source_calibration, stored[c])
    <2>1. Scaled(data_source_calibration, stored[c]) \in 0..255
        BY FullScaleWithin DEF DriverInv, DriverTypes, Byte
    <2>2. wild' = {} => v = 0 \/ v = Scaled(data_source_calibration, stored[c])
        BY FullScaleScaled DEF Byte
    <2> HIDE DEF v
    <2> QED
        BY <2>1, <2>2
<1> HIDE DEF v
<1> QED
    BY <1>2, <1>3, <1>4 DEF DriverInv, DriverTypes, CalibrationHolds

LEMMA SendUsageStep ==
    ASSUME DriverInv, NEW t \in Timers, SendUsage(t)
    PROVE  DriverInv'
<1> DEFINE i == tick[t].i
           valid == Valid(calibration_values, i)
<1>0. Running /\ tick[t].pc = "send"
    BY DEF SendUsage
<1>1. i \in Channel /\ i \in 0..MaxChannels /\ i + 1 \in 0..MaxChannels
    <2>1. i \in Channel
        BY <1>0 DEF DriverInv, WorkingInv, Tested, Working
    <2> QED
        BY <2>1, ChannelsAssumption DEF Channel
<1>2. t \in quiet => /\ t \in timers /\ stage = "idle"
                     /\ valid \/ calibration_values = Null
    <2>1. t \in quiet => i < channel_count
        BY <1>0 DEF DriverInv, QuietInv, Tested, Working
    <2>2. t \in quiet => i \in Live
        BY <1>1, <2>1, CounterFacts DEF Live
    <2> QED
        BY <1>0, <2>2, QuietTick
<1>3. /\ wild \subseteq wild' /\ (valid \/ wild' # {}) /\ "undisturbed" \notin wild'
      /\ prepares <= 1 => wild' \subseteq {"no memory"} /\ t \in quiet
    <2>0. /\ "undisturbed" \notin wild
          /\ prepares <= 1 => wild \subseteq {"no memory"} /\ t \in quiet
        BY <1>0, FirstTick DEF DriverInv, QuietInv
    <2>1. CASE valid
        BY <2>0, <2>1 DEF SendUsage
    <2>2. CASE ~valid
        <3>1. Invalid(t, calibration_values, i)
            BY <2>2 DEF SendUsage
        <3>2. t \in quiet => wild' = wild \cup {"no memory"}
            BY <1>2, <2>2, <3>1, InvalidReads
        <3> QED
            BY <2>0, <3>1, <3>2, InvalidReads
    <2> QED
        BY <2>1, <2>2
<1>4. CASE Crash /\ ~valid
    BY <1>0, <1>3, <1>4, CrashStep
<1>5. ASSUME NEW calibration \in IF valid THEN {calibration_values[i]}
                                 ELSE IF calibration_values = Null THEN {} ELSE Garbage,
             NEW delivered \in BOOLEAN, NEW failed \in BOOLEAN,
             needle' = send_usage(needle, i,
                          Scaled(data_source_calibration, calibration), delivered),
             tick' = [tick EXCEPT ![t] = IF failed THEN Asleep
                                         ELSE [pc |-> "test", i |-> i + 1]],
             UNCHANGED <<pnpVars, quiet>>
      PROVE  DriverInv'
    <2>1. valid => calibration_values[i] \in {0, stored[i]}
        BY <1>1 DEF DriverInv, ContentInv
    <2>2. calibration \in Byte
        <3>1. stored[i] \in Byte /\ 0 \in Byte
            BY <1>1 DEF DriverInv, DriverTypes, Byte
        <3> QED
            BY <1>5, <2>1, <3>1, BytesAssumption
    <2>3. wild' = {} => i \in bound /\ calibration \in {0, stored[i]}
        BY <1>0, <1>3, <1>5, <2>1 DEF DriverInv, BoundInv, Working
    <2>4. PICK c \in Channel : c = i
        BY <1>1
    <2>5. needle' \in [Channel -> Byte] /\ CalibrationHolds'
        BY <1>3, <1>5, <2>2, <2>3, <2>4, TransferHolds
    <2>6. Asleep \in Ticks /\ [pc |-> "test", i |-> i + 1] \in Ticks
        BY <1>1, ChannelsAssumption DEF Ticks, Asleep
    <2>7. CASE failed
        BY <1>2, <1>3, <1>5, <2>5, <2>6, <2>7, TickMoves DEF Asleep
    <2>8. CASE ~failed
        BY <1>2, <1>3, <1>5, <2>5, <2>6, <2>8, TickMoves
    <2> QED
        BY <2>7, <2>8
<1> QED
    BY <1>4, <1>5 DEF SendUsage

LEMMA NextDriverInv ==
    ASSUME DriverInv, [Next]_vars
    PROVE  DriverInv'
<1>1. CASE UNCHANGED vars
    <2>0. UNCHANGED <<stage, prepares, channel_count, data_source_callbacks,
                      calibration_values, next, bound, stored, timers, tick, needle, wild, quiet>>
        BY <1>1 DEF vars, pnpVars, tables, registryVars
    <2>1. DriverTypes'
        BY <2>0 DEF DriverInv, DriverTypes, TypeOK
    <2>2. (BuiltInv /\ ContentInv)'
        BY <2>0
        DEF DriverInv, BuiltInv, CallbackTable, CalibrationTable, ContentInv, Valid
    <2>3. (WorkingInv /\ BoundInv /\ CalibrationHolds)'
        BY <2>0 DEF DriverInv, WorkingInv, BoundInv, Tested, Working, CalibrationHolds
    <2>4. (QuietInv /\ FirstStartInv)'
        BY <2>0 DEF DriverInv, QuietInv, FirstStartInv, Tested, Working, Valid
    <2> QED
        BY <2>1, <2>2, <2>3, <2>4 DEF DriverInv
<1>2. ASSUME NEW t \in Timers, Fire(t) \/ MainLoop(t)
      PROVE  DriverInv'
    BY <1>2, FireStep, EndOfLoopStep, TestCountStep, TestCallbackStep, CallSourceStep, SendUsageStep
    DEF MainLoop
<1> QED
    BY <1>1, <1>2, PrepareHardwareStep, PrepareStep DEF Next

---------------------------------------------------------------------------
(* Theorems                                                                *)

(* The inductive invariant of the driver.                                  *)
THEOREM DriverInvariance == Spec => []DriverInv
<1>1. Init => DriverInv
    BY InitDriverInv
<1>2. DriverInv /\ [Next]_vars => DriverInv'
    BY NextDriverInv
<1> QED
    BY <1>1, <1>2, PTL DEF Spec

(* Type correctness.                                                       *)
THEOREM DriverTypeCorrectness == Spec => []TypeOK
<1>1. DriverInv => TypeOK
    BY DEF DriverInv, DriverTypes
<1> QED
    BY <1>1, DriverInvariance, PTL

(* A tick between two calls of PrepareHardware reads only table entries    *)
(* that are there, whatever the earlier calls and ticks did; only a lack   *)
(* of memory makes an exception.  In a first start this goes for any tick. *)
THEOREM StartsAreSafe == Spec => []SafeBetweenStarts
<1>1. DriverInv => SafeBetweenStarts
    BY DEF DriverInv, QuietInv, FirstStartInv, SafeBetweenStarts
<1> QED
    BY <1>1, DriverInvariance, PTL

(* Needles stay within what the registry allows their channels, however    *)
(* many starts and ticks interleave, as long as no read was invalid.       *)
THEOREM NeedlesKeepCalibration == Spec => []CalibrationHolds
<1>1. DriverInv => CalibrationHolds
    BY DEF DriverInv
<1> QED
    BY <1>1, DriverInvariance, PTL

---------------------------------------------------------------------------
(* What an invalid read does to the needles                                *)

(* No tick read memory that was freed, or beyond the end of a table.  The  *)
(* other invalid reads are of NULL, and end the process.                   *)
Harmless == wild \cap {"freed", "out of bounds", "undisturbed"} = {}

NeedlesHold ==
    \A c \in Channel :
        /\ needle[c] <= Scaled(data_source_calibration, stored[c])
        /\ c \notin bound => needle[c] = 0

HarmlessInv ==
    Harmless => (wild = {} \/ stage = "crashed") /\ NeedlesHold

(* A process that crashed does nothing any more.                           *)
LEMMA CrashIsTheEnd == stage = "crashed" => ~Next
BY DEF Next, PrepareHardware, Prepare, QueryChannels, QueryNeverReturns, FreeCallbacks,
   FreeCalibrations, AllocateCallbacks, AllocateCalibrations, LoadBinding, LoadCalibration,
   LoadFails, enter_loop, Fire, MainLoop, EndOfLoop, TestCount, TestCallback, CallSource, SendUsage,
   Running

(* The first invalid read is harmless only if it ends the process before a *)
(* needle moves.                                                           *)
LEMMA FirstInvalidRead ==
    ASSUME Next, wild = {}, wild' # {}, Harmless'
    PROVE  stage' = "crashed" /\ UNCHANGED <<needle, bound, stored>>
<1>1. PICK t \in Timers : TestCallback(t) \/ CallSource(t) \/ SendUsage(t)
    BY DEF Next, PrepareHardware, Prepare, QueryChannels, QueryNeverReturns, FreeCallbacks,
       FreeCalibrations, AllocateCallbacks, AllocateCalibrations, LoadBinding,
       LoadCalibration, LoadFails, enter_loop, Fire, MainLoop, EndOfLoop, TestCount
<1>2. \A table, i : Invalid(t, table, i) => table = Null
    BY DEF Invalid, Harmless
<1>3. ASSUME Crash, UNCHANGED registryVars
      PROVE  stage' = "crashed" /\ UNCHANGED <<needle, bound, stored>>
    BY <1>3 DEF Crash, registryVars
<1>4. CASE TestCallback(t)
    BY <1>2, <1>4 DEF TestCallback, Crash, registryVars
<1>5. CASE CallSource(t)
    BY <1>2, <1>5 DEF CallSource, Crash, Continue, registryVars
<1>6. CASE SendUsage(t)
    BY <1>2, <1>6 DEF SendUsage, Crash, registryVars
<1> QED
    BY <1>1, <1>4, <1>5, <1>6

LEMMA InvalidReadsAreKept == [Next]_vars => wild \subseteq wild'
BY DEF Next, PrepareHardware, Prepare, QueryChannels, QueryNeverReturns, FreeCallbacks,
   FreeCalibrations, AllocateCallbacks, AllocateCalibrations, LoadBinding, LoadCalibration,
   LoadFails, enter_loop, Fire, MainLoop, EndOfLoop, TestCount, TestCallback, CallSource, SendUsage,
   Invalid, vars

LEMMA NextHarmlessInv ==
    ASSUME DriverInv, DriverInv', HarmlessInv, [Next]_vars
    PROVE  HarmlessInv'
<1> SUFFICES ASSUME Harmless'
             PROVE  (wild' = {} \/ stage' = "crashed") /\ NeedlesHold'
    BY DEF HarmlessInv
<1>1. CASE wild' = {}
    BY <1>1 DEF DriverInv, CalibrationHolds, NeedlesHold
<1>2. CASE wild # {}
    <2>1. Harmless
        BY InvalidReadsAreKept DEF Harmless
    <2>2. stage = "crashed"
        BY <1>2, <2>1 DEF HarmlessInv
    <2>3. UNCHANGED <<stage, needle, bound, stored>>
        BY <2>2, CrashIsTheEnd DEF vars, pnpVars, registryVars
    <2> QED
        BY <2>1, <2>2, <2>3 DEF HarmlessInv, NeedlesHold
<1>3. CASE wild = {} /\ wild' # {}
    <2>1. Next
        BY <1>3 DEF vars
    <2>2. stage' = "crashed" /\ UNCHANGED <<needle, bound, stored>>
        BY <1>3, <2>1, FirstInvalidRead
    <2> QED
        BY <1>3, <2>2 DEF DriverInv, CalibrationHolds, NeedlesHold
<1> QED
    BY <1>1, <1>2, <1>3

LEMMA HarmlessInvariance == Spec => [](DriverInv /\ HarmlessInv)
<1>1. Init => HarmlessInv
    BY InitDriverInv DEF Init, DriverInv, CalibrationHolds, HarmlessInv, NeedlesHold
<1>2. DriverInv /\ DriverInv' /\ HarmlessInv /\ [Next]_vars => HarmlessInv'
    BY NextHarmlessInv
<1> QED
    BY <1>1, <1>2, DriverInvariance, PTL DEF Spec

(* CalibrationHolds, with its premise as weak as it can be: whatever the   *)
(* timers and a second start do to each other, a needle is above what the  *)
(* registry allows only after a tick read freed memory or beyond a table.  *)
THEOREM OnlyGarbageOverdrives == Spec => [](Harmless => NeedlesHold)
<1>1. DriverInv /\ HarmlessInv => (Harmless => NeedlesHold)
    BY DEF HarmlessInv
<1> QED
    BY <1>1, HarmlessInvariance, PTL

(* "Defaults to 0x80 to prevent voltmeter damage" is true of a device that *)
(* is started once: the exception UmdfPreparedAgain shows takes a second   *)
(* start.                                                                  *)
THEOREM FirstStartPreventsDamage == Spec => [](prepares <= 1 => DefaultPreventsDamage)
<1>1. ASSUME DriverInv, HarmlessInv, prepares <= 1,
             NEW c \in Channel, stored[c] = DefaultCalibration
      PROVE  needle[c] <= 128
    <2>1. Harmless
        BY <1>1 DEF DriverInv, FirstStartInv, Harmless
    <2>2. needle[c] <= Scaled(data_source_calibration, DefaultCalibration)
        BY <1>1, <2>1 DEF HarmlessInv, NeedlesHold
    <2>3. Scaled(data_source_calibration, DefaultCalibration) = 127
        BY FullScaleScaled DEF DefaultCalibration, Byte
    <2>4. needle[c] \in Byte
        BY <1>1 DEF DriverInv, DriverTypes
    <2> QED
        BY <2>2, <2>3, <2>4, SMT DEF Byte
<1>2. DriverInv /\ HarmlessInv => (prepares <= 1 => DefaultPreventsDamage)
    BY <1>1 DEF DefaultPreventsDamage
<1> QED
    BY <1>2, HarmlessInvariance, PTL

---------------------------------------------------------------------------
(* How the threads' calls end                                              *)

(* The steps a tick has ahead of it, at the most: four for each channel,   *)
(* and the test that ends the loop.                                        *)
TickStepsLeft(t) ==
    4 * (MaxChannels - tick[t].i)
        + CASE tick[t].pc = "test" -> 4
            [] tick[t].pc = "entry" -> 3
            [] tick[t].pc = "call" -> 2
            [] tick[t].pc = "send" -> 1
            [] OTHER -> 0

LEMMA TickStepsLeftBounds ==
    ASSUME DriverInv, NEW t \in Timers, tick[t].pc # "asleep"
    PROVE  TickStepsLeft(t) \in 1..(4 * MaxChannels + 4)
<1>1. tick[t].pc \in {"test", "entry", "call", "send"} /\ tick[t].i \in 0..MaxChannels
    BY DEF DriverInv, DriverTypes, Ticks
<1>2. MaxChannels - tick[t].i \in 0..MaxChannels
    BY <1>1, ChannelsAssumption
<1>3. TickStepsLeft(t) - 4 * (MaxChannels - tick[t].i) \in 1..4
    BY <1>1, <1>2, SMT DEF TickStepsLeft
<1>4. TickStepsLeft(t) \in Nat
    BY <1>1, <1>2, ChannelsAssumption, SMT DEF TickStepsLeft
<1> QED
    BY <1>2, <1>3, <1>4, ChannelsAssumption, SMT

(* A tick's own step goes on to the next statement or the next channel.    *)
LEMMA TickProgress ==
    ASSUME DriverInv, NEW t \in Timers, MainLoop(t)
    PROVE  \/ stage' = "crashed"
           \/ tick'[t].pc = "asleep"
           \/ TickStepsLeft(t)' < TickStepsLeft(t)
<1> DEFINE i == tick[t].i
<1>0. i \in Nat /\ t \in DOMAIN tick /\ MaxChannels \in Nat
    BY ChannelsAssumption DEF DriverInv, DriverTypes, Ticks
<1>1. ASSUME NEW pc \in {"entry", "call", "test", "send"}, NEW j \in {i, i + 1},
             tick' = [tick EXCEPT ![t] = [pc |-> pc, i |-> j]],
             \/ tick[t].pc = "test" /\ pc = "entry" /\ j = i
             \/ tick[t].pc = "entry" /\ pc = "call" /\ j = i
             \/ tick[t].pc = "entry" /\ pc = "test" /\ j = i + 1
             \/ tick[t].pc = "call" /\ pc = "send" /\ j = i
             \/ tick[t].pc = "send" /\ pc = "test" /\ j = i + 1
      PROVE  TickStepsLeft(t)' < TickStepsLeft(t)
    <2>1. tick'[t].pc = pc /\ tick'[t].i = j
        BY <1>0, <1>1
    <2> QED
        BY <1>0, <1>1, <2>1, SMT DEF TickStepsLeft
<1>2. CASE EndOfLoop(t)
    BY <1>0, <1>2 DEF EndOfLoop, Asleep
<1>3. CASE TestCount(t) \/ TestCallback(t)
    BY <1>1, <1>3 DEF TestCount, TestCallback, Crash, Continue
<1>4. CASE CallSource(t)
    <2>1. tick[t].pc = "call" /\ (Crash \/ Continue(t, "send", i))
        BY <1>4, Zenon DEF CallSource
    <2> QED
        BY <1>1, <2>1 DEF Crash, Continue
<1>5. CASE SendUsage(t)
    <2>1. \/ Crash
          \/ tick' = [tick EXCEPT ![t] = Asleep]
          \/ tick' = [tick EXCEPT ![t] = [pc |-> "test", i |-> i + 1]]
        BY <1>5 DEF SendUsage
    <2>2. tick' = [tick EXCEPT ![t] = Asleep] => tick'[t].pc = "asleep"
        BY <1>0 DEF Asleep
    <2> QED
        BY <1>1, <1>5, <2>1, <2>2 DEF SendUsage, Crash
<1> QED
    BY <1>2, <1>3, <1>4, <1>5 DEF MainLoop

(* Any other step leaves a tick under way where it is.                     *)
LEMMA TickWaits ==
    ASSUME DriverInv, NEW t \in Timers, tick[t].pc # "asleep", [Next]_vars, ~MainLoop(t)
    PROVE  tick'[t] = tick[t]
<1>0. tick \in [Timers -> Ticks]
    BY DEF DriverInv, DriverTypes
<1>1. CASE PrepareHardware \/ Prepare \/ UNCHANGED vars
    BY <1>1, Zenon DEF PrepareHardware, Prepare, QueryChannels, QueryNeverReturns, FreeCallbacks,
       FreeCalibrations, AllocateCallbacks, AllocateCalibrations, LoadBinding,
       LoadCalibration, LoadFails, enter_loop, vars
<1>2. ASSUME NEW u \in Timers, Fire(u)
      PROVE  tick'[t] = tick[t]
    BY <1>0, <1>2 DEF Fire
<1>3. ASSUME NEW u \in Timers, MainLoop(u)
      PROVE  tick'[t] = tick[t]
    <2>1. u # t
        BY <1>3
    <2>2. tick' = tick \/ \E entry : tick' = [tick EXCEPT ![u] = entry]
        BY <1>3, Zenon
        DEF MainLoop, EndOfLoop, TestCount, TestCallback, CallSource, SendUsage,
            Crash, Continue
    <2> QED
        BY <1>0, <2>1, <2>2
<1> QED
    BY <1>1, <1>2, <1>3 DEF Next

(* A tick is over after at most four of its own steps for each channel a   *)
(* panel can have and one more, whatever the other threads do to the       *)
(* tables it reads and to the number of channels.                          *)
THEOREM TicksMakeProgress ==
    Spec => /\ [](\A t \in Timers :
                     tick[t].pc # "asleep" => TickStepsLeft(t) \in 1..(4 * MaxChannels + 4))
            /\ [][\A t \in Timers :
                     tick[t].pc # "asleep" =>
                        IF MainLoop(t)
                        THEN \/ stage' = "crashed"
                             \/ tick'[t].pc = "asleep"
                             \/ TickStepsLeft(t)' < TickStepsLeft(t)
                        ELSE tick'[t] = tick[t]]_vars
<1>1. DriverInv => \A t \in Timers :
          tick[t].pc # "asleep" => TickStepsLeft(t) \in 1..(4 * MaxChannels + 4)
    BY TickStepsLeftBounds
<1>2. DriverInv /\ [Next]_vars =>
          [\A t \in Timers :
              tick[t].pc # "asleep" =>
                 IF MainLoop(t)
                 THEN \/ stage' = "crashed"
                      \/ tick'[t].pc = "asleep"
                      \/ TickStepsLeft(t)' < TickStepsLeft(t)
                 ELSE tick'[t] = tick[t]]_vars
    BY TickProgress, TickWaits
<1> HIDE DEF DriverInv
<1> QED
    BY <1>1, <1>2, DriverInvariance, PTL DEF Spec

(* The steps PrepareHardware has ahead of it, at the most.                 *)
PrepareStepsLeft ==
    CASE stage = "query" -> 2 * MaxChannels + 6
      [] stage = "free callbacks" -> 2 * MaxChannels + 5
      [] stage = "free calibrations" -> 2 * MaxChannels + 4
      [] stage = "allocate callbacks" -> 2 * MaxChannels + 3
      [] stage = "allocate calibrations" -> 2 * MaxChannels + 2
      [] stage = "binding" -> 2 * (channel_count - next) + 1
      [] stage = "calibration" -> 2 * (channel_count - next)
      [] stage = "timer" -> 1
      [] OTHER -> 0

LEMMA PrepareProgress ==
    ASSUME DriverInv, Prepare
    PROVE  PrepareStepsLeft \in Nat /\ PrepareStepsLeft' < PrepareStepsLeft
<1>0. /\ MaxChannels \in Nat /\ channel_count \in Nat /\ channel_count <= MaxChannels
      /\ next \in Nat
      /\ stage \in {"binding", "calibration"} => next < channel_count
    <2>1. stage \in {"binding", "calibration"} => next < channel_count
        BY Zenon DEF DriverInv, BuiltInv
    <2>2. channel_count \in 0..MaxChannels /\ next \in 0..MaxChannels
        BY Zenon DEF DriverInv, DriverTypes, TypeOK
    <2> QED
        BY <2>1, <2>2, ChannelsAssumption, SMT
<1>1. CASE QueryChannels \/ QueryNeverReturns
    <2>1. /\ PrepareStepsLeft = 2 * MaxChannels + 6
          /\ PrepareStepsLeft' \in {2 * MaxChannels + 5, 0}
        BY <1>1, Zenon DEF QueryChannels, QueryNeverReturns, PrepareStepsLeft
    <2> QED
        BY <1>0, <2>1, SMT
<1>2. CASE FreeCallbacks
    <2>1. /\ PrepareStepsLeft = 2 * MaxChannels + 5
          /\ PrepareStepsLeft' = 2 * MaxChannels + 4
        BY <1>2, Zenon DEF FreeCallbacks, PrepareStepsLeft
    <2> QED
        BY <1>0, <2>1, SMT
<1>3. CASE FreeCalibrations
    <2>1. /\ PrepareStepsLeft = 2 * MaxChannels + 4
          /\ PrepareStepsLeft' = 2 * MaxChannels + 3
        BY <1>3, Zenon DEF FreeCalibrations, PrepareStepsLeft
    <2> QED
        BY <1>0, <2>1, SMT
<1>4. CASE AllocateCallbacks
    <2>1. /\ PrepareStepsLeft = 2 * MaxChannels + 3
          /\ PrepareStepsLeft' = 2 * MaxChannels + 2
        BY <1>4, Zenon DEF AllocateCallbacks, PrepareStepsLeft
    <2> QED
        BY <1>0, <2>1, SMT
<1>5. CASE AllocateCalibrations
    <2>1. /\ PrepareStepsLeft = 2 * MaxChannels + 2
          /\ PrepareStepsLeft' \in {2 * (channel_count - 0) + 1, 1}
        BY <1>5, Zenon DEF AllocateCalibrations, PrepareStepsLeft
    <2> QED
        BY <1>0, <2>1, SMT
<1>6. CASE LoadBinding
    <2>1. /\ PrepareStepsLeft = 2 * (channel_count - next) + 1
          /\ PrepareStepsLeft' = 2 * (channel_count - next)
          /\ stage = "binding"
        BY <1>6, Zenon DEF LoadBinding, PrepareStepsLeft
    <2> QED
        BY <1>0, <2>1, SMT
<1>7. CASE LoadCalibration
    <2>1. /\ PrepareStepsLeft = 2 * (channel_count - next)
          /\ PrepareStepsLeft' \in {2 * (channel_count - (next + 1)) + 1, 1}
          /\ stage = "calibration"
        BY <1>7, Zenon DEF LoadCalibration, PrepareStepsLeft
    <2> QED
        BY <1>0, <2>1, SMT
<1>8. CASE LoadFails
    <2>1. /\ PrepareStepsLeft \in {2 * (channel_count - next) + 1, 2 * (channel_count - next)}
          /\ PrepareStepsLeft' = 1
          /\ stage \in {"binding", "calibration"}
        BY <1>8, Zenon DEF LoadFails, PrepareStepsLeft
    <2> QED
        BY <1>0, <2>1, SMT
<1>9. CASE enter_loop
    <2>1. PrepareStepsLeft = 1 /\ PrepareStepsLeft' = 0
        BY <1>9, Zenon DEF enter_loop, PrepareStepsLeft
    <2> QED
        BY <2>1, SMT
<1> QED
    BY <1>1, <1>2, <1>3, <1>4, <1>5, <1>6, <1>7, <1>8, <1>9 DEF Prepare

(* A call of PrepareHardware is over after at most two of its own steps    *)
(* for each channel and six more, or hangs in its query, or the process    *)
(* crashes under it: no tick takes it a step back.                         *)
THEOREM PrepareMakesProgress ==
    Spec => [][stage # "idle" =>
                  \/ stage' = "crashed"
                  \/ IF Prepare THEN PrepareStepsLeft \in Nat
                                     /\ PrepareStepsLeft' < PrepareStepsLeft
                     ELSE PrepareStepsLeft' = PrepareStepsLeft]_vars
<1>1. ASSUME stage # "idle", Next, ~Prepare
      PROVE  stage' = "crashed" \/ PrepareStepsLeft' = PrepareStepsLeft
    <2>1. PICK t \in Timers : Fire(t) \/ MainLoop(t)
        BY <1>1 DEF Next, PrepareHardware
    <2>2. stage' = "crashed" \/ UNCHANGED pnpVars
        BY <2>1, Zenon DEF Fire, MainLoop, EndOfLoop, TestCount, TestCallback, CallSource, SendUsage,
           Crash, Continue
    <2>3. UNCHANGED pnpVars => UNCHANGED <<stage, channel_count, next>>
        BY DEF pnpVars
    <2>4. UNCHANGED <<stage, channel_count, next>> => PrepareStepsLeft' = PrepareStepsLeft
        BY DEF PrepareStepsLeft
    <2> QED
        BY <2>2, <2>3, <2>4
<1>2. DriverInv /\ [Next]_vars =>
          [stage # "idle" =>
              \/ stage' = "crashed"
              \/ IF Prepare THEN PrepareStepsLeft \in Nat
                                 /\ PrepareStepsLeft' < PrepareStepsLeft
                 ELSE PrepareStepsLeft' = PrepareStepsLeft]_vars
    BY <1>1, PrepareProgress
<1> HIDE DEF DriverInv
<1> QED
    BY <1>2, DriverInvariance, PTL DEF Spec

=============================================================================
