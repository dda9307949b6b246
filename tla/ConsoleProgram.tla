---------------------------- MODULE ConsoleProgram ----------------------------
(***************************************************************************)
(* The console program: main, get_channel_count (ChannelQuery), the        *)
(* sources (DataSources), main_loop_callback and the two loops that call   *)
(* it.  main looks at no status.                                           *)
(*                                                                         *)
(* The settings are whatever initialize_data_source_binding left in the    *)
(* tables; the console program never changes them.                         *)
(***************************************************************************)
EXTENDS ChannelQuery, DataSources, FiniteSets

CONSTANTS
    MaxChannels,        \* panels with more channels are not followed
    WindowsSources,     \* sources the settings name on Windows
    Calibrations        \* calibrations the settings hold

ASSUME ConsoleAssumption ==
    /\ MaxChannels \in 1..127
    /\ Calibrations \subseteq Byte
    /\ WindowsSources \subseteq
          {"data_source_calibration", "data_source_cpu_utility",
           "data_source_ram_utility", "data_source_nvidia_gpu_utility",
           "data_source_nvidia_gpu_temperature"}

VARIABLES
    build,                  \* the transport and the loop it is made with
    opened,                 \* there is a handle of the device
    phase,                  \* where main is
    data_source_callbacks,
    calibration_values,
    i,                      \* loop index of main_loop_callback
    word,                   \* the last SET_USAGE the panel took
    late,                   \* a transfer of this tick took long
    rushed                  \* this tick began at once, the last one being late

tables == <<data_source_callbacks, calibration_values>>
clock == <<late, rushed>>
consoleVars == <<vars, since, sample, build, opened, phase, tables, i, word, clock>>

Builds == [transport : {"libusb"}, loop : {"unix", "windows"}]
             \cup [transport : {"winusb"}, loop : {"windows"}]

Phases == {"open", "query", "collect", "transfer", "failed", "asleep",
           "returned", "crashed"}

Channel == 0..(MaxChannels - 1)

channel_count == ret_val
TablesThere == DOMAIN data_source_callbacks = 0..(channel_count - 1)
Tables(n) == 0..(n - 1)

(* configurationreader.c knows no source but calibration.                  *)
Bindable ==
    {"NULL", "data_source_calibration"}
        \cup IF build.loop = "windows" THEN WindowsSources ELSE {}

ConsoleInit ==
    /\ Init
    /\ since \in {Elapsed(MaxElapsed, idle) : idle \in 0..MaxElapsed}
    /\ sample = Unanswered
    /\ build \in Builds
    /\ opened = FALSE
    /\ phase = "open"
    /\ data_source_callbacks = [c \in {} |-> "NULL"]
    /\ calibration_values = [c \in {} |-> 0]
    /\ i = 0
    /\ word = 0
    /\ late = FALSE
    /\ rushed = FALSE

---------------------------------------------------------------------------
(* main, up to enter_loop                                                  *)

(* An interface that cannot be claimed is an error, but leaves the handle. *)
libusb_open_device == build.transport = "libusb" /\ opened' \in BOOLEAN

(* Success is reported even when neither handle could be had.              *)
winusb_open_device == build.transport = "winusb" /\ opened' \in BOOLEAN

open_device ==
    /\ phase = "open"
    /\ libusb_open_device \/ winusb_open_device
    /\ phase' = "query"
    /\ UNCHANGED <<vars, since, sample, build, tables, i, word, clock>>

(* Without a device every transfer fails ...                               *)
get_channel_count ==
    /\ phase = "query"
    /\ QueryStep
    /\ status' = "STATUS_SUCCESS" => opened
    /\ UNCHANGED <<since, sample, build, opened, phase, tables, i, word, clock>>

(* ... or, libusb being given a null handle, the program crashes.          *)
NullHandle ==
    /\ phase = "query" /\ pc = "transfer"
    /\ ~opened
    /\ build.transport = "libusb"
    /\ phase' = "crashed"
    /\ UNCHANGED <<vars, since, sample, build, opened, tables, i, word, clock>>

(* Mutant: the tables are one entry short.                                 *)
LoadedTo_OneShort(k) ==
    /\ data_source_callbacks' \in [Tables(channel_count - 1) -> Bindable]
    /\ calibration_values' \in [Tables(channel_count - 1) -> Calibrations]

(* The first k channels were loaded; channel k, if there is one, at most   *)
(* its source; the others nothing.                                         *)
LoadedTo(k) ==
    /\ data_source_callbacks' \in
          [Tables(channel_count) -> Bindable]
    /\ calibration_values' \in
          [Tables(channel_count) -> Calibrations \cup {0}]
    /\ \A c \in Tables(channel_count) :
          /\ c < k => calibration_values'[c] \in Calibrations
          /\ c >= k => calibration_values'[c] = 0
          /\ c > k => data_source_callbacks'[c] = "NULL"

initialize_data_source_binding ==
    /\ phase = "query" /\ pc = "done"
    /\ channel_count <= MaxChannels
    /\ phase' = "collect"
    /\ \/ \E k \in 0..channel_count : LoadedTo(k)
       \/ UNCHANGED tables
    /\ UNCHANGED <<vars, since, sample, build, opened, i, word, clock>>

---------------------------------------------------------------------------
(* main_loop_callback                                                      *)

(* Only a program with a channel bound to the CPU can tell.                *)
Passing(elapsed) ==
    IF \E c \in DOMAIN data_source_callbacks :
          data_source_callbacks[c] = "data_source_cpu_utility"
    THEN TimePasses(elapsed)
    ELSE UNCHANGED since

SkipChannel ==
    /\ phase = "collect"
    /\ i < channel_count /\ TablesThere
    /\ data_source_callbacks[i] = "NULL"
    /\ i' = i + 1
    /\ UNCHANGED <<vars, since, sample, build, opened, phase, tables, word, clock>>

CallSource ==
    /\ phase = "collect"
    /\ i < channel_count /\ TablesThere
    /\ data_source_callbacks[i] # "NULL"
    /\ Call(data_source_callbacks[i])
    /\ phase' = "transfer"
    /\ UNCHANGED <<vars, build, opened, tables, i, word, clock>>

(* The tables could not be allocated.                                      *)
NullTables ==
    /\ phase = "collect"
    /\ i < channel_count /\ ~TablesThere
    /\ phase' = "crashed"
    /\ UNCHANGED <<vars, since, sample, build, opened, tables, i, word, clock>>

Word == UsageWord(i, Scaled(sample.value, calibration_values[i]))

(* A transfer takes no time to speak of, or long; a failed one may have    *)
(* reached the panel.                                                      *)
send_usage_or_fail ==
    /\ phase = "transfer"
    /\ \/ phase' = "collect" /\ i' = i + 1 /\ word' = Word
       \/ phase' = "failed" /\ UNCHANGED i /\ word' \in {word, Word}
    /\ \E elapsed \in {0, 1} :
          /\ Passing(elapsed)
          /\ late' = (late \/ elapsed > 0)
    /\ UNCHANGED <<vars, sample, build, opened, tables, rushed>>

---------------------------------------------------------------------------
(* enter_loop                                                              *)

EndOfTick ==
    /\ phase = "collect"
    /\ i = channel_count
    /\ phase' = "asleep"
    /\ UNCHANGED <<vars, since, sample, build, opened, tables, i, word, clock>>

(* Mutant: every loop is left at the first failure.                        *)
AfterFailure_Leaves ==
    /\ phase = "failed"
    /\ phase' = "returned"
    /\ UNCHANGED <<vars, since, sample, build, opened, tables, i, word, clock>>

(* The Unix loop is left, and the program with it, needles as they are;    *)
(* the message loop of Windows does not hear of it.                        *)
AfterFailure ==
    /\ phase = "failed"
    /\ phase' = IF build.loop = "unix" THEN "returned" ELSE "asleep"
    /\ UNCHANGED <<vars, since, sample, build, opened, tables, i, word, clock>>

(* Mutant: the next tick follows at once.                                  *)
Pauses_None == {0}

(* sleep(1), or the timer: a tick that took long finds it expired.         *)
Pauses == IF build.loop = "windows" /\ late THEN {0, 1} ELSE {1, 2}

NextTick ==
    /\ phase = "asleep"
    /\ \E elapsed \in Pauses :
          /\ Passing(elapsed)
          /\ rushed' = (late /\ elapsed = 0)
    /\ phase' = "collect"
    /\ i' = 0
    /\ late' = FALSE
    /\ UNCHANGED <<vars, sample, build, opened, tables, word>>

---------------------------------------------------------------------------

ConsoleNext ==
    \/ open_device \/ get_channel_count \/ NullHandle
    \/ initialize_data_source_binding
    \/ SkipChannel \/ CallSource \/ NullTables \/ send_usage_or_fail
    \/ EndOfTick \/ AfterFailure \/ NextTick

(* One thread; nothing it does can be held up for longer than a transfer's *)
(* timeout and the period of the loop.                                     *)
ConsoleSpec ==
    ConsoleInit /\ [][ConsoleNext]_consoleVars /\ WF_consoleVars(ConsoleNext)

---------------------------------------------------------------------------
(* Properties                                                              *)

(* Type invariant.                                                         *)
ConsoleTypeOK ==
    /\ pc \in {"transfer", "test", "loop", "report", "done"}
    /\ ret_val \in Byte /\ count \in Byte
    /\ build \in Builds
    /\ opened \in BOOLEAN
    /\ phase \in Phases
    /\ \E n \in {0, IF phase \in {"open", "query"} THEN 0 ELSE channel_count} :
          /\ data_source_callbacks \in [Tables(n) -> Bindable]
          /\ calibration_values \in [Tables(n) -> Byte]
    /\ i \in 0..MaxChannels
    /\ word \in Nat /\ UsageChannel(word) \in Channel
    /\ sample.value \in Byte
    /\ since.total \in 0..MaxElapsed /\ since.idle \in 0..since.total
    /\ late \in BOOLEAN /\ rushed \in BOOLEAN

(* What the panel is sent is the load: whenever a transfer is delivered,   *)
(* the needle of the channel whose source was read stands between the load *)
(* and four steps below it, on a scale whose end is the calibration, for   *)
(* sensors at the ends of their ranges and beyond them, that do not        *)
(* answer, and for settings that were loaded only in part.  The exceptions *)
(* are temperatures below zero and a CPU sample that spans no time.        *)
NeedleShowsLoad ==
    [][(phase = "transfer" /\ phase' = "collect" /\ sample.load >= 0 /\ sample.of > 0) =>
          LET load == IF sample.load > sample.of THEN sample.of ELSE sample.load
              needle == UsageValue(word') * sample.of
              full == load * calibration_values[i]
          IN  /\ UsageChannel(word') = i
              /\ needle <= full
              /\ needle >= full - 4 * sample.of]_consoleVars

(* A CPU sample spans some time, and so is defined, unless another channel *)
(* took one before in the same tick, or the tick followed at once upon one *)
(* that was late: the channels share one last sample.                      *)
CpuSampleSpansTime ==
    [][(phase = "collect" /\ phase' = "transfer" /\ sample'.of = 0) =>
          \/ \E c \in 0..(i - 1) : data_source_callbacks[c] = data_source_callbacks[i]
          \/ rushed]_consoleVars

(* The program serves a channel that has a source again and again, as long *)
(* as transfers to earlier channels do not keep failing: a failure ends    *)
(* the tick, and with it what the later channels would have got.  Only the *)
(* Unix loop may have ended at a failure; nothing else stops the program,  *)
(* given a reply the query has a count for, memory for the tables and, in  *)
(* a program made with libusb, a device.                                   *)
Counted == \E n \in ChannelCounts(reply) : n <= MaxChannels

Provided ==
    /\ phase = "query" => opened \/ build.transport = "winusb"
    /\ phase = "collect" /\ channel_count > 0 => DOMAIN data_source_callbacks # {}

Serves(c) ==
    \/ []<>(phase = "transfer" /\ i = c)
    \/ []<>(c \notin DOMAIN data_source_callbacks)
    \/ []<>(c \in DOMAIN data_source_callbacks /\ data_source_callbacks[c] = "NULL")

ConsoleServes ==
    (Counted /\ []Provided) =>
        \/ build.loop = "unix" /\ <>(phase = "returned")
        \/ /\ <>(phase = "asleep")
           /\ \A c \in Channel : <>[](phase = "failed" => i >= c) => Serves(c)

=============================================================================
