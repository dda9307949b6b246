----------------------------- MODULE UmdfDriver -----------------------------
(***************************************************************************)
(* The Windows user-mode driver.  The framework calls PrepareHardware on a *)
(* thread of its own each time the device is started; every call asks the  *)
(* panel for its channels, frees and allocates the collector's two tables, *)
(* loads them and creates a periodic timer.  A timer fires on yet another  *)
(* thread and runs main_loop_callback there, and nothing stops the timer   *)
(* of an earlier call while a later one rebuilds the tables.  There are no *)
(* locks.                                                                  *)
(*                                                                         *)
(* Undefined behaviour is a choice: a table that is freed or too short     *)
(* reads as anything, or the host process dies of the access.  (Not here:  *)
(* the removal of the device, and the registry's part in loading, which is *)
(* RegistryConfig's.)                                                      *)
(***************************************************************************)
EXTENDS PanelBase

CONSTANTS
    MaxChannels,
    Replies,        \* what the panel may answer to QUERY_CAP
    MaxPrepares,    \* bound: how often the framework starts the device
    Stored,         \* calibrations the registry may hold
    Garbage,        \* bytes an invalid read may yield
    Null, Dangling  \* a table not allocated; a table that was freed

Channel == 0..(MaxChannels - 1)
Timers == 1..MaxPrepares

ASSUME ChannelsAssumption == MaxChannels \in 1..127
ASSUME PreparesAssumption == MaxPrepares \in Nat \ {0}
ASSUME SentinelAssumption ==
    /\ Null # Dangling
    /\ \A n \in 0..MaxChannels :
          {Null, Dangling} \cap ([0..(n - 1) -> BOOLEAN] \cup [0..(n - 1) -> Byte]) = {}
ASSUME BytesAssumption == Stored \subseteq Byte /\ Garbage \subseteq Byte
ASSUME RepliesAssumption ==
    /\ Replies \subseteq Byte
    /\ \A r \in Replies : ReportsRawValue(r) => RawValue(r) <= MaxChannels

VARIABLES
    stage,                  \* where the framework's thread is
    prepares,               \* calls of PrepareHardware so far
    channel_count,
    data_source_callbacks,  \* per channel: has a source; or Null or Dangling
    calibration_values,
    next,                   \* loop index of initialize_data_source_binding
    bound, stored,          \* the registry: channels with a source, calibrations
    timers,                 \* timers created, by the call that created them
    tick,                   \* per timer: where its main_loop_callback is
    needle,
    wild,                   \* observer: what invalid reads there were
    quiet                   \* observer: timers whose tick began after the last
                            \* call of PrepareHardware had returned

registryVars == <<bound, stored>>
tables == <<data_source_callbacks, calibration_values>>
pnpVars == <<stage, prepares, channel_count, tables, next, registryVars, timers>>
vars == <<pnpVars, tick, needle, wild, quiet>>

Asleep == [pc |-> "asleep", i |-> 0]

Init ==
    /\ stage = "idle"
    /\ prepares = 0
    /\ channel_count = 0
    /\ data_source_callbacks = Null
    /\ calibration_values = Null
    /\ next = 0
    /\ bound \in SUBSET Channel
    /\ stored \in [Channel -> Stored]
    /\ timers = {}
    /\ tick = [t \in Timers |-> Asleep]
    /\ needle = [c \in Channel |-> 0]
    /\ wild = {}
    /\ quiet = {}

---------------------------------------------------------------------------
(* The framework's thread                                                  *)

(* The device is selected; a call for which that fails does nothing.       *)
PrepareHardware ==
    /\ stage = "idle"
    /\ prepares < MaxPrepares
    /\ prepares' = prepares + 1
    /\ stage' = "query"
    /\ quiet' = {}
    /\ UNCHANGED <<channel_count, tables, next, registryVars, timers, tick, needle, wild>>

(* A failed transfer counts as a panel without channels.                   *)
QueryChannels ==
    /\ stage = "query"
    /\ channel_count' \in {0} \cup UNION {ChannelCounts(reply) : reply \in Replies}
    /\ stage' = "free callbacks"
    /\ UNCHANGED <<prepares, tables, next, registryVars, timers, tick, needle, wild,
                   quiet>>

QueryNeverReturns ==
    /\ stage = "query"
    /\ \E reply \in Replies : ChannelCounts(reply) = {}
    /\ stage' = "hung"
    /\ UNCHANGED <<prepares, channel_count, tables, next, registryVars, timers, tick,
                   needle, wild, quiet>>

AfterFree(table) == IF table = Null THEN Null ELSE Dangling

FreeCallbacks ==
    /\ stage = "free callbacks"
    /\ stage' = "free calibrations"
    /\ data_source_callbacks' = AfterFree(data_source_callbacks)
    /\ UNCHANGED <<prepares, channel_count, calibration_values, next, registryVars,
                   timers, tick, needle, wild, quiet>>

FreeCalibrations ==
    /\ stage = "free calibrations"
    /\ stage' = "allocate callbacks"
    /\ calibration_values' = AfterFree(calibration_values)
    /\ UNCHANGED <<prepares, channel_count, data_source_callbacks, next, registryVars,
                   timers, tick, needle, wild, quiet>>

AllocateCallbacks ==
    /\ stage = "allocate callbacks"
    /\ stage' = "allocate calibrations"
    /\ data_source_callbacks' \in {Null, [c \in 0..(channel_count - 1) |-> FALSE]}
    /\ UNCHANGED <<prepares, channel_count, calibration_values, next, registryVars,
                   timers, tick, needle, wild, quiet>>

(* Mutant: the table is not cleared.                                       *)
AllocateCalibrations_Uncleared ==
    /\ stage = "allocate calibrations"
    /\ \E v \in Garbage : calibration_values' = [c \in 0..(channel_count - 1) |-> v]
    /\ next' = 0
    /\ stage' = IF Null \in {data_source_callbacks, calibration_values'} \/ channel_count = 0
                THEN "timer" ELSE "binding"
    /\ UNCHANGED <<prepares, channel_count, data_source_callbacks, registryVars,
                   timers, tick, needle, wild, quiet>>

(* Without memory initialize_data_source_binding returns an error, which   *)
(* PrepareHardware only traces.                                            *)
AllocateCalibrations ==
    /\ stage = "allocate calibrations"
    /\ calibration_values' \in {Null, [c \in 0..(channel_count - 1) |-> 0]}
    /\ next' = 0
    /\ stage' = IF Null \in {data_source_callbacks, calibration_values'} \/ channel_count = 0
                THEN "timer" ELSE "binding"
    /\ UNCHANGED <<prepares, channel_count, data_source_callbacks, registryVars,
                   timers, tick, needle, wild, quiet>>

LoadBinding ==
    /\ stage = "binding"
    /\ stage' = "calibration"
    /\ data_source_callbacks' = [data_source_callbacks EXCEPT ![next] = next \in bound]
    /\ UNCHANGED <<prepares, channel_count, calibration_values, next, registryVars,
                   timers, tick, needle, wild, quiet>>

LoadCalibration ==
    /\ stage = "calibration"
    /\ calibration_values' = [calibration_values EXCEPT ![next] = stored[next]]
    /\ next' = next + 1
    /\ stage' = IF next + 1 < channel_count THEN "binding" ELSE "timer"
    /\ UNCHANGED <<prepares, channel_count, data_source_callbacks, registryVars,
                   timers, tick, needle, wild, quiet>>

(* get_bound_data_source fails, before or after it has set the callback;   *)
(* that, too, is only traced.                                              *)
LoadFails ==
    /\ stage \in {"binding", "calibration"}
    /\ stage' = "timer"
    /\ UNCHANGED <<prepares, channel_count, tables, next, registryVars, timers, tick,
                   needle, wild, quiet>>

enter_loop ==
    /\ stage = "timer"
    /\ stage' = "idle"
    /\ timers' \in {timers, timers \cup {prepares}}
    /\ UNCHANGED <<prepares, channel_count, tables, next, registryVars, tick, needle,
                   wild, quiet>>

---------------------------------------------------------------------------
(* The timers' threads                                                     *)

Running == stage # "crashed"

Fire(t) ==
    /\ Running
    /\ t \in timers
    /\ tick[t].pc = "asleep"
    /\ tick' = [tick EXCEPT ![t] = [pc |-> "test", i |-> 0]]
    /\ quiet' = IF stage = "idle" THEN quiet \cup {t} ELSE quiet
    /\ UNCHANGED <<pnpVars, needle, wild>>

Valid(table, i) == table \notin {Null, Dangling} /\ i \in DOMAIN table

(* Reading the entry i of a table that has none: certain death for NULL,   *)
(* whatever the memory holds otherwise.  Outside PrepareHardware only a    *)
(* failed allocation leaves a NULL.  A quiet tick that reads anything else *)
(* amiss does so undisturbed by PrepareHardware.                           *)
Invalid(t, table, i) ==
    wild' = wild \cup {CASE table = Null /\ stage = "idle" -> "no memory"
                         [] table # Null /\ t \in quiet -> "undisturbed"
                         [] table = Null /\ stage # "idle" -> "not yet there"
                         [] table = Dangling /\ t \notin quiet -> "freed"
                         [] OTHER -> "out of bounds"}

Crash ==
    /\ stage' = "crashed"
    /\ UNCHANGED <<prepares, channel_count, tables, next, registryVars, timers, tick,
                   needle, quiet>>

Continue(t, pc, i) ==
    /\ tick' = [tick EXCEPT ![t] = [pc |-> pc, i |-> i]]
    /\ UNCHANGED <<pnpVars, needle, quiet>>

EndOfLoop(t) ==
    /\ Running
    /\ tick[t].pc = "test"
    /\ tick[t].i >= channel_count
    /\ tick' = [tick EXCEPT ![t] = Asleep]
    /\ UNCHANGED <<pnpVars, needle, wild, quiet>>

(* Mutant: the loop takes one turn too many.                               *)
TestCount_OneTooFar(t) ==
    /\ Running
    /\ tick[t].pc = "test"
    /\ tick[t].i <= channel_count
    /\ Continue(t, "entry", tick[t].i)
    /\ UNCHANGED wild

(* channel_count is read before every turn, apart from the tables.         *)
TestCount(t) ==
    /\ Running
    /\ tick[t].pc = "test"
    /\ tick[t].i < channel_count
    /\ Continue(t, "entry", tick[t].i)
    /\ UNCHANGED wild

TestCallback(t) ==
    LET i == tick[t].i
    IN  /\ Running
        /\ tick[t].pc = "entry"
        /\ \/ /\ Valid(data_source_callbacks, i)
              /\ UNCHANGED wild
              /\ IF data_source_callbacks[i]
                 THEN Continue(t, "call", i)
                 ELSE Continue(t, "test", i + 1)
           \/ /\ ~Valid(data_source_callbacks, i)
              /\ Invalid(t, data_source_callbacks, i)
              /\ \/ Crash
                 \/ /\ data_source_callbacks # Null
                    /\ Continue(t, "call", i) \/ Continue(t, "test", i + 1)

(* The pointer is read a second time to be called.                         *)
CallSource(t) ==
    LET i == tick[t].i
    IN  /\ Running
        /\ tick[t].pc = "call"
        /\ \/ /\ Valid(data_source_callbacks, i)
              /\ data_source_callbacks[i]
              /\ UNCHANGED wild
              /\ Continue(t, "send", i)
           \/ /\ Valid(data_source_callbacks, i)
              /\ ~data_source_callbacks[i]
              /\ wild' = wild \cup {IF t \in quiet THEN "undisturbed" ELSE "null call"}
              /\ Crash
           \/ /\ ~Valid(data_source_callbacks, i)
              /\ Invalid(t, data_source_callbacks, i)
              /\ \/ Crash
                 \/ data_source_callbacks # Null /\ Continue(t, "send", i)

(* Mutant: after a failed transfer the loop starts over.                   *)
SendUsage_StartsOver(t) ==
    LET i == tick[t].i
    IN  /\ Running
        /\ tick[t].pc = "send"
        /\ Valid(calibration_values, i)
        /\ \/ /\ needle' = send_usage(needle, i,
                              Scaled(data_source_calibration, calibration_values[i]), TRUE)
              /\ tick' = [tick EXCEPT ![t] = [pc |-> "test", i |-> i + 1]]
           \/ /\ needle' = needle
              /\ tick' = [tick EXCEPT ![t] = [pc |-> "test", i |-> 0]]
        /\ UNCHANGED <<pnpVars, wild, quiet>>

(* The calibration is read, the product sent; after a failed transfer      *)
(* main_loop_callback returns.                                             *)
SendUsage(t) ==
    LET i == tick[t].i
    IN  /\ Running
        /\ tick[t].pc = "send"
        /\ IF Valid(calibration_values, i) THEN UNCHANGED wild
           ELSE Invalid(t, calibration_values, i)
        /\ \/ ~Valid(calibration_values, i) /\ Crash
           \/ \E calibration \in IF Valid(calibration_values, i)
                                 THEN {calibration_values[i]}
                                 ELSE IF calibration_values = Null THEN {} ELSE Garbage,
                 delivered \in BOOLEAN, failed \in BOOLEAN :
                 /\ delivered \/ failed
                 /\ needle' = send_usage(needle, i,
                                 Scaled(data_source_calibration, calibration), delivered)
                 /\ tick' = [tick EXCEPT
                                ![t] = IF failed THEN Asleep
                                       ELSE [pc |-> "test", i |-> i + 1]]
                 /\ UNCHANGED <<pnpVars, quiet>>

---------------------------------------------------------------------------

Prepare ==
    \/ QueryChannels \/ QueryNeverReturns
    \/ FreeCallbacks \/ FreeCalibrations \/ AllocateCallbacks \/ AllocateCalibrations
    \/ LoadBinding \/ LoadCalibration \/ LoadFails
    \/ enter_loop

MainLoop(t) ==
    \/ EndOfLoop(t) \/ TestCount(t) \/ TestCallback(t)
    \/ CallSource(t) \/ SendUsage(t)

Next ==
    \/ PrepareHardware
    \/ Prepare
    \/ \E t \in Timers : Fire(t) \/ MainLoop(t)

(* Each thread, once in a call, goes on until it returns.                  *)
Spec ==
    /\ Init /\ [][Next]_vars
    /\ WF_vars(Prepare)
    /\ \A t \in Timers : WF_vars(MainLoop(t))

---------------------------------------------------------------------------
(* Properties                                                              *)

(* Type invariant.                                                         *)
TypeOK ==
    /\ stage \in {"idle", "query", "free callbacks", "free calibrations",
                  "allocate callbacks", "allocate calibrations", "binding",
                  "calibration", "timer", "hung", "crashed"}
    /\ prepares \in 0..MaxPrepares
    /\ channel_count \in 0..MaxChannels
    /\ data_source_callbacks \in {Null, Dangling} \cup
          UNION {[0..(n - 1) -> BOOLEAN] : n \in 0..MaxChannels}
    /\ calibration_values \in {Null, Dangling} \cup
          UNION {[0..(n - 1) -> Byte] : n \in 0..MaxChannels}
    /\ next \in 0..MaxChannels
    /\ timers \subseteq 1..prepares
    /\ \A t \in Timers : tick[t].i \in 0..MaxChannels
    /\ quiet \subseteq timers

(* Between two calls of PrepareHardware the driver is safe, whatever the   *)
(* earlier calls failed to do: a tick that begins after the last call has  *)
(* returned and acts before the next one never reads a table entry that is *)
(* not there and never calls a callback that is not set, unless there was  *)
(* no memory for the table (the timer is created all the same).  In a      *)
(* device that is started once no other tick does, either.                 *)
SafeBetweenStarts ==
    /\ "undisturbed" \notin wild
    /\ prepares <= 1 => wild \subseteq {"no memory"}

(* As long as no tick read outside a table, no needle is above what the    *)
(* registry allows its channel, and those without a source do not move:    *)
(* also while a second start has the tables half built, and after a start  *)
(* that failed halfway.                                                    *)
CalibrationHolds ==
    wild = {} =>
        \A c \in Channel :
           /\ needle[c] <= Scaled(data_source_calibration, stored[c])
           /\ c \notin bound => needle[c] = 0

(* A tick ends, whatever becomes of its transfers and of the tables.       *)
TicksEnd ==
    \A t \in Timers :
        tick[t].pc # "asleep" ~> (tick[t].pc = "asleep" \/ stage = "crashed")

(* "Calibration value defaults to 0x80 (128) to prevent voltmeter damage": *)
(* a channel with the default never sees more than half scale.  It may,    *)
(* when a second PrepareHardware has freed the calibration table, or has   *)
(* raised channel_count and not yet made the tables longer.                *)
DefaultPreventsDamage ==
    \A c \in Channel : stored[c] = DefaultCalibration => needle[c] <= 128

=============================================================================
