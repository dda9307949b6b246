---------------------------- MODULE RegistryConfig ----------------------------
(***************************************************************************)
(* The channel settings of the Windows builds: the collector's tables and  *)
(* the registry values registryreader.c loads them from and stores them    *)
(* to.                                                                     *)
(*                                                                         *)
(* A process uses one key: that of the machine if it may open it, else     *)
(* that of the user.  A value is written at once and whole or not at all;  *)
(* unlike config.json there is no document between the tables and the      *)
(* store, and the set operations change the tables before the store.       *)
(***************************************************************************)
EXTENDS PanelBase

CONSTANTS
    MaxChannels,
    Hives,          \* the keys a process may find: "HKLM", "HKCU"
    Names,          \* the source names in play, of data_source_names
    Overlong,       \* a stored name or calibration that does not fit its buffer
    StoredDwords,   \* calibrations someone wrote with the registry editor
    SliderValues,   \* calibrations the user can choose
    GpuFound,       \* nvidia_gpu_found, settled before any binding is loaded
    Missing,        \* no such value
    NoKey           \* registry_key == NULL

Channel == 0..(MaxChannels - 1)

ASSUME ChannelsAssumption == MaxChannels \in 1..127
ASSUME NamesAssumption ==
    /\ {"Unallocated", "Calibration"} \subseteq Names
    /\ Overlong \notin Names \cup Nat
ASSUME GpuAssumption == GpuFound \in BOOLEAN
ASSUME CalibrationsAssumption == StoredDwords \subseteq Nat /\ SliderValues \subseteq Byte
ASSUME SentinelAssumption ==
    Missing \notin Names \cup Nat \cup {Overlong} /\ NoKey \notin Hives

VARIABLES
    registry,               \* per hive, the Channel and Calibration values
    registry_key,           \* the hive this process uses
    channel_count,
    data_source_callbacks,
    calibration_values,
    stage,                  \* how far initialize_data_source_binding is
    next,                   \* its loop index
    acknowledged            \* observer: settings this process loaded, or wrote
                            \* since, and whose last write did not fail

vars == <<registry, registry_key, channel_count, data_source_callbacks,
          calibration_values, stage, next, acknowledged>>

Live == 0..(channel_count - 1)
Settings == Channel \X {"channel", "calibration"}
Callbacks == {"NULL", "data_source_calibration", "data_source_cpu_utility",
              "data_source_ram_utility", "data_source_nvidia_gpu_utility",
              "data_source_nvidia_gpu_temperature"}

name_string_to_callback(name) ==
    CASE name = "Calibration" -> "data_source_calibration"
      [] name = "CPU Utility" -> "data_source_cpu_utility"
      [] name = "RAM Utility" -> "data_source_ram_utility"
      [] name = "GPU Utility" /\ GpuFound -> "data_source_nvidia_gpu_utility"
      [] name = "GPU Temperature" /\ GpuFound -> "data_source_nvidia_gpu_temperature"
      [] OTHER -> "NULL"

callback_to_name_string(callback) ==
    CASE callback = "data_source_calibration" -> "Calibration"
      [] callback = "data_source_cpu_utility" -> "CPU Utility"
      [] callback = "data_source_ram_utility" -> "RAM Utility"
      [] callback = "data_source_nvidia_gpu_utility" -> "GPU Utility"
      [] callback = "data_source_nvidia_gpu_temperature" -> "GPU Temperature"
      [] callback = "NULL" -> "Unallocated"

get_source_binding_name(channel) ==
    callback_to_name_string(data_source_callbacks[channel])

Here == registry[registry_key]

Init ==
    /\ registry \in [Hives ->
          [channel : [Channel -> Names \cup {Overlong, Missing}],
           calibration : [Channel -> StoredDwords \cup {Overlong, Missing}]]]
    /\ registry_key = NoKey
    /\ channel_count = 0
    /\ data_source_callbacks = [c \in {} |-> "NULL"]
    /\ calibration_values = [c \in {} |-> 0]
    /\ stage = "off"
    /\ next = 0
    /\ acknowledged = {}

---------------------------------------------------------------------------
(* initialize_data_source_binding                                          *)

AllocateTables(n) ==
    /\ stage = "off"
    /\ channel_count' = n
    /\ data_source_callbacks' = [c \in 0..(n - 1) |-> "NULL"]
    /\ calibration_values' = [c \in 0..(n - 1) |-> 0]
    /\ stage' = IF n = 0 THEN "ready" ELSE "binding"
    /\ next' = 0
    /\ UNCHANGED <<registry, registry_key, acknowledged>>

AllocationFails(n) ==
    /\ stage = "off"
    /\ channel_count' = n
    /\ stage' = "failed"
    /\ UNCHANGED <<registry, registry_key, data_source_callbacks,
                   calibration_values, next, acknowledged>>

(* The first get_bound_data_source opens the key: the machine's, else the  *)
(* user's, else none.                                                      *)
OpenKey ==
    /\ stage = "binding"
    /\ registry_key = NoKey
    /\ \/ registry_key' \in Hives /\ UNCHANGED stage
       \/ stage' = "failed" /\ UNCHANGED registry_key
    /\ UNCHANGED <<registry, channel_count, data_source_callbacks,
                   calibration_values, next, acknowledged>>

Loaded(setting) == acknowledged' = acknowledged \cup {setting}

(* A query of a value that is there and fits the buffer succeeds; one that *)
(* fails leaves the buffer as it was.                                      *)
Readable(value) == value # Missing /\ value # Overlong

ReadBinding ==
    /\ stage = "binding"
    /\ registry_key # NoKey
    /\ Readable(Here.channel[next])
    /\ data_source_callbacks' =
          [data_source_callbacks EXCEPT
              ![next] = name_string_to_callback(Here.channel[next])]
    /\ stage' = "calibration"
    /\ Loaded(<<next, "channel">>)
    /\ UNCHANGED <<registry, registry_key, channel_count, calibration_values, next>>

(* A name that is not there or does not fit the buffer is replaced.        *)
ReplaceBinding(written) ==
    /\ stage = "binding"
    /\ registry_key # NoKey
    /\ ~Readable(Here.channel[next])
    /\ IF written
       THEN /\ registry' = [registry EXCEPT
                               ![registry_key].channel[next] = "Unallocated"]
            /\ data_source_callbacks' =
                  [data_source_callbacks EXCEPT
                      ![next] = name_string_to_callback("Unallocated")]
            /\ stage' = "calibration"
            /\ Loaded(<<next, "channel">>)
       ELSE /\ stage' = "failed"
            /\ UNCHANGED <<registry, data_source_callbacks, acknowledged>>
    /\ UNCHANGED <<registry_key, channel_count, calibration_values, next>>

(* Mutant: the loop index is not advanced.                                 *)
NextChannel_Stuck ==
    /\ next' = next
    /\ stage' = IF next + 1 < channel_count THEN "binding" ELSE "ready"

NextChannel ==
    /\ next' = next + 1
    /\ stage' = IF next + 1 < channel_count THEN "binding" ELSE "ready"

(* Mutant: the DWORD is not narrowed.                                      *)
ReadCalibration_Wide ==
    /\ stage = "calibration"
    /\ Readable(Here.calibration[next])
    /\ calibration_values' =
          [calibration_values EXCEPT ![next] = Here.calibration[next]]
    /\ NextChannel
    /\ Loaded(<<next, "calibration">>)
    /\ UNCHANGED <<registry, registry_key, channel_count, data_source_callbacks>>

(* Mutant: the narrowed value is stored again.                             *)
ReadCalibration_StoresNarrowed ==
    /\ stage = "calibration"
    /\ Readable(Here.calibration[next])
    /\ calibration_values' =
          [calibration_values EXCEPT ![next] = AsByte(Here.calibration[next])]
    /\ registry' = [registry EXCEPT ![registry_key].calibration[next] = AsByte(@)]
    /\ NextChannel
    /\ Loaded(<<next, "calibration">>)
    /\ UNCHANGED <<registry_key, channel_count, data_source_callbacks>>

ReadCalibration ==
    /\ stage = "calibration"
    /\ Readable(Here.calibration[next])
    /\ calibration_values' =
          [calibration_values EXCEPT ![next] = AsByte(Here.calibration[next])]
    /\ NextChannel
    /\ Loaded(<<next, "calibration">>)
    /\ UNCHANGED <<registry, registry_key, channel_count, data_source_callbacks>>

(* Mutant: full scale whatever the channel is bound to.                    *)
MissingCalibration_Full(name) == 255

(* "Defaults to 0x80 to prevent voltmeter damage"; full scale for a        *)
(* channel already bound to the calibration source.                        *)
MissingCalibration(name) == IF name = "Calibration" THEN 255 ELSE DefaultCalibration

(* The key's name for this channel is the one the step before read, or     *)
(* wrote: a channel with neither is not reached.                           *)
AddCalibration(written) ==
    LET default == MissingCalibration(Here.channel[next])
    IN  /\ stage = "calibration"
        /\ ~Readable(Here.calibration[next])
        /\ IF written
           THEN /\ registry' = [registry EXCEPT
                                   ![registry_key].calibration[next] = default]
                /\ calibration_values' = [calibration_values EXCEPT ![next] = default]
                /\ NextChannel
                /\ Loaded(<<next, "calibration">>)
           ELSE /\ stage' = "failed"
                /\ UNCHANGED <<registry, calibration_values, next, acknowledged>>
        /\ UNCHANGED <<registry_key, channel_count, data_source_callbacks>>

LoadStep ==
    \/ OpenKey
    \/ ReadBinding
    \/ \E written \in BOOLEAN : ReplaceBinding(written)
    \/ ReadCalibration
    \/ \E written \in BOOLEAN : AddCalibration(written)

---------------------------------------------------------------------------
(* The operations the dialogs call.  They work on whatever initialize left *)
(* behind: not every program looks at its status.  Without a key the write *)
(* fails.                                                                  *)

Usable == stage \in {"ready", "failed"}

Verdict(setting, saved) ==
    acknowledged' = IF saved THEN acknowledged \cup {setting} ELSE acknowledged \ {setting}

(* Mutant: a new source starts at the default calibration.                 *)
set_channel_source_binding_Recalibrates(c, name, written) ==
    LET saved == written /\ registry_key # NoKey
    IN  /\ Usable
        /\ data_source_callbacks' =
              [data_source_callbacks EXCEPT ![c] = name_string_to_callback(name)]
        /\ calibration_values' = [calibration_values EXCEPT ![c] = DefaultCalibration]
        /\ registry' = IF saved
                       THEN [registry EXCEPT
                               ![registry_key].channel[c] = name,
                               ![registry_key].calibration[c] = DefaultCalibration]
                       ELSE registry
        /\ Verdict(<<c, "channel">>, saved)
        /\ UNCHANGED <<registry_key, channel_count, stage, next>>

set_channel_source_binding(c, name, written) ==
    LET saved == written /\ registry_key # NoKey
    IN  /\ Usable
        /\ data_source_callbacks' =
              [data_source_callbacks EXCEPT ![c] = name_string_to_callback(name)]
        /\ registry' = IF saved
                       THEN [registry EXCEPT ![registry_key].channel[c] = name]
                       ELSE registry
        /\ Verdict(<<c, "channel">>, saved)
        /\ UNCHANGED <<registry_key, channel_count, calibration_values, stage, next>>

clear_binding(c) ==
    /\ Usable
    /\ data_source_callbacks' = [data_source_callbacks EXCEPT ![c] = "NULL"]
    /\ UNCHANGED <<registry, registry_key, channel_count, calibration_values, stage,
                   next, acknowledged>>

(* Mutant: the table keeps its old value.                                  *)
set_channel_calibration_StoreOnly(c, calibration, written) ==
    LET saved == written /\ registry_key # NoKey
    IN  /\ Usable
        /\ registry' = IF saved
                       THEN [registry EXCEPT ![registry_key].calibration[c] = calibration]
                       ELSE registry
        /\ Verdict(<<c, "calibration">>, saved)
        /\ UNCHANGED <<registry_key, channel_count, data_source_callbacks,
                       calibration_values, stage, next>>

set_channel_calibration(c, calibration, written) ==
    LET saved == written /\ registry_key # NoKey
    IN  /\ Usable
        /\ calibration_values' = [calibration_values EXCEPT ![c] = calibration]
        /\ registry' = IF saved
                       THEN [registry EXCEPT ![registry_key].calibration[c] = calibration]
                       ELSE registry
        /\ Verdict(<<c, "calibration">>, saved)
        /\ UNCHANGED <<registry_key, channel_count, data_source_callbacks, stage, next>>

ProcessEnds ==
    /\ stage # "off"
    /\ registry_key' = NoKey
    /\ channel_count' = 0
    /\ data_source_callbacks' = [c \in {} |-> "NULL"]
    /\ calibration_values' = [c \in {} |-> 0]
    /\ stage' = "off"
    /\ next' = 0
    /\ acknowledged' = {}
    /\ UNCHANGED registry

(* The slider stands where the calibration is until the user moves it.     *)
Positions(c) == SliderValues \cup {calibration_values[c]}

Change ==
    \E c \in DOMAIN data_source_callbacks :
        \/ \E name \in Names, written \in BOOLEAN :
              set_channel_source_binding(c, name, written)
        \/ clear_binding(c)
        \/ \E v \in Positions(c), written \in BOOLEAN :
              set_channel_calibration(c, v, written)

Next ==
    \/ \E n \in 0..MaxChannels : AllocateTables(n) \/ AllocationFails(n)
    \/ LoadStep
    \/ Change
    \/ ProcessEnds

RegistrySafety == Init /\ [][Next]_vars

Spec == RegistrySafety /\ WF_vars(LoadStep)

---------------------------------------------------------------------------
(* Properties                                                              *)

Loading == stage \in {"binding", "calibration"}

(* Type invariant.                                                         *)
TypeOK ==
    /\ registry \in [Hives ->
          [channel : [Channel -> Names \cup {Overlong, Missing}],
           calibration : [Channel -> Nat \cup {Overlong, Missing}]]]
    /\ registry_key \in Hives \cup {NoKey}
    /\ channel_count \in 0..MaxChannels
    /\ \E n \in {0, channel_count} :
          /\ n = channel_count \/ stage = "failed"
          /\ data_source_callbacks \in [0..(n - 1) -> Callbacks]
          /\ calibration_values \in [0..(n - 1) -> Byte]
    /\ stage \in {"off", "binding", "calibration", "ready", "failed"}
    /\ next \in 0..MaxChannels
    /\ acknowledged \subseteq Settings

(* What a later start that opens the same key loads is what is live, for   *)
(* every setting this process loaded or wrote and whose last write did not *)
(* fail: the order of table and store is the reverse of the Linux build's, *)
(* so a failed write leaves the table ahead of the store, but only for its *)
(* own setting, and also after a start that failed halfway.                *)
RestartRestores ==
    Usable =>
        \A c \in Channel :
           /\ <<c, "channel">> \in acknowledged =>
                 data_source_callbacks[c] \in
                    {"NULL", name_string_to_callback(Here.channel[c])}
           /\ <<c, "calibration">> \in acknowledged =>
                 calibration_values[c] = AsByte(Here.calibration[c])

(* A start replaces only what it cannot read, and works in one key.        *)
StartupKeepsSettings ==
    [][Loading =>
          \A h \in Hives, c \in Channel :
             /\ \/ registry'[h].channel[c] = registry[h].channel[c]
                \/ /\ h = registry_key
                   /\ ~Readable(registry[h].channel[c])
                   /\ registry'[h].channel[c] = "Unallocated"
             /\ \/ registry'[h].calibration[c] = registry[h].calibration[c]
                \/ /\ h = registry_key
                   /\ ~Readable(registry[h].calibration[c])]_vars

(* Nobody who has not calibrated a channel gets more than half scale: the  *)
(* value a start supplies itself exceeds 0x80 only for a channel it finds  *)
(* bound to the calibration source ("to prevent voltmeter damage").        *)
SuppliedCalibrationIsSafe ==
    [][\A h \in Hives, c \in Channel :
          (Loading /\ ~Readable(registry[h].calibration[c])
             /\ Readable(registry'[h].calibration[c])) =>
                \/ registry'[h].calibration[c] <= DefaultCalibration
                \/ data_source_callbacks[c] = "data_source_calibration"]_vars

(* RegistryConfig implements SettingsContract.  What a start makes of a    *)
(* key's values; whether the last start got through; what is in the keys;  *)
(* what this process knows to be stored; what the main loop works with.    *)
Effective(values, setting) ==
    LET name == values.channel[setting[1]]
        calibration == values.calibration[setting[1]]
    IN  IF setting[2] = "channel"
        THEN IF Readable(name) THEN name_string_to_callback(name) ELSE "NULL"
        ELSE IF Readable(calibration) THEN AsByte(calibration)
             ELSE MissingCalibration(name)

Mode ==
    CASE stage = "ready" -> "whole" [] stage = "failed" -> "partial" [] OTHER -> "off"

Saved == [h \in Hives |-> [s \in Settings |-> Effective(registry[h], s)]]

Known ==
    [s \in IF Usable THEN acknowledged ELSE {} |-> Effective(Here, s)]

InForce ==
    [s \in IF Usable THEN (DOMAIN data_source_callbacks) \X {"channel", "calibration"}
            ELSE {} |->
        IF s[2] = "channel" THEN data_source_callbacks[s[1]] ELSE calibration_values[s[1]]]

Contract == INSTANCE SettingsContract WITH
    Stores <- Hives,
    Settings <- Settings,
    Sources <- Channel \X {"channel"},
    Idle <- "NULL",
    mode <- Mode,
    store <- registry_key,
    saved <- Saved,
    known <- Known,
    inForce <- InForce

(* Every step of the Windows settings, starts that fail and programs that  *)
(* go on regardless included, is a step the contract allows.               *)
KeepsContract == Contract!Spec

(* initialize_data_source_binding returns.                                 *)
LoadingEnds == Loading ~> ~Loading

=============================================================================
