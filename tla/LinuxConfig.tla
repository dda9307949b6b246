----------------------------- MODULE LinuxConfig -----------------------------
(***************************************************************************)
(* The channel settings of the Linux build: the tables the collector       *)
(* allocates (data_source_callbacks, calibration_values), the JSON         *)
(* document configurationreader.c caches in root_object, and the file      *)
(* config.json both come from and go to.                                   *)
(*                                                                         *)
(* The file survives the process, everything else does not.  Every save    *)
(* truncates the file and writes the whole document again, so a save has   *)
(* three outcomes: the file is the document, the file could not be opened  *)
(* and is what it was, or it was cut short and is no JSON any more.  A     *)
(* process that dies inside a save is the last outcome followed by         *)
(* ProcessEnds.                                                            *)
(***************************************************************************)
EXTENDS PanelBase

CONSTANTS
    MaxChannels,    \* the most channels a panel reports (127 fit the reply)
    Names,          \* the source names in play, of data_source_names
    StoredInts,     \* calibrations a hand-written config.json holds
    SliderValues,   \* calibrations the user can choose
    Outcomes,       \* what can become of a save: "ok", "refused", "torn"
    Missing,        \* no such key in the document
    Absent, Torn,   \* config.json does not exist; is not JSON
    NoRoot          \* root_object == NULL

Channel == 0..(MaxChannels - 1)

(* config.json parsed: the keys channel0, channel1, ... and calibration0,  *)
(* calibration1, ...; numbers the user wrote keep their value there.       *)
Document == [channel : [Channel -> Names \cup {Missing}],
             calibration : [Channel -> Int \cup {Missing}]]

ASSUME ChannelsAssumption == MaxChannels \in 1..127
ASSUME NamesAssumption == {"Unallocated", "Calibration"} \subseteq Names
ASSUME CalibrationsAssumption == StoredInts \subseteq Int /\ SliderValues \subseteq Byte
ASSUME OutcomesAssumption == Outcomes \subseteq {"ok", "refused", "torn"}
ASSUME SentinelAssumption ==
    /\ Missing \notin Names \cup Int
    /\ {Absent, Torn, NoRoot} \cap Document = {}
    /\ Absent # Torn /\ Torn # NoRoot /\ Absent # NoRoot

VARIABLES
    file,                   \* config.json
    root,                   \* root_object
    channel_count,
    data_source_callbacks,
    calibration_values,
    stage,                  \* how far initialize_data_source_binding is
    next,                   \* its loop index
    rejected                \* observer: settings whose last set call failed

configVars == <<file, root, channel_count, data_source_callbacks,
                calibration_values, stage, next, rejected>>

Live == 0..(channel_count - 1)
Callbacks == {"NULL", "data_source_calibration"}
Settings == Channel \X {"channel", "calibration"}

name_string_to_callback(name) ==
    IF name = "Calibration" THEN "data_source_calibration" ELSE "NULL"

callback_to_name_string(callback) ==
    IF callback = "data_source_calibration" THEN "Calibration" ELSE "Unallocated"

get_source_binding_name(channel) ==
    callback_to_name_string(data_source_callbacks[channel])

(* A number of the document as an int: one that does not fit becomes the   *)
(* nearest that does.  Then the (uint8_t) conversion.                      *)
json_object_get_int(n) ==
    CASE n > 2147483647 -> 2147483647
      [] n < -2147483647 - 1 -> -2147483647 - 1
      [] OTHER -> n

Narrowed(n) == AsByte(json_object_get_int(n))

EmptyDocument == [channel |-> [c \in Channel |-> Missing],
                  calibration |-> [c \in Channel |-> Missing]]

(* config.json after json_object_to_file_ext(config_file, doc).            *)
FileAfter(doc, outcome) ==
    CASE outcome = "ok" -> doc
      [] outcome = "refused" -> file
      [] outcome = "torn" -> Torn

ConfigInit ==
    /\ file \in {Absent, Torn} \cup
          [channel : [Channel -> Names \cup {Missing}],
           calibration : [Channel -> StoredInts \cup {Missing}]]
    /\ root = NoRoot
    /\ channel_count = 0
    /\ data_source_callbacks = [c \in {} |-> "NULL"]
    /\ calibration_values = [c \in {} |-> 0]
    /\ stage = "off"
    /\ next = 0
    /\ rejected = {}

---------------------------------------------------------------------------
(* initialize_data_source_binding                                          *)

AllocateTables(n) ==
    /\ stage = "off"
    /\ channel_count' = n
    /\ data_source_callbacks' = [c \in 0..(n - 1) |-> "NULL"]
    /\ calibration_values' = [c \in 0..(n - 1) |-> 0]
    /\ stage' = IF n = 0 THEN "ready" ELSE "binding"
    /\ next' = 0
    /\ UNCHANGED <<file, root, rejected>>

AllocationFails(n) ==
    /\ stage = "off"
    /\ channel_count' = n
    /\ stage' = "failed"
    /\ UNCHANGED <<file, root, data_source_callbacks, calibration_values,
                   next, rejected>>

(* The parts of get_bound_data_source(next, ...).  The first call finds    *)
(* root_object NULL and opens the file.                                    *)
OpenedRoot ==
    IF root # NoRoot THEN root
    ELSE IF file = Absent THEN EmptyDocument ELSE file

Unreadable == root = NoRoot /\ file = Torn

(* Mutant: a file that does not parse counts as no file.                   *)
RefuseConfig_StartsEmpty ==
    /\ stage = "binding"
    /\ Unreadable
    /\ root' = EmptyDocument
    /\ UNCHANGED <<file, channel_count, data_source_callbacks,
                   calibration_values, stage, next, rejected>>

(* The file is no JSON, or cannot be opened or read this time.             *)
RefuseConfig ==
    /\ stage = "binding"
    /\ root = NoRoot /\ file # Absent
    /\ stage' = "failed"
    /\ UNCHANGED <<file, root, channel_count, data_source_callbacks,
                   calibration_values, next, rejected>>

(* Mutant: names without a source of their own are tidied up on the way.   *)
ReadBinding_Normalises ==
    /\ stage = "binding"
    /\ ~Unreadable
    /\ OpenedRoot.channel[next] # Missing
    /\ LET callback == name_string_to_callback(OpenedRoot.channel[next])
       IN  /\ root' = [OpenedRoot EXCEPT !.channel[next] =
                           callback_to_name_string(callback)]
           /\ data_source_callbacks' =
                 [data_source_callbacks EXCEPT ![next] = callback]
    /\ stage' = "calibration"
    /\ UNCHANGED <<file, channel_count, calibration_values, next, rejected>>

ReadBinding ==
    /\ stage = "binding"
    /\ ~Unreadable
    /\ OpenedRoot.channel[next] # Missing
    /\ root' = OpenedRoot
    /\ data_source_callbacks' =
          [data_source_callbacks EXCEPT
              ![next] = name_string_to_callback(OpenedRoot.channel[next])]
    /\ stage' = "calibration"
    /\ UNCHANGED <<file, channel_count, calibration_values, next, rejected>>

(* Mutant: the document is made anew for the first missing key.            *)
AddBinding_Anew(outcome) ==
    /\ stage = "binding"
    /\ ~Unreadable
    /\ OpenedRoot.channel[next] = Missing
    /\ root' = [EmptyDocument EXCEPT !.channel[next] = "Unallocated"]
    /\ file' = FileAfter(root', outcome)
    /\ stage' = IF outcome = "ok" THEN "calibration" ELSE "failed"
    /\ UNCHANGED <<channel_count, data_source_callbacks, calibration_values,
                   next, rejected>>

AddBinding(outcome) ==
    /\ stage = "binding"
    /\ ~Unreadable
    /\ OpenedRoot.channel[next] = Missing
    /\ root' = [OpenedRoot EXCEPT !.channel[next] = "Unallocated"]
    /\ file' = FileAfter(root', outcome)
    /\ stage' = IF outcome = "ok" THEN "calibration" ELSE "failed"
    /\ UNCHANGED <<channel_count, data_source_callbacks, calibration_values,
                   next, rejected>>

(* Mutant: the loop index is not advanced.                                 *)
NextChannel_Stuck ==
    /\ next' = next
    /\ stage' = IF next + 1 < channel_count THEN "binding" ELSE "ready"

(* The for loop takes the next channel, or is done.                        *)
NextChannel ==
    /\ next' = next + 1
    /\ stage' = IF next + 1 < channel_count THEN "binding" ELSE "ready"

(* Mutant: the (uint8_t) conversion is missing.                            *)
ReadCalibration_Wide ==
    /\ stage = "calibration"
    /\ root.calibration[next] # Missing
    /\ calibration_values' =
          [calibration_values EXCEPT ![next] = root.calibration[next]]
    /\ NextChannel
    /\ UNCHANGED <<file, root, channel_count, data_source_callbacks, rejected>>

ReadCalibration ==
    /\ stage = "calibration"
    /\ root.calibration[next] # Missing
    /\ calibration_values' =
          [calibration_values EXCEPT ![next] = Narrowed(root.calibration[next])]
    /\ NextChannel
    /\ UNCHANGED <<file, root, channel_count, data_source_callbacks, rejected>>

(* Mutant: the default goes to the table but not to the document.          *)
AddCalibration_NotAdded(outcome) ==
    /\ stage = "calibration"
    /\ root.calibration[next] = Missing
    /\ calibration_values' = [calibration_values EXCEPT ![next] = DefaultCalibration]
    /\ NextChannel
    /\ UNCHANGED <<file, root, channel_count, data_source_callbacks, rejected>>

AddCalibration(outcome) ==
    /\ stage = "calibration"
    /\ root.calibration[next] = Missing
    /\ root' = [root EXCEPT !.calibration[next] = DefaultCalibration]
    /\ file' = FileAfter(root', outcome)
    /\ IF outcome = "ok"
       THEN /\ calibration_values' =
                  [calibration_values EXCEPT ![next] = DefaultCalibration]
            /\ NextChannel
       ELSE /\ stage' = "failed"
            /\ UNCHANGED <<calibration_values, next>>
    /\ UNCHANGED <<channel_count, data_source_callbacks, rejected>>

LoadStep ==
    \/ RefuseConfig
    \/ ReadBinding
    \/ \E outcome \in Outcomes : AddBinding(outcome)
    \/ ReadCalibration
    \/ \E outcome \in Outcomes : AddCalibration(outcome)

---------------------------------------------------------------------------
(* The operations the dialogs call                                         *)

Verdict(setting, saved) ==
    rejected' = IF saved THEN rejected \ {setting} ELSE rejected \cup {setting}

set_channel_source_binding(c, name, outcome) ==
    LET found == root.channel[c] # Missing
        saved == found /\ outcome = "ok"
    IN  /\ stage = "ready"
        /\ root' = IF found THEN [root EXCEPT !.channel[c] = name] ELSE root
        /\ file' = IF found THEN FileAfter(root', outcome) ELSE file
        /\ data_source_callbacks' =
              IF saved
              THEN [data_source_callbacks EXCEPT ![c] = name_string_to_callback(name)]
              ELSE data_source_callbacks
        /\ Verdict(<<c, "channel">>, saved)
        /\ UNCHANGED <<channel_count, calibration_values, stage, next>>

clear_binding(c) ==
    /\ stage = "ready"
    /\ data_source_callbacks' = [data_source_callbacks EXCEPT ![c] = "NULL"]
    /\ UNCHANGED <<file, root, channel_count, calibration_values, stage, next,
                   rejected>>

(* Mutant: the status of the save is not looked at.                        *)
set_channel_calibration_Unchecked(c, calibration, outcome) ==
    LET found == root.calibration[c] # Missing
    IN  /\ stage = "ready"
        /\ root' = IF found THEN [root EXCEPT !.calibration[c] = calibration] ELSE root
        /\ file' = IF found THEN FileAfter(root', outcome) ELSE file
        /\ calibration_values' = [calibration_values EXCEPT ![c] = calibration]
        /\ Verdict(<<c, "calibration">>, TRUE)
        /\ UNCHANGED <<channel_count, data_source_callbacks, stage, next>>

set_channel_calibration(c, calibration, outcome) ==
    LET found == root.calibration[c] # Missing
        saved == found /\ outcome = "ok"
    IN  /\ stage = "ready"
        /\ root' = IF found THEN [root EXCEPT !.calibration[c] = calibration] ELSE root
        /\ file' = IF found THEN FileAfter(root', outcome) ELSE file
        /\ calibration_values' =
              IF saved
              THEN [calibration_values EXCEPT ![c] = calibration]
              ELSE calibration_values
        /\ Verdict(<<c, "calibration">>, saved)
        /\ UNCHANGED <<channel_count, data_source_callbacks, stage, next>>

(* The process returns from main, is killed or crashes: only the file stays. *)
ProcessEnds ==
    /\ stage # "off"
    /\ root' = NoRoot
    /\ channel_count' = 0
    /\ data_source_callbacks' = [c \in {} |-> "NULL"]
    /\ calibration_values' = [c \in {} |-> 0]
    /\ stage' = "off"
    /\ next' = 0
    /\ rejected' = {}
    /\ UNCHANGED file

---------------------------------------------------------------------------

(* A dialog chooses a source, a calibration, or stores the live one again. *)
Change ==
    /\ stage = "ready"
    /\ \E c \in Live :
          \/ \E name \in Names, outcome \in Outcomes :
                set_channel_source_binding(c, name, outcome)
          \/ clear_binding(c)
          \/ \E v \in SliderValues \cup {calibration_values[c]}, outcome \in Outcomes :
                set_channel_calibration(c, v, outcome)

ConfigNext ==
    \/ \E n \in 0..MaxChannels : AllocateTables(n) \/ AllocationFails(n)
    \/ LoadStep
    \/ Change
    \/ ProcessEnds

ConfigSafety == ConfigInit /\ [][ConfigNext]_configVars

(* main runs initialize_data_source_binding to its end by itself; nothing  *)
(* obliges the user to do anything, or the process to end.                 *)
ConfigSpec == ConfigSafety /\ WF_configVars(LoadStep)

---------------------------------------------------------------------------
(* Properties                                                              *)

Loading == stage \in {"binding", "calibration"}

(* Type invariant.  The tables have an element for every channel, except   *)
(* after calloc failed.                                                    *)
TypeOK ==
    /\ file \in Document \cup {Absent, Torn}
    /\ root \in Document \cup {NoRoot}
    /\ channel_count \in 0..MaxChannels
    /\ stage \in {"off", "binding", "calibration", "ready", "failed"}
    /\ next \in 0..MaxChannels
    /\ rejected \subseteq Settings
    /\ \E n \in {0, channel_count} :
          /\ n = channel_count \/ stage = "failed"
          /\ data_source_callbacks \in [0..(n - 1) -> Callbacks]
          /\ calibration_values \in [0..(n - 1) -> Byte]

(* What a later start would load from config.json is what is live now: for *)
(* every setting whose last change was acknowledged, the file, read back,  *)
(* gives the live calibration, and the live source or the source a dialog  *)
(* has paused.  Only a set call that reported failure may leave a file no  *)
(* start can read (get_bound_data_source, set_channel_* : live arrays,     *)
(* root_object and file are three copies updated at different moments).    *)
RestartRestores ==
    (stage = "ready" /\ channel_count > 0) =>
        /\ rejected = {} => file # Torn
        /\ file # Torn =>
              \A c \in Live :
                 /\ <<c, "channel">> \notin rejected =>
                       data_source_callbacks[c] \in
                          {"NULL", name_string_to_callback(file.channel[c])}
                 /\ <<c, "calibration">> \notin rejected =>
                       calibration_values[c] = Narrowed(file.calibration[c])

(* Once the panel is usable every channel has both keys in root_object, so *)
(* a set call can only fail for the disk's sake: the look-ups at the head  *)
(* of set_channel_source_binding and set_channel_calibration succeed,      *)
(* whatever file the start found and wherever an earlier one was cut off.  *)
EveryChannelHasEntries ==
    stage = "ready" =>
        \A c \in Live : root # NoRoot /\ root.channel[c] # Missing
                                      /\ root.calibration[c] # Missing

(* A config.json that is no JSON is the user's to repair: a start refuses  *)
(* it and leaves it as it is (the STATUS_INVALID_CONFIGURATION return of   *)
(* get_bound_data_source comes before any save).                           *)
UnreadableConfigKept ==
    [][(Loading \/ stage = "off") /\ file = Torn => file' = Torn]_configVars

(* A start changes nothing the file already says, of this panel's channels *)
(* or of others, also where it has to rewrite the file for a missing key;  *)
(* what it adds is "Unallocated" and the default calibration.              *)
Contents(f) == IF f = Absent THEN EmptyDocument ELSE f

StartupOnlyAddsDefaults ==
    [][Loading /\ file # Torn /\ file' # Torn =>
          LET old == Contents(file)
              new == Contents(file')
          IN  \A c \in Channel :
                 /\ \/ new.channel[c] = old.channel[c]
                    \/ old.channel[c] = Missing /\ new.channel[c] = "Unallocated"
                 /\ \/ new.calibration[c] = old.calibration[c]
                    \/ /\ old.calibration[c] = Missing
                       /\ new.calibration[c] = DefaultCalibration]_configVars

(* LinuxConfig implements SettingsContract.  What a start makes of a       *)
(* document; what it would find in config.json; what this process knows to *)
(* be stored; what the main loop works with.                               *)
Effective(doc, setting) ==
    LET c == setting[1]
    IN  IF setting[2] = "channel"
        THEN IF doc.channel[c] = Missing THEN "NULL"
             ELSE name_string_to_callback(doc.channel[c])
        ELSE IF doc.calibration[c] = Missing THEN DefaultCalibration
             ELSE Narrowed(doc.calibration[c])

Stored ==
    [s \in IF file = Torn THEN {} ELSE Settings |-> Effective(Contents(file), s)]

Known ==
    [s \in IF stage = "ready" /\ root # NoRoot THEN Settings \ rejected ELSE {} |->
        Effective(root, s)]

InForce ==
    [s \in IF stage = "ready" THEN Live \X {"channel", "calibration"} ELSE {} |->
        IF s[2] = "channel" THEN data_source_callbacks[s[1]] ELSE calibration_values[s[1]]]

Contract == INSTANCE SettingsContract WITH
    Stores <- {"config.json"},
    Settings <- Settings,
    Sources <- Channel \X {"channel"},
    Idle <- "NULL",
    mode <- IF stage = "ready" THEN "whole" ELSE "off",
    store <- "config.json",
    saved <- [k \in {"config.json"} |-> Stored],
    known <- Known,
    inForce <- InForce

(* Every step of the Linux settings, saves that fail or are cut short and  *)
(* ends of the process at any moment included, is a step the contract      *)
(* allows.                                                                 *)
KeepsContract == Contract!Spec

(* initialize_data_source_binding returns, whatever it finds on the disk   *)
(* and whether or not its saves succeed.                                   *)
LoadingEnds == Loading ~> ~Loading

(* What set_channel_* report they could not set is not set: a readable     *)
(* config.json never holds a calibration other than the live one.  The     *)
(* code keeps the rejected value in root_object, and the next successful   *)
(* save of any setting writes it.                                          *)
RejectedStaysOffDisk ==
    (stage = "ready" /\ file \notin {Absent, Torn}) =>
        \A c \in Live : Narrowed(file.calibration[c]) = calibration_values[c]

=============================================================================
