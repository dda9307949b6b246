------------------------- MODULE RegistryConfigProofs -------------------------
(***************************************************************************)
(* Theorems about RegistryConfig, for any number of channels, any keys,    *)
(* names and numbers in them, and any outcome of each write.               *)
(*                                                                         *)
(* The invariant: what this process loaded or wrote is in its key, whole   *)
(* and readable, and the tables agree with it.  RestartRestores alone does *)
(* not say that the value is there to be read, nor that a start works its  *)
(* way through the channels in order, and so is not preserved by the steps *)
(* of a start.                                                             *)
(*                                                                         *)
(* After the invariant and the properties come the contract, that is, that *)
(* RegistryConfig implements SettingsContract, and how a start ends.       *)
(***************************************************************************)
EXTENDS RegistryConfig, PanelBaseProofs

Values == [channel : [Channel -> Names \cup {Overlong, Missing}],
           calibration : [Channel -> Nat \cup {Overlong, Missing}]]

Kinds == {"channel", "calibration"}

Allocated(n) ==
    /\ data_source_callbacks \in [0..(n - 1) -> Callbacks]
    /\ calibration_values \in [0..(n - 1) -> Byte]

OffInv ==
    stage = "off" =>
        /\ registry_key = NoKey /\ channel_count = 0 /\ acknowledged = {}
        /\ Allocated(0)

(* A start takes the channels in order, each one's source first.           *)
BoundChannels ==
    {c \in Live : stage = "ready" \/ c < next \/ (stage = "calibration" /\ c = next)}
CalibratedChannels == {c \in Live : stage = "ready" \/ c < next}

LoadingInv ==
    Loading =>
        /\ next < channel_count
        /\ (stage = "calibration" \/ next > 0) => registry_key # NoKey
        /\ acknowledged = (BoundChannels \X {"channel"})
                             \cup (CalibratedChannels \X {"calibration"})
        /\ \A c \in BoundChannels :
              data_source_callbacks[c] = name_string_to_callback(Here.channel[c])

AcknowledgedInv ==
    /\ acknowledged # {} => registry_key # NoKey
    /\ acknowledged \subseteq (DOMAIN data_source_callbacks) \X Kinds
    /\ \A c \in Channel :
          /\ <<c, "channel">> \in acknowledged =>
                /\ Readable(Here.channel[c])
                /\ data_source_callbacks[c] \in
                      {"NULL", name_string_to_callback(Here.channel[c])}
          /\ <<c, "calibration">> \in acknowledged =>
                /\ Readable(Here.calibration[c])
                /\ calibration_values[c] = AsByte(Here.calibration[c])

RegistryInv == TypeOK /\ OffInv /\ LoadingInv /\ AcknowledgedInv

---------------------------------------------------------------------------

(* A name is turned into a source there is.                                *)
LEMMA CallbackType == \A name : name_string_to_callback(name) \in Callbacks
BY DEF name_string_to_callback, Callbacks

LEMMA InitRegistryInv == Init => RegistryInv
<1> SUFFICES ASSUME Init PROVE RegistryInv
    OBVIOUS
<1>1. registry \in [Hives -> Values]
    BY CalibrationsAssumption DEF Init, Values
<1>2. Allocated(0)
    BY DEF Init, Allocated
<1>3. TypeOK
    BY <1>1, <1>2, ChannelsAssumption DEF Init, TypeOK, Values, Allocated
<1> QED
    BY <1>2, <1>3 DEF Init, RegistryInv, OffInv, LoadingInv, AcknowledgedInv, Loading

LEMMA LoadingFacts ==
    ASSUME RegistryInv, Loading
    PROVE  /\ Allocated(channel_count) /\ DOMAIN data_source_callbacks = Live
           /\ next \in Live /\ next \in Channel /\ next \in Nat
           /\ channel_count \in Nat /\ channel_count <= MaxChannels
           /\ Live \subseteq Channel /\ registry \in [Hives -> Values]
           /\ registry_key # NoKey => registry_key \in Hives /\ Here \in Values
BY ChannelsAssumption
   DEF RegistryInv, TypeOK, LoadingInv, Loading, Allocated, Live, Channel, Here, Values

(* The two names a start itself treats in a way of their own.              *)
LEMMA NamedCallbacks ==
    /\ name_string_to_callback("Calibration") = "data_source_calibration"
    /\ name_string_to_callback("Unallocated") = "NULL"
BY DEF name_string_to_callback

(* Writing one value leaves the other values of the key.                   *)
LEMMA ChannelWritten ==
    ASSUME RegistryInv, registry_key # NoKey, registry_key' = registry_key,
           NEW c \in Channel, NEW name \in Names,
           registry' = [registry EXCEPT ![registry_key].channel[c] = name]
    PROVE  /\ registry' \in [Hives -> Values] /\ registry_key \in Hives
           /\ Here'.calibration = Here.calibration
           /\ Here'.channel[c] = name /\ Readable(name)
           /\ \A d \in Channel \ {c} : Here'.channel[d] = Here.channel[d]
           /\ \A h \in Hives \ {registry_key} : registry'[h] = registry[h]
<1>1. registry \in [Hives -> Values] /\ registry_key \in Hives
    BY DEF RegistryInv, TypeOK, Values
<1>2. /\ registry' \in [Hives -> Values]
      /\ registry'[registry_key].calibration = registry[registry_key].calibration
      /\ registry'[registry_key].channel =
            [registry[registry_key].channel EXCEPT ![c] = name]
    BY <1>1 DEF Values
<1>3. registry[registry_key].channel \in [Channel -> Names \cup {Overlong, Missing}]
    BY <1>1 DEF Values
<1>4. Readable(name)
    BY NamesAssumption, SentinelAssumption DEF Readable
<1> QED
    BY <1>1, <1>2, <1>3, <1>4 DEF Here

LEMMA CalibrationWritten ==
    ASSUME RegistryInv, registry_key # NoKey, registry_key' = registry_key,
           NEW c \in Channel, NEW v \in Byte,
           registry' = [registry EXCEPT ![registry_key].calibration[c] = v]
    PROVE  /\ registry' \in [Hives -> Values] /\ registry_key \in Hives
           /\ Here'.channel = Here.channel
           /\ Here'.calibration[c] = v /\ Readable(v) /\ AsByte(v) = v
           /\ \A d \in Channel \ {c} : Here'.calibration[d] = Here.calibration[d]
           /\ \A h \in Hives \ {registry_key} : registry'[h] = registry[h]
<1>0. v \in Nat /\ AsByte(v) = v
    BY DEF Byte, AsByte
<1>1. registry \in [Hives -> Values] /\ registry_key \in Hives
    BY DEF RegistryInv, TypeOK, Values
<1>2. /\ registry' \in [Hives -> Values]
      /\ registry'[registry_key].channel = registry[registry_key].channel
      /\ registry'[registry_key].calibration =
            [registry[registry_key].calibration EXCEPT ![c] = v]
    BY <1>0, <1>1 DEF Values
<1>3. registry[registry_key].calibration \in [Channel -> Nat \cup {Overlong, Missing}]
    BY <1>1 DEF Values
<1>4. Readable(v)
    BY <1>0, NamesAssumption, SentinelAssumption DEF Readable
<1> QED
    BY <1>0, <1>1, <1>2, <1>3, <1>4 DEF Here

---------------------------------------------------------------------------
(* One lemma per action: it preserves the invariant.                       *)

LEMMA AllocateTablesStep ==
    ASSUME RegistryInv, NEW n \in 0..MaxChannels, AllocateTables(n)
    PROVE  RegistryInv'
<1>1. Allocated(n)'
    BY ChannelsAssumption DEF AllocateTables, Allocated, Byte, Callbacks
<1>2. /\ n \in Nat /\ channel_count' = n /\ stage' \in {"ready", "binding"}
      /\ stage' = "binding" => n > 0
      /\ next' = 0 /\ acknowledged' = {}
    BY ChannelsAssumption DEF AllocateTables, RegistryInv, OffInv
<1>3. TypeOK'
    <2>1. Allocated(channel_count)'
        BY <1>1, <1>2 DEF Allocated
    <2>2. UNCHANGED <<registry, registry_key>> /\ 0 \in 0..MaxChannels
        BY ChannelsAssumption DEF AllocateTables
    <2> QED
        BY <1>2, <2>1, <2>2 DEF RegistryInv, TypeOK, Allocated
<1>4. LoadingInv'
    BY <1>2 DEF LoadingInv, Loading, BoundChannels, CalibratedChannels, Live
<1> QED
    BY <1>2, <1>3, <1>4 DEF RegistryInv, OffInv, AcknowledgedInv

LEMMA AllocationFailsStep ==
    ASSUME RegistryInv, NEW n \in 0..MaxChannels, AllocationFails(n)
    PROVE  RegistryInv'
<1>1. acknowledged' = {} /\ stage' = "failed" /\ Allocated(0)'
    BY DEF AllocationFails, RegistryInv, OffInv, Allocated
<1>2. TypeOK'
    BY <1>1 DEF AllocationFails, RegistryInv, TypeOK, Allocated
<1> QED
    BY <1>1, <1>2 DEF RegistryInv, OffInv, LoadingInv, Loading, AcknowledgedInv

(* A step of a start that fails leaves the tables and the key as they are. *)
LEMMA FailedStep ==
    ASSUME RegistryInv, stage' = "failed",
           UNCHANGED <<registry, registry_key, channel_count, data_source_callbacks,
                       calibration_values, next, acknowledged>>
    PROVE  RegistryInv'
<1>1. TypeOK'
    BY DEF RegistryInv, TypeOK
<1> QED
    BY <1>1 DEF RegistryInv, OffInv, LoadingInv, Loading, AcknowledgedInv, Here

LEMMA OpenKeyStep ==
    ASSUME RegistryInv, OpenKey
    PROVE  RegistryInv'
<1>1. CASE stage' = "failed" /\ registry_key' = registry_key
    BY <1>1, FailedStep DEF OpenKey
<1>2. CASE stage' = stage /\ registry_key' \in Hives
    <2>0. /\ stage = "binding" /\ registry_key = NoKey
          /\ UNCHANGED <<registry, channel_count, data_source_callbacks,
                         calibration_values, next, acknowledged>>
        BY <1>2 DEF OpenKey
    <2>1. next = 0 /\ next \in Nat
        BY <2>0, LoadingFacts DEF RegistryInv, LoadingInv, Loading
    <2>2. BoundChannels = {} /\ CalibratedChannels = {} /\ acknowledged = {}
        BY <2>0, <2>1 DEF BoundChannels, CalibratedChannels, Live, RegistryInv,
           LoadingInv, Loading
    <2>3. BoundChannels' = BoundChannels /\ CalibratedChannels' = CalibratedChannels
        BY <1>2, <2>0 DEF BoundChannels, CalibratedChannels, Live
    <2>4. TypeOK'
        BY <1>2, <2>0 DEF RegistryInv, TypeOK
    <2>5. registry_key' # NoKey
        BY <1>2, SentinelAssumption
    <2>6. LoadingInv'
        BY <1>2, <2>0, <2>2, <2>3, <2>5 DEF RegistryInv, LoadingInv, Loading
    <2> QED
        BY <1>2, <2>0, <2>2, <2>4, <2>6 DEF RegistryInv, OffInv, AcknowledgedInv
<1> QED
    BY <1>1, <1>2 DEF OpenKey

(* Channel next gets its source: the one the key now names.                *)
LEMMA BoundStep ==
    ASSUME RegistryInv, stage = "binding", stage' = "calibration",
           registry_key # NoKey, registry' \in [Hives -> Values],
           \A c \in Channel \ {next} : Here'.channel[c] = Here.channel[c],
           Here'.calibration = Here.calibration,
           Readable(Here'.channel[next]),
           data_source_callbacks' =
              [data_source_callbacks EXCEPT
                  ![next] = name_string_to_callback(Here'.channel[next])],
           Loaded(<<next, "channel">>),
           UNCHANGED <<registry_key, channel_count, calibration_values, next>>
    PROVE  RegistryInv'
<1>0. /\ Allocated(channel_count) /\ DOMAIN data_source_callbacks = Live
      /\ next \in Live /\ next \in Channel /\ next \in Nat
      /\ Live \subseteq Channel /\ Loading /\ Loading'
      /\ Live' = Live /\ channel_count \in Nat
    BY LoadingFacts DEF Loading, Live
<1>1. Allocated(channel_count)'
    BY <1>0, CallbackType DEF Allocated
<1>2. TypeOK'
    <2>1. acknowledged' \subseteq Settings
        BY <1>0 DEF Loaded, Settings, RegistryInv, TypeOK
    <2> QED
        BY <1>1, <2>1 DEF RegistryInv, TypeOK, Allocated, Values
<1>3. /\ BoundChannels' = BoundChannels \cup {next}
      /\ CalibratedChannels' = CalibratedChannels
      /\ next \notin BoundChannels
    BY <1>0 DEF BoundChannels, CalibratedChannels, Live
<1>4. /\ data_source_callbacks'[next] = name_string_to_callback(Here'.channel[next])
      /\ \A c \in Live \ {next} : data_source_callbacks'[c] = data_source_callbacks[c]
      /\ DOMAIN data_source_callbacks' = Live
    BY <1>0 DEF Allocated, Live
<1>5. LoadingInv'
    <2>1. acknowledged' = (BoundChannels' \X {"channel"})
                             \cup (CalibratedChannels' \X {"calibration"})
        BY <1>0, <1>3 DEF RegistryInv, LoadingInv, Loaded
    <2>2. ASSUME NEW c \in BoundChannels'
          PROVE  data_source_callbacks'[c] = name_string_to_callback(Here'.channel[c])
        <3>1. CASE c = next
            BY <3>1, <1>4
        <3>2. CASE c # next
            <4>1. c \in BoundChannels /\ c \in Live \ {next} /\ c \in Channel
                BY <3>2, <1>0, <1>3 DEF BoundChannels
            <4> QED
                BY <4>1, <1>0, <1>4 DEF RegistryInv, LoadingInv
        <3> QED
            BY <3>1, <3>2
    <2> QED
        BY <1>0, <2>1, <2>2 DEF RegistryInv, LoadingInv
<1>6. AcknowledgedInv'
    <2>1. acknowledged' \subseteq Live \X Kinds
        BY <1>0 DEF Loaded, RegistryInv, AcknowledgedInv, Kinds
    <2>2. ASSUME NEW c \in Channel, <<c, "channel">> \in acknowledged'
          PROVE  /\ Readable(Here'.channel[c])
                 /\ data_source_callbacks'[c] \in
                       {"NULL", name_string_to_callback(Here'.channel[c])}
        <3>1. CASE c = next
            BY <3>1, <1>4
        <3>2. CASE c # next
            <4>1. <<c, "channel">> \in acknowledged /\ c \in Live
                BY <2>1, <2>2, <3>2 DEF Loaded
            <4> QED
                BY <3>2, <4>1, <1>4 DEF RegistryInv, AcknowledgedInv
        <3> QED
            BY <3>1, <3>2
    <2>3. ASSUME NEW c \in Channel, <<c, "calibration">> \in acknowledged'
          PROVE  /\ Readable(Here'.calibration[c])
                 /\ calibration_values'[c] = AsByte(Here'.calibration[c])
        <3>1. <<c, "calibration">> \in acknowledged
            BY <2>3 DEF Loaded
        <3> QED
            BY <3>1 DEF RegistryInv, AcknowledgedInv
    <2> QED
        BY <1>4, <2>1, <2>2, <2>3 DEF AcknowledgedInv
<1> QED
    BY <1>2, <1>5, <1>6 DEF RegistryInv, OffInv

LEMMA ReadBindingStep ==
    ASSUME RegistryInv, ReadBinding
    PROVE  RegistryInv'
<1>1. registry \in [Hives -> Values] /\ Here' = Here
    BY DEF RegistryInv, TypeOK, Values, ReadBinding, Here
<1> QED
    BY <1>1, BoundStep DEF ReadBinding

LEMMA ReplaceBindingStep ==
    ASSUME RegistryInv, NEW written \in BOOLEAN, ReplaceBinding(written)
    PROVE  RegistryInv'
<1>1. CASE ~written
    BY <1>1, FailedStep DEF ReplaceBinding
<1>2. CASE written
    <2>0. next \in Channel /\ "Unallocated" \in Names
        BY LoadingFacts, NamesAssumption DEF ReplaceBinding, Loading
    <2>1. /\ registry' \in [Hives -> Values]
          /\ Here'.calibration = Here.calibration
          /\ Here'.channel[next] = "Unallocated" /\ Readable("Unallocated")
          /\ \A c \in Channel \ {next} : Here'.channel[c] = Here.channel[c]
        BY <1>2, <2>0, ChannelWritten DEF ReplaceBinding
    <2> QED
        BY <1>2, <2>1, BoundStep DEF ReplaceBinding
<1> QED
    BY <1>1, <1>2

(* Channel next gets its calibration, and the loop its next channel.       *)
LEMMA CalibratedStep ==
    ASSUME RegistryInv, stage = "calibration", registry' \in [Hives -> Values],
           \A c \in Channel \ {next} : Here'.calibration[c] = Here.calibration[c],
           Here'.channel = Here.channel,
           Readable(Here'.calibration[next]),
           AsByte(Here'.calibration[next]) \in Byte,
           calibration_values' =
              [calibration_values EXCEPT ![next] = AsByte(Here'.calibration[next])],
           NextChannel, Loaded(<<next, "calibration">>),
           UNCHANGED <<registry_key, channel_count, data_source_callbacks>>
    PROVE  /\ RegistryInv'
           /\ Live' = Live /\ BoundChannels' = BoundChannels
           /\ stage' = "ready" => BoundChannels = Live /\ CalibratedChannels' = Live
           /\ acknowledged' = (BoundChannels' \X {"channel"})
                                 \cup (CalibratedChannels' \X {"calibration"})
<1>0. /\ Allocated(channel_count) /\ DOMAIN data_source_callbacks = Live
      /\ next \in Live /\ next \in Channel /\ next \in Nat
      /\ Live \subseteq Channel /\ Loading
      /\ Live' = Live /\ channel_count \in Nat /\ channel_count <= MaxChannels
    BY LoadingFacts DEF Loading, Live
<1>1. /\ next' = next + 1 /\ stage' \in {"binding", "ready"}
      /\ stage' = "binding" => next' < channel_count
      /\ stage' = "ready" => next = channel_count - 1
    BY <1>0 DEF NextChannel, Live
<1>2. /\ BoundChannels' = BoundChannels
      /\ CalibratedChannels' = CalibratedChannels \cup {next}
      /\ stage' = "ready" => BoundChannels = Live /\ CalibratedChannels' = Live
    BY <1>0, <1>1 DEF BoundChannels, CalibratedChannels, Live
<1>3. Allocated(channel_count)'
    BY <1>0 DEF Allocated
<1>4. TypeOK'
    <2>1. acknowledged' \subseteq Settings
        BY <1>0 DEF Loaded, Settings, RegistryInv, TypeOK
    <2>2. next' \in 0..MaxChannels
        BY <1>0, <1>1, ChannelsAssumption DEF Live
    <2> QED
        BY <1>1, <1>3, <2>1, <2>2 DEF RegistryInv, TypeOK, Allocated, Values
<1>5. /\ calibration_values'[next] = AsByte(Here'.calibration[next])
      /\ \A c \in Live \ {next} : calibration_values'[c] = calibration_values[c]
    BY <1>0 DEF Allocated, Live
<1>6. acknowledged' = (BoundChannels' \X {"channel"})
                         \cup (CalibratedChannels' \X {"calibration"})
    BY <1>0, <1>2 DEF RegistryInv, LoadingInv, Loaded
<1>7. LoadingInv'
    BY <1>0, <1>1, <1>2, <1>6 DEF RegistryInv, LoadingInv, Loading
<1>8. AcknowledgedInv'
    <2>1. acknowledged' \subseteq Live \X Kinds /\ registry_key # NoKey
        BY <1>0 DEF Loaded, RegistryInv, AcknowledgedInv, LoadingInv, Kinds
    <2>2. ASSUME NEW c \in Channel, <<c, "channel">> \in acknowledged'
          PROVE  /\ Readable(Here'.channel[c])
                 /\ data_source_callbacks'[c] \in
                       {"NULL", name_string_to_callback(Here'.channel[c])}
        <3>1. <<c, "channel">> \in acknowledged
            BY <2>2 DEF Loaded
        <3> QED
            BY <3>1 DEF RegistryInv, AcknowledgedInv
    <2>3. ASSUME NEW c \in Channel, <<c, "calibration">> \in acknowledged'
          PROVE  /\ Readable(Here'.calibration[c])
                 /\ calibration_values'[c] = AsByte(Here'.calibration[c])
        <3>1. CASE c = next
            BY <3>1, <1>5
        <3>2. CASE c # next
            <4>1. <<c, "calibration">> \in acknowledged /\ c \in Live
                BY <2>1, <2>3, <3>2 DEF Loaded
            <4> QED
                BY <3>2, <4>1, <1>5 DEF RegistryInv, AcknowledgedInv
        <3> QED
            BY <3>1, <3>2
    <2> QED
        BY <1>0, <2>1, <2>2, <2>3 DEF AcknowledgedInv
<1>9. OffInv'
    BY <1>1 DEF OffInv
<1> QED
    BY <1>0, <1>2, <1>4, <1>6, <1>7, <1>8, <1>9 DEF RegistryInv

LEMMA ReadCalibrationStep ==
    ASSUME RegistryInv, ReadCalibration
    PROVE  /\ RegistryInv'
           /\ Live' = Live /\ BoundChannels' = BoundChannels
           /\ stage' = "ready" => BoundChannels = Live /\ CalibratedChannels' = Live
           /\ acknowledged' = (BoundChannels' \X {"channel"})
                                 \cup (CalibratedChannels' \X {"calibration"})
<1>1. registry' \in [Hives -> Values] /\ Here' = Here
    BY DEF RegistryInv, TypeOK, Values, ReadCalibration, Here
<1>2. Here.calibration[next] \in Int
    BY LoadingFacts DEF ReadCalibration, Loading, RegistryInv, LoadingInv, Values,
       Readable
<1>3. AsByte(Here'.calibration[next]) \in Byte
    BY <1>1, <1>2, AsByteIsByte
<1> QED
    BY <1>1, <1>3, CalibratedStep DEF ReadCalibration

LEMMA AddCalibrationStep ==
    ASSUME RegistryInv, NEW written \in BOOLEAN, AddCalibration(written)
    PROVE  /\ RegistryInv'
           /\ stage' # "failed" =>
                 /\ Live' = Live /\ BoundChannels' = BoundChannels
                 /\ stage' = "ready" => BoundChannels = Live /\ CalibratedChannels' = Live
                 /\ acknowledged' = (BoundChannels' \X {"channel"})
                                       \cup (CalibratedChannels' \X {"calibration"})
<1> DEFINE default == MissingCalibration(Here.channel[next])
<1>1. CASE ~written
    BY <1>1, FailedStep DEF AddCalibration
<1>2. CASE written
    <2>0. /\ next \in Channel /\ registry_key # NoKey
          /\ default \in Byte
        BY LoadingFacts DEF AddCalibration, Loading, RegistryInv, LoadingInv,
           MissingCalibration, DefaultCalibration, Byte
    <2>1. /\ registry' = [registry EXCEPT ![registry_key].calibration[next] = default]
          /\ calibration_values' = [calibration_values EXCEPT ![next] = default]
          /\ NextChannel /\ Loaded(<<next, "calibration">>)
          /\ stage = "calibration"
          /\ UNCHANGED <<registry_key, channel_count, data_source_callbacks>>
        BY <1>2 DEF AddCalibration
    <2> HIDE DEF default
    <2>2. /\ registry' \in [Hives -> Values]
          /\ Here'.channel = Here.channel
          /\ Here'.calibration[next] = default /\ Readable(default)
          /\ AsByte(default) = default
          /\ \A d \in Channel \ {next} : Here'.calibration[d] = Here.calibration[d]
        BY <2>0, <2>1, CalibrationWritten
    <2> QED
        BY <2>0, <2>1, <2>2, CalibratedStep
<1> QED
    BY <1>1, <1>2

(* The tables the dialogs work on have an entry for every channel, or,     *)
(* after allocation failed, for none.                                      *)
LEMMA UsableFacts ==
    ASSUME RegistryInv, Usable
    PROVE  /\ DOMAIN data_source_callbacks \subseteq Channel
           /\ \E n \in {0, channel_count} :
                 /\ n = channel_count \/ stage = "failed"
                 /\ Allocated(n)
           /\ DOMAIN data_source_callbacks = DOMAIN calibration_values
           /\ data_source_callbacks \in [DOMAIN data_source_callbacks -> Callbacks]
           /\ calibration_values \in [DOMAIN data_source_callbacks -> Byte]
           /\ registry \in [Hives -> Values]
<1>1. PICK n \in {0, channel_count} :
          (n = channel_count \/ stage = "failed") /\ Allocated(n)
    BY DEF RegistryInv, TypeOK, Allocated
<1>2. channel_count \in 0..MaxChannels /\ registry \in [Hives -> Values]
    BY DEF RegistryInv, TypeOK, Values
<1>3. 0..(n - 1) \subseteq Channel
    BY <1>1, <1>2, ChannelsAssumption DEF Channel
<1>4. DOMAIN data_source_callbacks = 0..(n - 1) /\ DOMAIN calibration_values = 0..(n - 1)
    BY <1>1 DEF Allocated
<1> QED
    BY <1>1, <1>2, <1>3, <1>4 DEF Allocated

LEMMA UsableStep ==
    ASSUME RegistryInv, Usable, registry' \in [Hives -> Values],
           data_source_callbacks' \in [DOMAIN data_source_callbacks -> Callbacks],
           calibration_values' \in [DOMAIN data_source_callbacks -> Byte],
           acknowledged' \subseteq (DOMAIN data_source_callbacks) \X Kinds,
           UNCHANGED <<registry_key, channel_count, stage, next>>
    PROVE  (TypeOK /\ OffInv /\ LoadingInv)'
<1>1. PICK n \in {0, channel_count} :
          (n = channel_count \/ stage = "failed") /\ Allocated(n)
    BY UsableFacts
<1>2. DOMAIN data_source_callbacks = 0..(n - 1)
    BY <1>1 DEF Allocated
<1>3. acknowledged' \subseteq Settings
    BY UsableFacts DEF Settings, Kinds
<1> QED
    BY <1>1, <1>2, <1>3
    DEF RegistryInv, TypeOK, OffInv, LoadingInv, Loading, Usable, Values

LEMMA SetSourceStep ==
    ASSUME RegistryInv, NEW c \in DOMAIN data_source_callbacks, NEW name \in Names,
           NEW written \in BOOLEAN, set_channel_source_binding(c, name, written)
    PROVE  RegistryInv'
<1> DEFINE saved == written /\ registry_key # NoKey
           all == DOMAIN data_source_callbacks
<1>0. /\ Usable /\ c \in Channel /\ all \subseteq Channel
      /\ registry \in [Hives -> Values]
      /\ data_source_callbacks \in [all -> Callbacks]
      /\ calibration_values \in [all -> Byte]
    BY UsableFacts DEF set_channel_source_binding
<1>1. /\ data_source_callbacks' =
            [data_source_callbacks EXCEPT ![c] = name_string_to_callback(name)]
      /\ data_source_callbacks' \in [all -> Callbacks]
      /\ UNCHANGED <<registry_key, channel_count, calibration_values, stage, next>>
    BY <1>0, CallbackType DEF set_channel_source_binding
<1>2. IF saved
      THEN /\ registry' = [registry EXCEPT ![registry_key].channel[c] = name]
           /\ acknowledged' = acknowledged \cup {<<c, "channel">>}
      ELSE /\ registry' = registry
           /\ acknowledged' = acknowledged \ {<<c, "channel">>}
    BY DEF set_channel_source_binding, Verdict
<1>3. /\ registry' \in [Hives -> Values]
      /\ Here'.calibration = Here.calibration
      /\ saved => Here'.channel[c] = name /\ Readable(name)
      /\ \A d \in Channel \ {c} : Here'.channel[d] = Here.channel[d]
    <2>1. CASE saved
        BY <1>0, <1>1, <1>2, <2>1, ChannelWritten
    <2>2. CASE ~saved
        BY <1>0, <1>1, <1>2, <2>2 DEF Here
    <2> QED
        BY <2>1, <2>2
<1>4. acknowledged' \subseteq all \X Kinds
    BY <1>2 DEF RegistryInv, AcknowledgedInv, Kinds
<1>5. (TypeOK /\ OffInv /\ LoadingInv)'
    BY <1>0, <1>1, <1>3, <1>4, UsableStep
<1>6. AcknowledgedInv'
    <2>1. acknowledged' # {} => registry_key' # NoKey
        BY <1>1, <1>2 DEF RegistryInv, AcknowledgedInv
    <2>2. ASSUME NEW d \in Channel, <<d, "channel">> \in acknowledged'
          PROVE  /\ Readable(Here'.channel[d])
                 /\ data_source_callbacks'[d] \in
                       {"NULL", name_string_to_callback(Here'.channel[d])}
        <3>1. CASE d = c
            <4>1. saved
                BY <1>2, <2>2, <3>1
            <4> QED
                BY <1>0, <1>1, <1>3, <3>1, <4>1
        <3>2. CASE d # c
            <4>1. <<d, "channel">> \in acknowledged /\ d \in all
                BY <1>2, <1>4, <2>2, <3>2
            <4>2. data_source_callbacks'[d] = data_source_callbacks[d]
                BY <1>0, <1>1, <3>2, <4>1
            <4> QED
                BY <1>3, <3>2, <4>1, <4>2 DEF RegistryInv, AcknowledgedInv
        <3> QED
            BY <3>1, <3>2
    <2>3. ASSUME NEW d \in Channel, <<d, "calibration">> \in acknowledged'
          PROVE  /\ Readable(Here'.calibration[d])
                 /\ calibration_values'[d] = AsByte(Here'.calibration[d])
        <3>1. <<d, "calibration">> \in acknowledged
            BY <1>2, <2>3
        <3> QED
            BY <1>1, <1>3, <3>1 DEF RegistryInv, AcknowledgedInv
    <2>4. DOMAIN data_source_callbacks' = all
        BY <1>1
    <2> QED
        BY <1>4, <2>1, <2>2, <2>3, <2>4 DEF AcknowledgedInv
<1> QED
    BY <1>5, <1>6 DEF RegistryInv

LEMMA SetCalibrationStep ==
    ASSUME RegistryInv, NEW c \in DOMAIN data_source_callbacks, NEW v \in Byte,
           NEW written \in BOOLEAN, set_channel_calibration(c, v, written)
    PROVE  RegistryInv'
<1> DEFINE saved == written /\ registry_key # NoKey
           all == DOMAIN data_source_callbacks
<1>0. /\ Usable /\ c \in Channel /\ all \subseteq Channel
      /\ registry \in [Hives -> Values]
      /\ data_source_callbacks \in [all -> Callbacks]
      /\ calibration_values \in [all -> Byte]
    BY UsableFacts DEF set_channel_calibration
<1>1. /\ calibration_values' = [calibration_values EXCEPT ![c] = v]
      /\ calibration_values' \in [all -> Byte]
      /\ UNCHANGED <<registry_key, channel_count, data_source_callbacks, stage, next>>
    BY <1>0 DEF set_channel_calibration
<1>2. IF saved
      THEN /\ registry' = [registry EXCEPT ![registry_key].calibration[c] = v]
           /\ acknowledged' = acknowledged \cup {<<c, "calibration">>}
      ELSE /\ registry' = registry
           /\ acknowledged' = acknowledged \ {<<c, "calibration">>}
    BY DEF set_channel_calibration, Verdict
<1>3. /\ registry' \in [Hives -> Values]
      /\ Here'.channel = Here.channel
      /\ saved => Here'.calibration[c] = v /\ Readable(v) /\ AsByte(v) = v
      /\ \A d \in Channel \ {c} : Here'.calibration[d] = Here.calibration[d]
    <2>1. CASE saved
        BY <1>0, <1>1, <1>2, <2>1, CalibrationWritten
    <2>2. CASE ~saved
        BY <1>0, <1>1, <1>2, <2>2 DEF Here
    <2> QED
        BY <2>1, <2>2
<1>4. acknowledged' \subseteq all \X Kinds
    BY <1>2 DEF RegistryInv, AcknowledgedInv, Kinds
<1>5. (TypeOK /\ OffInv /\ LoadingInv)'
    BY <1>0, <1>1, <1>3, <1>4, UsableStep
<1>6. AcknowledgedInv'
    <2>1. acknowledged' # {} => registry_key' # NoKey
        BY <1>1, <1>2 DEF RegistryInv, AcknowledgedInv
    <2>2. ASSUME NEW d \in Channel, <<d, "calibration">> \in acknowledged'
          PROVE  /\ Readable(Here'.calibration[d])
                 /\ calibration_values'[d] = AsByte(Here'.calibration[d])
        <3>1. CASE d = c
            <4>1. saved
                BY <1>2, <2>2, <3>1
            <4> QED
                BY <1>0, <1>1, <1>3, <3>1, <4>1
        <3>2. CASE d # c
            <4>1. <<d, "calibration">> \in acknowledged /\ d \in all
                BY <1>2, <1>4, <2>2, <3>2
            <4>2. calibration_values'[d] = calibration_values[d]
                BY <1>0, <1>1, <3>2, <4>1
            <4> QED
                BY <1>3, <3>2, <4>1, <4>2 DEF RegistryInv, AcknowledgedInv
        <3> QED
            BY <3>1, <3>2
    <2>3. ASSUME NEW d \in Channel, <<d, "channel">> \in acknowledged'
          PROVE  /\ Readable(Here'.channel[d])
                 /\ data_source_callbacks'[d] \in
                       {"NULL", name_string_to_callback(Here'.channel[d])}
        <3>1. <<d, "channel">> \in acknowledged
            BY <1>2, <2>3
        <3> QED
            BY <1>1, <1>3, <3>1 DEF RegistryInv, AcknowledgedInv
    <2> QED
        BY <1>1, <1>4, <2>1, <2>2, <2>3 DEF AcknowledgedInv
<1> QED
    BY <1>5, <1>6 DEF RegistryInv

LEMMA ClearBindingStep ==
    ASSUME RegistryInv, NEW c \in DOMAIN data_source_callbacks, clear_binding(c)
    PROVE  RegistryInv'
<1> DEFINE all == DOMAIN data_source_callbacks
<1>0. /\ Usable /\ c \in Channel
      /\ registry \in [Hives -> Values]
      /\ data_source_callbacks \in [all -> Callbacks]
      /\ calibration_values \in [all -> Byte]
    BY UsableFacts DEF clear_binding
<1>1. /\ data_source_callbacks' = [data_source_callbacks EXCEPT ![c] = "NULL"]
      /\ data_source_callbacks' \in [all -> Callbacks]
      /\ UNCHANGED <<registry, registry_key, channel_count, calibration_values, stage,
                     next, acknowledged>>
      /\ Here' = Here
    BY <1>0 DEF clear_binding, Callbacks, Here
<1>2. (TypeOK /\ OffInv /\ LoadingInv)'
    BY <1>0, <1>1, UsableStep DEF RegistryInv, AcknowledgedInv
<1>3. \A d \in all : data_source_callbacks'[d] \in {"NULL", data_source_callbacks[d]}
    BY <1>0, <1>1
<1>4. \A d \in Channel : <<d, "channel">> \in acknowledged => d \in all
    BY DEF RegistryInv, AcknowledgedInv
<1>5. AcknowledgedInv'
    BY <1>1, <1>3, <1>4 DEF RegistryInv, AcknowledgedInv
<1> QED
    BY <1>2, <1>5 DEF RegistryInv

LEMMA ProcessEndsStep ==
    ASSUME RegistryInv, ProcessEnds
    PROVE  RegistryInv'
<1>1. Allocated(0)' /\ channel_count' = 0 /\ registry' = registry
    BY DEF ProcessEnds, Allocated
<1>2. TypeOK'
    BY <1>1, ChannelsAssumption DEF ProcessEnds, RegistryInv, TypeOK, Allocated
<1> QED
    BY <1>1, <1>2 DEF ProcessEnds, RegistryInv, OffInv, LoadingInv, Loading,
       AcknowledgedInv

LEMMA NextRegistryInv ==
    ASSUME RegistryInv, [Next]_vars
    PROVE  RegistryInv'
<1>1. CASE \E n \in 0..MaxChannels : AllocateTables(n) \/ AllocationFails(n)
    BY <1>1, AllocateTablesStep, AllocationFailsStep
<1>2. CASE LoadStep
    BY <1>2, OpenKeyStep, ReadBindingStep, ReplaceBindingStep, ReadCalibrationStep,
       AddCalibrationStep DEF LoadStep
<1>3. CASE Change
    <2>1. ASSUME NEW c \in DOMAIN data_source_callbacks, NEW v \in Positions(c),
                 NEW written \in BOOLEAN, set_channel_calibration(c, v, written)
          PROVE  RegistryInv'
        <3>1. v \in Byte
            BY <2>1, UsableFacts, CalibrationsAssumption
            DEF set_channel_calibration, Positions
        <3> QED
            BY <2>1, <3>1, SetCalibrationStep
    <2> QED
        BY <1>3, <2>1, SetSourceStep, ClearBindingStep DEF Change
<1>4. CASE ProcessEnds
    BY <1>4, ProcessEndsStep
<1>5. CASE UNCHANGED vars
    BY <1>5 DEF vars, RegistryInv, TypeOK, OffInv, LoadingInv, AcknowledgedInv, Loading,
       BoundChannels, CalibratedChannels, Live, Here, Allocated
<1> QED
    BY <1>1, <1>2, <1>3, <1>4, <1>5 DEF Next

---------------------------------------------------------------------------
(* Theorems                                                                *)

(* The inductive invariant holds in every reachable state.                 *)
THEOREM RegistryInvariance == RegistrySafety => []RegistryInv
<1> QED
    BY InitRegistryInv, NextRegistryInv, PTL DEF RegistrySafety

(* Type correctness; in particular a table that is there has an element    *)
(* for every channel, and every element is of the type the main loop calls *)
(* or multiplies.                                                          *)
THEOREM RegistryTypeCorrectness == RegistrySafety => []TypeOK
<1>1. RegistryInv => TypeOK
    BY DEF RegistryInv
<1> QED
    BY <1>1, RegistryInvariance, PTL

(* What was loaded, or stored since, is what a later start loads, for      *)
(* every content of the registry, every sequence of changes and whichever  *)
(* of the writes fail, after a start that failed as well.                  *)
THEOREM RegistrySettingsDurable == RegistrySafety => []RestartRestores
<1>1. RegistryInv => RestartRestores
    BY DEF RegistryInv, AcknowledgedInv, RestartRestores
<1> QED
    BY <1>1, RegistryInvariance, PTL

(* What a step of a start does to the registry: nothing, or one write.     *)
LEMMA LoadWrites ==
    ASSUME RegistryInv, Loading, [Next]_vars
    PROVE  \/ registry' = registry
           \/ /\ registry_key \in Hives /\ next \in Channel
              /\ ~Readable(Here.channel[next])
              /\ registry' = [registry EXCEPT
                                 ![registry_key].channel[next] = "Unallocated"]
           \/ /\ registry_key \in Hives /\ next \in BoundChannels /\ next \in Channel
              /\ ~Readable(Here.calibration[next])
              /\ registry' = [registry EXCEPT
                                 ![registry_key].calibration[next] =
                                    MissingCalibration(Here.channel[next])]
<1>1. stage \in {"binding", "calibration"} /\ next \in Channel /\ next \in Live
    BY LoadingFacts DEF Loading
<1>2. registry_key # NoKey => registry_key \in Hives
    BY LoadingFacts
<1>3. ASSUME NEW written \in BOOLEAN, AddCalibration(written)
      PROVE  registry_key # NoKey /\ next \in BoundChannels
    BY <1>1, <1>3 DEF AddCalibration, RegistryInv, LoadingInv, BoundChannels
<1>4. CASE LoadStep
    BY <1>1, <1>2, <1>3, <1>4
    DEF LoadStep, OpenKey, ReadBinding, ReplaceBinding, ReadCalibration, AddCalibration
<1>5. CASE ~LoadStep
    BY <1>1, <1>5 DEF Next, AllocateTables, AllocationFails, Change,
       set_channel_source_binding, clear_binding, set_channel_calibration, Usable,
       ProcessEnds, vars
<1> QED
    BY <1>4, <1>5

(* A start replaces only what it cannot read, and works in one key.        *)
THEOREM StartKeepsTheRegistry == RegistrySafety => StartupKeepsSettings
<1> DEFINE Kept(h, c) ==
              /\ \/ registry'[h].channel[c] = registry[h].channel[c]
                 \/ /\ h = registry_key
                    /\ ~Readable(registry[h].channel[c])
                    /\ registry'[h].channel[c] = "Unallocated"
              /\ \/ registry'[h].calibration[c] = registry[h].calibration[c]
                 \/ /\ h = registry_key
                    /\ ~Readable(registry[h].calibration[c])
<1>1. ASSUME RegistryInv, [Next]_vars, Loading, NEW h \in Hives, NEW c \in Channel
      PROVE  Kept(h, c)
    <2>1. registry \in [Hives -> Values]
        BY <1>1 DEF RegistryInv, TypeOK, Values
    <2>2. CASE registry' = registry
        BY <2>2
    <2>3. CASE /\ registry_key \in Hives /\ next \in Channel
               /\ ~Readable(Here.channel[next])
               /\ registry' = [registry EXCEPT
                                  ![registry_key].channel[next] = "Unallocated"]
        BY <2>1, <2>3 DEF Values, Here
    <2>4. CASE /\ registry_key \in Hives /\ next \in Channel
               /\ ~Readable(Here.calibration[next])
               /\ registry' = [registry EXCEPT
                                  ![registry_key].calibration[next] =
                                     MissingCalibration(Here.channel[next])]
        BY <2>1, <2>4 DEF Values, Here
    <2> QED
        BY <1>1, <2>2, <2>3, <2>4, LoadWrites
<1>2. RegistryInv /\ [Next]_vars =>
         (Loading => \A h \in Hives, c \in Channel : Kept(h, c))
    BY <1>1
<1> QED
    BY <1>2, RegistryInvariance, PTL DEF RegistrySafety, StartupKeepsSettings

(* What a start supplies itself is half scale at most, except for a        *)
(* channel bound to the calibration source.                                *)
THEOREM SuppliedIsHalfScale == RegistrySafety => SuppliedCalibrationIsSafe
<1> DEFINE Safe(h, c) ==
              (Loading /\ ~Readable(registry[h].calibration[c])
                 /\ Readable(registry'[h].calibration[c])) =>
                    \/ registry'[h].calibration[c] <= DefaultCalibration
                    \/ data_source_callbacks[c] = "data_source_calibration"
<1>1. ASSUME RegistryInv, [Next]_vars, Loading, NEW h \in Hives, NEW c \in Channel,
             ~Readable(registry[h].calibration[c]),
             Readable(registry'[h].calibration[c])
      PROVE  \/ registry'[h].calibration[c] <= DefaultCalibration
             \/ data_source_callbacks[c] = "data_source_calibration"
    <2>1. registry \in [Hives -> Values]
        BY <1>1 DEF RegistryInv, TypeOK, Values
    <2>2. CASE registry' = registry
        BY <1>1, <2>2
    <2>3. CASE /\ registry_key \in Hives /\ next \in Channel
               /\ registry' = [registry EXCEPT
                                  ![registry_key].channel[next] = "Unallocated"]
        BY <1>1, <2>1, <2>3 DEF Values
    <2>4. CASE /\ registry_key \in Hives /\ next \in BoundChannels /\ next \in Channel
               /\ ~Readable(Here.calibration[next])
               /\ registry' = [registry EXCEPT
                                  ![registry_key].calibration[next] =
                                     MissingCalibration(Here.channel[next])]
        <3>1. h = registry_key /\ c = next
            BY <1>1, <2>1, <2>4 DEF Values
        <3>2. registry'[h].calibration[c] = MissingCalibration(Here.channel[next])
            BY <2>1, <2>4, <3>1 DEF Values
        <3>3. data_source_callbacks[c] = name_string_to_callback(Here.channel[next])
            BY <1>1, <2>4, <3>1 DEF RegistryInv, LoadingInv
        <3>4. CASE Here.channel[next] = "Calibration"
            BY <3>3, <3>4, NamedCallbacks
        <3>5. CASE Here.channel[next] # "Calibration"
            BY <3>2, <3>5 DEF MissingCalibration, DefaultCalibration
        <3> QED
            BY <3>4, <3>5
    <2> QED
        BY <1>1, <2>2, <2>3, <2>4, LoadWrites
<1>2. RegistryInv /\ [Next]_vars => \A h \in Hives, c \in Channel : Safe(h, c)
    BY <1>1
<1> QED
    BY <1>2, RegistryInvariance, PTL DEF RegistrySafety, SuppliedCalibrationIsSafe

---------------------------------------------------------------------------
(***************************************************************************)
(* The Windows settings keep the contract of SettingsContract, for any     *)
(* number of channels, any content of the registry and any outcome of each *)
(* write: every step of RegistryConfig is a step of the contract or none,  *)
(* those of programs that go on after a failed start included.             *)
(***************************************************************************)

all == (DOMAIN data_source_callbacks) \X Kinds

(* Outside a start, what is known are the acknowledged settings, and what  *)
(* is in force is in the tables; during one, neither is there.             *)
LEMMA Mapped ==
    /\ Usable =>
          /\ Known = [s \in acknowledged |-> Effective(Here, s)]
          /\ InForce = [s \in all |-> IF s[2] = "channel" THEN data_source_callbacks[s[1]]
                                                          ELSE calibration_values[s[1]]]
          /\ Mode # "off"
    /\ ~Usable => Known = Contract!Nothing /\ InForce = Contract!Nothing /\ Mode = "off"
BY DEF Known, InForce, Mode, Usable, Contract!Nothing, all, Kinds

(* A key that can be opened can be read.                                   *)
LEMMA KeysReadable ==
    \A h \in Hives : Saved[h] # Contract!Nothing
<1>1. <<0, "channel">> \in Settings
    BY ChannelsAssumption DEF Settings, Channel
<1> QED
    BY <1>1 DEF Saved, Contract!Nothing

LEMMA SavedKept ==
    ASSUME \A h \in Hives, c \in Channel, k \in Kinds :
              Effective(registry'[h], <<c, k>>) = Effective(registry[h], <<c, k>>)
    PROVE  Saved' = Saved
<1>1. ASSUME NEW h \in Hives, NEW s \in Settings
      PROVE  Effective(registry'[h], s) = Effective(registry[h], s)
    <2>1. PICK c \in Channel, k \in Kinds : s = <<c, k>>
        BY DEF Settings, Kinds
    <2> QED
        BY <2>1
<1>2. \A h \in Hives : [s \in Settings |-> Effective(registry'[h], s)]
                          = [s \in Settings |-> Effective(registry[h], s)]
    BY <1>1
<1> QED
    BY <1>2 DEF Saved

(* What a start would make of the registry stays the same as a start       *)
(* writes its defaults: an unreadable name has no source and counts as no  *)
(* binding to calibration, and what is written for a calibration is what   *)
(* its absence stood for.                                                  *)
LEMMA LoadKeepsSaved ==
    ASSUME RegistryInv, Loading, [Next]_vars
    PROVE  Saved' = Saved
<1>1. registry \in [Hives -> Values]
    BY DEF RegistryInv, TypeOK, Values
<1>2. CASE registry' = registry
    BY <1>2 DEF Saved
<1>3. CASE /\ registry_key \in Hives /\ next \in Channel
           /\ ~Readable(Here.channel[next])
           /\ registry' = [registry EXCEPT ![registry_key].channel[next] = "Unallocated"]
    <2>1. ASSUME NEW h \in Hives, NEW c \in Channel, NEW k \in Kinds
          PROVE  Effective(registry'[h], <<c, k>>) = Effective(registry[h], <<c, k>>)
        <3>1. registry'[h].calibration[c] = registry[h].calibration[c]
            BY <1>1, <1>3 DEF Values
        <3>2. CASE h = registry_key /\ c = next
            <4>1. registry'[h].channel[c] = "Unallocated" /\ Readable("Unallocated")
                BY <1>1, <1>3, <3>2, NamesAssumption, SentinelAssumption
                DEF Values, Readable
            <4>2. /\ ~Readable(registry[h].channel[c])
                  /\ registry[h].channel[c] # "Calibration"
                BY <1>3, <3>2, NamesAssumption, SentinelAssumption DEF Here, Readable
            <4> QED
                BY <3>1, <4>1, <4>2, NamedCallbacks DEF Effective, MissingCalibration
        <3>3. CASE h # registry_key \/ c # next
            <4>1. registry'[h].channel[c] = registry[h].channel[c]
                BY <1>1, <1>3, <3>3 DEF Values
            <4> QED
                BY <3>1, <4>1 DEF Effective
        <3> QED
            BY <3>2, <3>3
    <2> QED
        BY <2>1, SavedKept
<1>4. CASE /\ registry_key \in Hives /\ next \in Channel
           /\ ~Readable(Here.calibration[next])
           /\ registry' = [registry EXCEPT ![registry_key].calibration[next] =
                                              MissingCalibration(Here.channel[next])]
    <2>1. ASSUME NEW h \in Hives, NEW c \in Channel, NEW k \in Kinds
          PROVE  Effective(registry'[h], <<c, k>>) = Effective(registry[h], <<c, k>>)
        <3>1. registry'[h].channel[c] = registry[h].channel[c]
            BY <1>1, <1>4 DEF Values
        <3>2. CASE h = registry_key /\ c = next
            <4> DEFINE default == MissingCalibration(registry[h].channel[c])
            <4>1. /\ registry'[h].calibration[c] = default
                  /\ ~Readable(registry[h].calibration[c])
                BY <1>1, <1>4, <3>2 DEF Values, Here
            <4>2. Readable(default) /\ AsByte(default) = default
                <5>1. default \in {128, 255}
                    BY DEF MissingCalibration, DefaultCalibration
                <5> HIDE DEF default
                <5> QED
                    BY <5>1, NamesAssumption, SentinelAssumption DEF AsByte, Readable
            <4> HIDE DEF default
            <4>3. Effective(registry'[h], <<c, "calibration">>) = default
                BY <4>1, <4>2 DEF Effective
            <4>4. Effective(registry[h], <<c, "calibration">>) = default
                BY <4>1 DEF Effective, default
            <4>5. Effective(registry'[h], <<c, "channel">>)
                     = Effective(registry[h], <<c, "channel">>)
                BY <3>1 DEF Effective
            <4> QED
                BY <4>3, <4>4, <4>5 DEF Kinds
        <3>3. CASE h # registry_key \/ c # next
            <4>1. registry'[h].calibration[c] = registry[h].calibration[c]
                BY <1>1, <1>4, <3>3 DEF Values
            <4> QED
                BY <3>1, <4>1 DEF Effective
        <3> QED
            BY <3>2, <3>3
    <2> QED
        BY <2>1, SavedKept
<1> QED
    BY <1>2, <1>3, <1>4, LoadWrites

(* A step of a start that is not its last.                                 *)
LEMMA StartingStep ==
    ASSUME ~Usable, ~Usable', Saved' = Saved
    PROVE  [Contract!Next]_Contract!vars
<1>1. /\ Known = Contract!Nothing /\ InForce = Contract!Nothing /\ Mode = "off"
      /\ Known' = Contract!Nothing /\ InForce' = Contract!Nothing /\ Mode' = "off"
    BY DEF Known, InForce, Mode, Usable, Contract!Nothing
<1>2. Contract!Starting
    BY <1>1 DEF Contract!Starting
<1> QED
    BY <1>2 DEF Contract!Next

(* A start's last step: what it got as far as loading is in force.         *)
LEMMA StartStep ==
    ASSUME ~Usable, Usable', Saved' = Saved, RegistryInv',
           \A c \in Channel : <<c, "channel">> \in acknowledged' =>
              data_source_callbacks'[c] = name_string_to_callback(Here'.channel[c]),
           stage' = "ready" => all' \subseteq acknowledged'
    PROVE  Contract!Next
<1>1. Known = Contract!Nothing /\ InForce = Contract!Nothing /\ Mode = "off"
    BY Mapped
<1>2. /\ DOMAIN Known' = acknowledged' /\ DOMAIN InForce' = all'
      /\ \A s \in acknowledged' : Known'[s] = Effective(Here', s)
      /\ \A s \in all' : InForce'[s] = IF s[2] = "channel" THEN data_source_callbacks'[s[1]]
                                                           ELSE calibration_values'[s[1]]
      /\ Mode' \in {"whole", "partial"}
      /\ Mode' = "whole" => stage' = "ready"
    BY DEF Known, InForce, Mode, Usable, all, Kinds
<1>3. /\ acknowledged' \subseteq Settings /\ acknowledged' \subseteq all'
      /\ all' \subseteq Settings
      /\ acknowledged' # {} => registry_key' \in Hives
    <2>1. DOMAIN data_source_callbacks' \subseteq Channel
        <3>1. PICK n \in {0, channel_count'} : data_source_callbacks' \in [0..(n - 1) -> Callbacks]
            BY DEF RegistryInv, TypeOK
        <3>2. n <= MaxChannels /\ n \in Int
            BY ChannelsAssumption DEF RegistryInv, TypeOK
        <3> QED
            BY <3>1, <3>2, ChannelsAssumption DEF Channel
    <2> QED
        BY <2>1 DEF RegistryInv, TypeOK, AcknowledgedInv, Settings, all, Kinds
<1>4. ASSUME NEW s \in acknowledged'
      PROVE  Saved[registry_key'] # Contract!Nothing /\ Known'[s] = Saved[registry_key'][s]
    <2>1. registry_key' \in Hives /\ s \in Settings
        BY <1>3
    <2>2. Saved'[registry_key'][s] = Effective(Here', s)
        BY <2>1 DEF Saved, Here
    <2> QED
        BY <1>2, <2>1, <2>2, KeysReadable
<1>5. ASSUME NEW s \in acknowledged'
      PROVE  InForce'[s] = Known'[s]
    <2>1. PICK c \in Channel, k \in Kinds : s = <<c, k>>
        BY <1>3 DEF Settings, Kinds
    <2>2. CASE k = "channel"
        <3>1. Readable(Here'.channel[c])
            BY <2>1, <2>2 DEF RegistryInv, AcknowledgedInv
        <3> QED
            BY <1>2, <1>3, <2>1, <2>2, <3>1 DEF Effective
    <2>3. CASE k = "calibration"
        <3>1. /\ Readable(Here'.calibration[c])
              /\ calibration_values'[c] = AsByte(Here'.calibration[c])
            BY <2>1, <2>3 DEF RegistryInv, AcknowledgedInv
        <3> QED
            BY <1>2, <1>3, <2>1, <2>3, <3>1 DEF Effective
    <2> QED
        BY <2>2, <2>3 DEF Kinds
<1>6. registry_key' \in Hives \/ Known' = Contract!Nothing
    <2>1. acknowledged' = {} => Known' = Contract!Nothing
        BY DEF Known, Contract!Nothing
    <2> QED
        BY <1>3, <2>1
<1>7. Contract!Start
    <2>1. Mode' = "whole" => DOMAIN InForce' \subseteq DOMAIN Known'
        BY <1>2
    <2>2. \A s \in DOMAIN InForce' : s \in DOMAIN Known' => InForce'[s] = Known'[s]
        BY <1>2, <1>5
    <2>3. \A s \in DOMAIN Known' :
             Saved[registry_key'] # Contract!Nothing /\ Known'[s] = Saved[registry_key'][s]
        BY <1>2, <1>4
    <2>4. Mode = "off" /\ Mode' \in {"whole", "partial"}
        BY <1>1, <1>2
    <2>5. DOMAIN Known' \subseteq Settings /\ DOMAIN InForce' \subseteq Settings
        BY <1>2, <1>3
    <2> QED
        BY <1>6, <2>1, <2>2, <2>3, <2>4, <2>5 DEF Contract!Start
<1> QED
    BY <1>7 DEF Contract!Next

LEMMA LoadMapped ==
    ASSUME RegistryInv, RegistryInv', LoadStep
    PROVE  [Contract!Next]_Contract!vars
<1>1. Loading /\ ~Usable
    BY DEF LoadStep, OpenKey, ReadBinding, ReplaceBinding, ReadCalibration,
       AddCalibration, Loading, Usable
<1>2. Saved' = Saved
    BY <1>1, LoadKeepsSaved DEF Next
<1>3. \A c \in Channel : <<c, "channel">> \in acknowledged =>
         data_source_callbacks[c] = name_string_to_callback(Here.channel[c])
    BY <1>1 DEF RegistryInv, LoadingInv
<1>4. CASE ~Usable'
    BY <1>1, <1>2, <1>4, StartingStep
<1>5. CASE Usable' /\ UNCHANGED <<registry, registry_key, data_source_callbacks,
                                 acknowledged>> /\ stage' = "failed"
    <2>1. \A c \in Channel : <<c, "channel">> \in acknowledged' =>
             data_source_callbacks'[c] = name_string_to_callback(Here'.channel[c])
        BY <1>3, <1>5 DEF Here
    <2> QED
        BY <1>1, <1>2, <1>5, <2>1, StartStep
<1>6. CASE stage' = "ready" /\ (ReadCalibration \/ AddCalibration(TRUE))
    <2>1. /\ BoundChannels = Live /\ CalibratedChannels' = Live
          /\ Live' = Live /\ BoundChannels' = BoundChannels
          /\ acknowledged' = (BoundChannels' \X {"channel"})
                                \cup (CalibratedChannels' \X {"calibration"})
        BY <1>6, ReadCalibrationStep, AddCalibrationStep
    <2>2. DOMAIN data_source_callbacks' = Live
        BY <1>1, <1>6, LoadingFacts DEF ReadCalibration, AddCalibration
    <2>3. all' \subseteq acknowledged'
        BY <2>1, <2>2 DEF all, Kinds
    <2>4. \A c \in Live : data_source_callbacks'[c] = name_string_to_callback(Here'.channel[c])
        <3>1. data_source_callbacks' = data_source_callbacks /\ Here'.channel = Here.channel
            <4>1. CASE ReadCalibration
                BY <4>1 DEF ReadCalibration, Here
            <4>2. CASE AddCalibration(TRUE)
                <5>1. registry_key # NoKey /\ next \in Channel
                    BY <1>1, <4>2, LoadingFacts DEF AddCalibration, RegistryInv, LoadingInv
                <5>2. MissingCalibration(Here.channel[next]) \in Byte
                    BY DEF MissingCalibration, DefaultCalibration, Byte
                <5> QED
                    BY <4>2, <5>1, <5>2, CalibrationWritten DEF AddCalibration
            <4> QED
                BY <1>6, <4>1, <4>2
        <3> QED
            BY <1>1, <2>1, <3>1 DEF RegistryInv, LoadingInv
    <2>5. \A c \in Channel : <<c, "channel">> \in acknowledged' =>
             data_source_callbacks'[c] = name_string_to_callback(Here'.channel[c])
        BY <2>1, <2>4
    <2>6. Usable'
        BY <1>6 DEF Usable
    <2>7. Contract!Next
        BY <1>1, <1>2, <2>3, <2>5, <2>6, StartStep
    <2> QED
        BY <2>7
<1>7. \/ ~Usable'
      \/ Usable' /\ UNCHANGED <<registry, registry_key, data_source_callbacks,
                                acknowledged>> /\ stage' = "failed"
      \/ stage' = "ready" /\ (ReadCalibration \/ AddCalibration(TRUE))
    BY DEF LoadStep, OpenKey, ReadBinding, ReplaceBinding, ReadCalibration,
       AddCalibration, NextChannel, Usable
<1> QED
    BY <1>4, <1>5, <1>6, <1>7

---------------------------------------------------------------------------
(* A set call: the table gets the value, and the setting counts as         *)
(* acknowledged if the key gets it too.                                    *)
LEMMA ChangeStep ==
    ASSUME RegistryInv, RegistryInv', Usable,
           UNCHANGED <<stage, registry_key>>,
           NEW c \in DOMAIN data_source_callbacks, NEW kind \in Kinds,
           DOMAIN data_source_callbacks' = DOMAIN data_source_callbacks,
           \A h \in Hives \ {registry_key} : registry'[h] = registry[h],
           \A s \in acknowledged \ {<<c, kind>>} : Effective(Here', s) = Effective(Here, s),
           \A s \in all \ {<<c, kind>>} : InForce'[s] = InForce[s],
           \/ /\ acknowledged' = acknowledged \cup {<<c, kind>>}
              /\ InForce'[<<c, kind>>] = Effective(Here', <<c, kind>>)
           \/ acknowledged' = acknowledged \ {<<c, kind>>}
    PROVE  Contract!Next
<1> DEFINE setting == <<c, kind>>
<1>1. /\ Usable' /\ all' = all /\ setting \in all /\ Mode' = Mode /\ Mode # "off"
    BY Mapped DEF Usable, all, Mode
<1>2. /\ DOMAIN Known = acknowledged /\ DOMAIN Known' = acknowledged'
      /\ \A s \in acknowledged : Known[s] = Effective(Here, s)
      /\ \A s \in acknowledged' : Known'[s] = Effective(Here', s)
      /\ DOMAIN InForce = all /\ DOMAIN InForce' = all
    BY <1>1 DEF Known, InForce, all, Kinds
<1>3. Contract!SameBut(setting, Known, Known') /\ Contract!SameBut(setting, InForce, InForce')
    BY <1>2 DEF Contract!SameBut
<1>4. /\ acknowledged' \subseteq Settings
      /\ acknowledged' # {} => registry_key' \in Hives
    BY DEF RegistryInv, TypeOK, AcknowledgedInv
<1>5. registry_key \in Hives => Contract!Holds(Saved'[registry_key], Known')
    <2>1. ASSUME registry_key \in Hives, NEW s \in acknowledged'
          PROVE  Saved'[registry_key][s] = Known'[s]
        BY <1>2, <1>4, <2>1 DEF Saved, Here
    <2> QED
        BY <1>2, <2>1 DEF Contract!Holds
<1>6. Contract!OnlyStoreChanges
    BY DEF Contract!OnlyStoreChanges, Saved
<1>7. CASE acknowledged' = acknowledged \ {setting}
    <2>1. Contract!Refuse(setting)
        BY <1>1, <1>2, <1>3, <1>5, <1>6, <1>7 DEF Contract!Refuse
    <2> QED
        BY <1>1, <1>2, <2>1 DEF Contract!Next
<1>8. CASE /\ acknowledged' = acknowledged \cup {setting}
           /\ InForce'[setting] = Effective(Here', setting)
    <2>1. registry_key \in Hives /\ Saved'[registry_key] # Contract!Nothing
        <3>1. registry_key \in Hives
            BY <1>4, <1>8
        <3>2. <<0, "channel">> \in Settings
            BY ChannelsAssumption DEF Settings, Channel
        <3> QED
            BY <3>1, <3>2 DEF Saved, Contract!Nothing
    <2>2. setting \in DOMAIN Known' /\ Known'[setting] = InForce'[setting]
        BY <1>2, <1>8
    <2>3. Contract!Acknowledge(setting)
        BY <1>1, <1>2, <1>3, <1>5, <1>6, <2>1, <2>2 DEF Contract!Acknowledge
    <2> QED
        BY <1>1, <1>2, <2>3 DEF Contract!Next
<1> QED
    BY <1>7, <1>8

LEMMA SetSourceMapped ==
    ASSUME RegistryInv, RegistryInv', NEW c \in DOMAIN data_source_callbacks,
           NEW name \in Names, NEW written \in BOOLEAN,
           set_channel_source_binding(c, name, written)
    PROVE  Contract!Next
<1> DEFINE setting == <<c, "channel">>
           saved == written /\ registry_key # NoKey
<1>0. /\ Usable /\ c \in Channel /\ DOMAIN data_source_callbacks \subseteq Channel
      /\ UNCHANGED <<stage, registry_key, calibration_values>>
      /\ data_source_callbacks' =
            [data_source_callbacks EXCEPT ![c] = name_string_to_callback(name)]
    BY UsableFacts DEF set_channel_source_binding
<1>1. IF saved
      THEN /\ registry' = [registry EXCEPT ![registry_key].channel[c] = name]
           /\ acknowledged' = acknowledged \cup {setting}
      ELSE /\ registry' = registry
           /\ acknowledged' = acknowledged \ {setting}
    BY DEF set_channel_source_binding, Verdict
<1>2. /\ Here'.calibration = Here.calibration
      /\ saved => Here'.channel[c] = name /\ Readable(name)
      /\ \A d \in Channel \ {c} : Here'.channel[d] = Here.channel[d]
      /\ \A h \in Hives \ {registry_key} : registry'[h] = registry[h]
    <2>1. CASE saved
        BY <1>0, <1>1, <2>1, ChannelWritten
    <2>2. CASE ~saved
        BY <1>0, <1>1, <2>2 DEF Here
    <2> QED
        BY <2>1, <2>2
<1>3. ASSUME NEW s \in acknowledged \ {setting}
      PROVE  Effective(Here', s) = Effective(Here, s)
    <2>1. PICK d \in Channel, k \in Kinds : s = <<d, k>>
        BY DEF RegistryInv, TypeOK, Settings, Kinds
    <2>2. CASE k = "channel"
        BY <1>2, <2>1, <2>2 DEF Effective
    <2>3. CASE k = "calibration"
        BY <1>2, <2>1, <2>3 DEF Effective, RegistryInv, AcknowledgedInv
    <2> QED
        BY <2>2, <2>3 DEF Kinds
<1>4. DOMAIN data_source_callbacks' = DOMAIN data_source_callbacks
    BY <1>0
<1>5. ASSUME NEW s \in all
      PROVE  /\ InForce[s] = IF s[2] = "channel" THEN data_source_callbacks[s[1]]
                                                ELSE calibration_values[s[1]]
             /\ InForce'[s] = IF s[2] = "channel" THEN data_source_callbacks'[s[1]]
                                                 ELSE calibration_values'[s[1]]
    BY <1>0, <1>4 DEF InForce, all, Kinds, Usable
<1>6. ASSUME NEW s \in all \ {setting}
      PROVE  InForce'[s] = InForce[s]
    <2>1. PICK d \in DOMAIN data_source_callbacks, k \in Kinds : s = <<d, k>>
        BY DEF all
    <2>2. k = "channel" => data_source_callbacks'[d] = data_source_callbacks[d]
        BY <1>0, <2>1
    <2> QED
        BY <1>0, <1>5, <2>1, <2>2
<1>7. saved => InForce'[setting] = Effective(Here', setting)
    <2>1. setting \in all /\ data_source_callbacks'[c] = name_string_to_callback(name)
        BY <1>0 DEF all, Kinds
    <2>2. InForce'[setting] = data_source_callbacks'[c]
        BY <1>5, <2>1
    <2> QED
        BY <1>2, <2>1, <2>2 DEF Effective
<1> QED
    BY <1>0, <1>1, <1>2, <1>3, <1>4, <1>6, <1>7, ChangeStep DEF Kinds

LEMMA SetCalibrationMapped ==
    ASSUME RegistryInv, RegistryInv', NEW c \in DOMAIN data_source_callbacks,
           NEW v \in Byte, NEW written \in BOOLEAN,
           set_channel_calibration(c, v, written)
    PROVE  Contract!Next
<1> DEFINE setting == <<c, "calibration">>
           saved == written /\ registry_key # NoKey
<1>0. /\ Usable /\ c \in Channel /\ DOMAIN data_source_callbacks \subseteq Channel
      /\ DOMAIN calibration_values = DOMAIN data_source_callbacks
      /\ UNCHANGED <<stage, registry_key, data_source_callbacks>>
      /\ calibration_values' = [calibration_values EXCEPT ![c] = v]
    BY UsableFacts DEF set_channel_calibration
<1>1. IF saved
      THEN /\ registry' = [registry EXCEPT ![registry_key].calibration[c] = v]
           /\ acknowledged' = acknowledged \cup {setting}
      ELSE /\ registry' = registry
           /\ acknowledged' = acknowledged \ {setting}
    BY DEF set_channel_calibration, Verdict
<1>2. /\ Here'.channel = Here.channel
      /\ saved => Here'.calibration[c] = v /\ Readable(v) /\ AsByte(v) = v
      /\ \A d \in Channel \ {c} : Here'.calibration[d] = Here.calibration[d]
      /\ \A h \in Hives \ {registry_key} : registry'[h] = registry[h]
    <2>1. CASE saved
        BY <1>0, <1>1, <2>1, CalibrationWritten
    <2>2. CASE ~saved
        BY <1>0, <1>1, <2>2 DEF Here
    <2> QED
        BY <2>1, <2>2
<1>3. ASSUME NEW s \in acknowledged \ {setting}
      PROVE  Effective(Here', s) = Effective(Here, s)
    <2>1. PICK d \in Channel, k \in Kinds : s = <<d, k>>
        BY DEF RegistryInv, TypeOK, Settings, Kinds
    <2>2. k = "calibration" => Here'.calibration[d] = Here.calibration[d]
        BY <1>2, <2>1
    <2> QED
        BY <1>2, <2>1, <2>2 DEF Effective, Kinds
<1>4. ASSUME NEW s \in all
      PROVE  /\ InForce[s] = IF s[2] = "channel" THEN data_source_callbacks[s[1]]
                                                ELSE calibration_values[s[1]]
             /\ InForce'[s] = IF s[2] = "channel" THEN data_source_callbacks'[s[1]]
                                                 ELSE calibration_values'[s[1]]
    BY <1>0 DEF InForce, all, Kinds, Usable
<1>5. ASSUME NEW s \in all \ {setting}
      PROVE  InForce'[s] = InForce[s]
    <2>1. PICK d \in DOMAIN data_source_callbacks, k \in Kinds : s = <<d, k>>
        BY DEF all
    <2>2. k = "calibration" => calibration_values'[d] = calibration_values[d]
        BY <1>0, <2>1
    <2> QED
        BY <1>0, <1>4, <2>1, <2>2 DEF Kinds
<1>6. saved => InForce'[setting] = Effective(Here', setting)
    <2>1. setting \in all /\ calibration_values'[c] = v
        BY <1>0 DEF all, Kinds
    <2>2. InForce'[setting] = calibration_values'[c]
        BY <1>4, <2>1
    <2> QED
        BY <1>2, <2>1, <2>2 DEF Effective
<1> QED
    BY <1>0, <1>1, <1>2, <1>3, <1>5, <1>6, ChangeStep DEF Kinds

LEMMA ClearBindingMapped ==
    ASSUME RegistryInv, NEW c \in DOMAIN data_source_callbacks, clear_binding(c)
    PROVE  Contract!Next
<1> DEFINE setting == <<c, "channel">>
<1>1. /\ Usable /\ setting \in all /\ setting \in Channel \X {"channel"} /\ Mode # "off"
    BY UsableFacts, Mapped DEF clear_binding, all, Kinds
<1>2. /\ data_source_callbacks' = [data_source_callbacks EXCEPT ![c] = "NULL"]
      /\ UNCHANGED <<registry, registry_key, calibration_values, stage, acknowledged>>
    BY DEF clear_binding
<1>3. /\ InForce = [s \in all |-> IF s[2] = "channel" THEN data_source_callbacks[s[1]]
                                                     ELSE calibration_values[s[1]]]
      /\ InForce' = [s \in all |-> IF s[2] = "channel" THEN data_source_callbacks'[s[1]]
                                                     ELSE calibration_values'[s[1]]]
    BY <1>1, <1>2 DEF InForce, all, Kinds, Usable
<1>4. InForce' = [InForce EXCEPT ![setting] = "NULL"]
    <2>1. ASSUME NEW s \in all
          PROVE  InForce'[s] = IF s = setting THEN "NULL" ELSE InForce[s]
        <3>1. PICK d \in DOMAIN data_source_callbacks, k \in Kinds : s = <<d, k>>
            BY DEF all
        <3>2. data_source_callbacks'[d] = IF d = c THEN "NULL" ELSE data_source_callbacks[d]
            BY <1>2
        <3> QED
            BY <1>2, <1>3, <3>1, <3>2 DEF Kinds
    <2> HIDE DEF setting
    <2> QED
        BY <1>3, <2>1
<1>5. Saved' = Saved /\ Known' = Known /\ Mode' = Mode
    BY <1>2 DEF Saved, Known, Mode, Usable, Here
<1>6. Contract!Pause(setting)
    BY <1>1, <1>2, <1>4, <1>5 DEF Contract!Pause
<1> QED
    BY <1>1, <1>3, <1>6 DEF Contract!Next

LEMMA NextMapped ==
    ASSUME RegistryInv, RegistryInv', [Next]_vars
    PROVE  [Contract!Next]_Contract!vars
<1>1. ASSUME NEW n \in 0..MaxChannels, AllocateTables(n) \/ AllocationFails(n)
      PROVE  [Contract!Next]_Contract!vars
    <2>1. /\ ~Usable /\ Saved' = Saved /\ acknowledged' = {}
          /\ stage' = "ready" => DOMAIN data_source_callbacks' = {}
        BY <1>1 DEF AllocateTables, AllocationFails, Usable, Saved, RegistryInv, OffInv
    <2>2. CASE ~Usable'
        BY <2>1, <2>2, StartingStep
    <2>3. CASE Usable'
        <3>1. stage' = "ready" => all' \subseteq acknowledged'
            BY <2>1 DEF all
        <3>2. Contract!Next
            BY <2>1, <2>3, <3>1, StartStep
        <3> QED
            BY <3>2
    <2> QED
        BY <2>2, <2>3
<1>2. CASE LoadStep
    BY <1>2, LoadMapped
<1>3. CASE Change
    <2>1. ASSUME NEW c \in DOMAIN data_source_callbacks, NEW v \in Positions(c),
                 NEW written \in BOOLEAN, set_channel_calibration(c, v, written)
          PROVE  Contract!Next
        <3>1. v \in Byte
            BY <2>1, UsableFacts, CalibrationsAssumption
            DEF set_channel_calibration, Positions
        <3> QED
            BY <2>1, <3>1, SetCalibrationMapped
    <2> QED
        BY <1>3, <2>1, SetSourceMapped, ClearBindingMapped DEF Change
<1>4. CASE ProcessEnds
    <2>1. stage' = "off" /\ ~Usable' /\ Saved' = Saved
        BY <1>4 DEF ProcessEnds, Usable, Saved
    <2>2. CASE ~Usable
        BY <2>1, <2>2, StartingStep
    <2>3. CASE Usable
        <3>1. /\ Known' = Contract!Nothing /\ InForce' = Contract!Nothing /\ Mode' = "off"
              /\ Mode # "off"
            BY <2>1, <2>3, Mapped DEF Known, InForce, Mode, Contract!Nothing
        <3>2. Contract!End
            BY <2>1, <3>1 DEF Contract!End
        <3> QED
            BY <3>2 DEF Contract!Next
    <2> QED
        BY <2>2, <2>3
<1>5. CASE UNCHANGED vars
    BY <1>5 DEF vars, Contract!vars, Saved, Known, InForce, Mode, Usable, Here
<1> QED
    BY <1>1, <1>2, <1>3, <1>4, <1>5 DEF Next

---------------------------------------------------------------------------

(* The Windows configuration reader implements the contract of the         *)
(* settings, also for the programs that ignore that a start has failed and *)
(* work with what it got as far as loading.                                *)
THEOREM WindowsSettingsKeepTheContract == RegistrySafety => KeepsContract
<1>1. Init => Contract!Init
    BY Mapped DEF Init, Usable, Contract!Init
<1>2. RegistryInv /\ RegistryInv' /\ [Next]_vars => [Contract!Next]_Contract!vars
    BY NextMapped
<1> QED
    BY <1>1, <1>2, RegistryInvariance, PTL DEF RegistrySafety, KeepsContract, Contract!Spec

(* What the contract comes to, for the Windows settings: what this process *)
(* loaded or was told is written is what the next start that opens the     *)
(* same key finds, and what the main loop works with, paused sources       *)
(* apart; and one change at a time is made.                                *)
THEOREM WindowsSettingsAreKept ==
    /\ RegistrySafety => []Contract!KnownIsStored
    /\ RegistrySafety => []Contract!KnownIsInForce
    /\ RegistrySafety => Contract!OneSettingAtATime
<1>1. RegistrySafety => Contract!Spec
    BY WindowsSettingsKeepTheContract DEF KeepsContract
<1>2. RegistrySafety => []Contract!KnownIsStored
    BY <1>1, Contract!KnownSettingsAreStored, PTL
<1>3. RegistrySafety => []Contract!KnownIsInForce
    BY <1>1, Contract!KnownSettingsAreInForce, PTL
<1>4. RegistrySafety => Contract!OneSettingAtATime
    BY <1>1, Contract!ChangesAreSeparate, PTL
<1> QED
    BY <1>2, <1>3, <1>4

---------------------------------------------------------------------------
(* How a start ends                                                        *)

(* The steps a start has ahead of it, at the most: two for each channel    *)
(* still to be loaded, one for a channel whose binding is, and one to open *)
(* the key.                                                                *)
StepsLeft ==
    2 * (channel_count - next)
        - (IF stage = "calibration" THEN 1 ELSE 0)
        + (IF registry_key = NoKey THEN 1 ELSE 0)

LEMMA StepsLeftBounds ==
    ASSUME RegistryInv, Loading
    PROVE  StepsLeft \in 1..(2 * MaxChannels + 1)
<1>1. /\ channel_count \in Nat /\ channel_count <= MaxChannels
      /\ next \in 0..(channel_count - 1)
    BY LoadingFacts DEF Live
<1> QED
    BY <1>1, ChannelsAssumption, SMT DEF StepsLeft

LEMMA LoadStepProgress ==
    ASSUME RegistryInv, Loading, [Next]_vars, ~UNCHANGED vars
    PROVE  ~Loading' \/ StepsLeft' < StepsLeft
<1>1. channel_count \in Nat /\ next \in Nat
    BY LoadingFacts
<1>2. ASSUME stage = "binding", stage' = "calibration" \/ ~Loading',
             UNCHANGED <<channel_count, next, registry_key>>
      PROVE  ~Loading' \/ StepsLeft' < StepsLeft
    BY <1>1, <1>2, SMT DEF StepsLeft, Loading
<1>3. ASSUME stage = "calibration", NextChannel \/ ~Loading',
             UNCHANGED <<channel_count, registry_key>>
      PROVE  ~Loading' \/ StepsLeft' < StepsLeft
    BY <1>1, <1>3, SMT DEF NextChannel, StepsLeft, Loading
<1>4. CASE OpenKey
    <2>1. CASE stage' = "failed"
        BY <2>1 DEF Loading
    <2>2. CASE stage' = stage /\ registry_key' \in Hives
        <3>1. registry_key = NoKey /\ registry_key' # NoKey
              /\ stage = "binding" /\ UNCHANGED <<channel_count, next>>
            BY <1>4, <2>2, SentinelAssumption DEF OpenKey
        <3> QED
            BY <1>1, <2>2, <3>1, SMT DEF StepsLeft
    <2> QED
        BY <1>4, <2>1, <2>2 DEF OpenKey
<1>5. CASE ReadBinding \/ \E written \in BOOLEAN : ReplaceBinding(written)
    BY <1>2, <1>5 DEF ReadBinding, ReplaceBinding, Loading
<1>6. CASE ReadCalibration \/ \E written \in BOOLEAN : AddCalibration(written)
    BY <1>3, <1>6 DEF ReadCalibration, AddCalibration, Loading
<1>7. CASE ProcessEnds
    BY <1>7 DEF ProcessEnds, Loading
<1> QED
    BY <1>4, <1>5, <1>6, <1>7
    DEF Next, LoadStep, Change, set_channel_source_binding, clear_binding,
        set_channel_calibration, Usable, AllocateTables, AllocationFails, Loading

(* A start is over after at most two steps for each channel and one for    *)
(* the key: every step it takes, and nothing else happens meanwhile,       *)
(* brings it closer to its end or is the end of it.                        *)
THEOREM StartMakesProgress ==
    RegistrySafety => /\ [](Loading => StepsLeft \in 1..(2 * MaxChannels + 1))
                      /\ [][Loading => ~Loading' \/ StepsLeft' < StepsLeft]_vars
<1>1. RegistryInv => (Loading => StepsLeft \in 1..(2 * MaxChannels + 1))
    BY StepsLeftBounds
<1>2. RegistryInv /\ [Next]_vars => [Loading => ~Loading' \/ StepsLeft' < StepsLeft]_vars
    BY LoadStepProgress
<1> QED
    BY <1>1, <1>2, RegistryInvariance, PTL DEF RegistrySafety

=============================================================================
