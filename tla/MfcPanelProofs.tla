---------------------------- MODULE MfcPanelProofs ----------------------------
(***************************************************************************)
(* Theorems about MfcPanel, for any number of channels, keys, names,       *)
(* readings, replies and outcomes of writes and transfers, and with the    *)
(* user at liberty to open the dialog on whichever rows there are.         *)
(*                                                                         *)
(* As for the Qt panel: first that all the panel does to the settings is a *)
(* behaviour of RegistryConfig, then the invariants that relate list,      *)
(* dialog, needles and live settings, and how the program ends.            *)
(***************************************************************************)
EXTENDS MfcPanel, RegistryConfigProofs

RowType == [name : Names, calibration : Byte]

PanelTypes ==
    /\ phase \in Phases
    /\ needle \in [Channel -> Byte]
    /\ dialog \in Channel
    /\ cachedChannel \in Names
    /\ chosen \in BOOLEAN
    /\ lost \subseteq Channel
    /\ entered \subseteq Channel

PhaseInv ==
    /\ phase \in {"off", "hung"} => stage = "off"
    /\ phase = "constructing" => stage # "off"
    /\ phase \in {"main", "dialog", "zeroing"} => Usable /\ TablesThere
    /\ phase = "zeroing" => zero \in 0..channel_count
    /\ phase # "zeroing" => zero = 0
    /\ ~MessageLoop => m_PanelList = NoRows

ListInv ==
    MessageLoop =>
        /\ m_PanelList \in [Live -> RowType]
        /\ \A c \in Live : phase = "main" \/ c # dialog => m_PanelList[c] = Row(c)

(* The source a channel's stored name means.                               *)
StoredSource(c) == name_string_to_callback(Here.channel[c])

SourceKept(c) ==
    \/ <<c, "channel">> \notin acknowledged
    \/ data_source_callbacks[c] = StoredSource(c)
    \/ phase = "dialog" /\ dialog = c
    \/ c \in entered

SourcesInv == phase # "zeroing" => \A c \in Channel : SourceKept(c)

(* Every live source has a name of the panel's, and the name means it.     *)
NamedInv ==
    \A c \in DOMAIN data_source_callbacks :
        /\ get_source_binding_name(c) \in Names
        /\ name_string_to_callback(get_source_binding_name(c)) = data_source_callbacks[c]

(* The open dialog: its source is paused, and unless the user has chosen   *)
(* another the name it will set is the one the stored source goes by.      *)
DialogInv ==
    phase = "dialog" =>
        /\ dialog \in Live
        /\ data_source_callbacks[dialog] = "NULL"
        /\ \/ chosen
           \/ <<dialog, "channel">> \notin acknowledged
           \/ dialog \in entered
           \/ cachedChannel = callback_to_name_string(StoredSource(dialog))

ZeroedInv ==
    phase = "zeroing" =>
        \A c \in Channel : c < zero /\ c \notin lost => needle[c] = 0

MfcInv ==
    /\ RegistryInv /\ PanelTypes /\ PhaseInv /\ ListInv
    /\ SourcesInv /\ NamedInv /\ DialogInv /\ ZeroedInv

---------------------------------------------------------------------------
(* The wire                                                                *)

(* A delivered transfer moves the needle it is meant for, and no other.    *)
LEMMA TransferMovesOne ==
    ASSUME NEW panel \in [Channel -> Byte], NEW c \in Channel, NEW v \in Byte,
           NEW transfer
    PROVE  /\ send_usage(panel, c, v, Delivered(transfer)) \in [Channel -> Byte]
           /\ send_usage(panel, c, v, Delivered(transfer))
                 = IF transfer # "failed" THEN [panel EXCEPT ![c] = v] ELSE panel
<1>1. Channel \subseteq Nat /\ (Delivered(transfer) <=> transfer # "failed")
    BY ChannelsAssumption DEF Channel, Delivered
<1> QED
    BY <1>1, SendUsageMovesOne

(* What a panel may answer is a number of channels the tables can hold.    *)
LEMMA CountsInRange ==
    ASSUME NEW n \in {0} \cup UNION {ChannelCounts(reply) : reply \in Replies}
    PROVE  n \in 0..MaxChannels
<1>1. ASSUME NEW reply \in Replies, n \in ChannelCounts(reply)
      PROVE  n \in 0..MaxChannels
    BY <1>1, RepliesAssumption, ChannelsAssumption
    DEF ChannelCounts, RawValue, ReportsRawValue, Byte
<1> QED
    BY <1>1, ChannelsAssumption

(* A known name becomes a source whose name is known, and means it again:  *)
(* the name itself, or "Unallocated" for a name without a source here.     *)
LEMMA NameRoundTrip ==
    ASSUME NEW name \in Names
    PROVE  LET callback == name_string_to_callback(name)
           IN  /\ callback_to_name_string(callback) \in Names
               /\ name_string_to_callback(callback_to_name_string(callback)) = callback
<1>1. CASE name_string_to_callback(name) = "NULL"
    BY <1>1, NamesAssumption, NamedCallbacks DEF callback_to_name_string
<1>2. CASE name_string_to_callback(name) # "NULL"
    <2>1. callback_to_name_string(name_string_to_callback(name)) = name
        BY <1>2 DEF name_string_to_callback, callback_to_name_string
    <2> QED
        BY <2>1
<1> QED
    BY <1>1, <1>2

LEMMA UnboundRoundTrip ==
    /\ callback_to_name_string("NULL") \in Names
    /\ name_string_to_callback(callback_to_name_string("NULL")) = "NULL"
BY NamesAssumption, NamedCallbacks DEF callback_to_name_string

---------------------------------------------------------------------------
(* The panel does nothing to the settings RegistryConfig does not allow.   *)

LEMMA PanelStepsAreRegistrySteps ==
    ASSUME MfcInv, [MfcNext]_mfcVars
    PROVE  [Next]_vars
<1>1. CASE QueryNeverReturns \/ OnInitDialog \/ timer_proc \/ OnOK \/ Close \/ ZeroNext
    BY <1>1 DEF QueryNeverReturns, OnInitDialog, timer_proc, OnOK, Close, ZeroNext
<1>2. CASE QueryPanel
    <2>1. PICK n \in {0} \cup UNION {ChannelCounts(reply) : reply \in Replies} :
             AllocateTables(n) \/ AllocationFails(n)
        BY <1>2 DEF QueryPanel
    <2>2. n \in 0..MaxChannels
        BY CountsInRange
    <2> QED
        BY <2>1, <2>2 DEF Next
<1>3. CASE LoadChannels
    BY <1>3 DEF LoadChannels, Next
<1>4. CASE OnInitDialogCrashes \/ Return \/ Killed
    BY <1>4 DEF OnInitDialogCrashes, Return, Killed, Next
<1>5. ASSUME NEW c \in Live \cap Adjusted, OnMenu01Calibrate(c)
      PROVE  [Next]_vars
    <2>1. c \in DOMAIN data_source_callbacks
        BY <1>5 DEF OnMenu01Calibrate, MfcInv, PhaseInv, TablesThere
    <2> QED
        BY <1>5, <2>1 DEF OnMenu01Calibrate, Next, Change
<1>6. ASSUME NEW val \in Byte, OnHScroll(val)
      PROVE  [Next]_vars
    <2>1. dialog \in DOMAIN data_source_callbacks
        BY <1>6 DEF OnHScroll, MfcInv, PhaseInv, DialogInv, TablesThere
    <2> QED
        BY <1>6, <2>1 DEF OnHScroll, Next, Change
<1>7. ASSUME NEW name \in Names, OnCbnSelchangeChannelCombo(name)
      PROVE  [Next]_vars
    BY <1>7 DEF OnCbnSelchangeChannelCombo
<1>8. CASE OnCancel
    <2>1. dialog \in DOMAIN data_source_callbacks /\ cachedChannel \in Names
        BY <1>8 DEF OnCancel, MfcInv, PhaseInv, PanelTypes, DialogInv, TablesThere
    <2> QED
        BY <1>8, <2>1 DEF OnCancel, Next, Change
<1>9. CASE UNCHANGED mfcVars
    BY <1>9 DEF mfcVars
<1> QED
    BY <1>1, <1>2, <1>3, <1>4, <1>5, <1>6, <1>7, <1>8, <1>9
    DEF MfcNext, Starting, Adjusting, Ending

---------------------------------------------------------------------------
(* One lemma per action: it preserves the invariant.                       *)

LEMMA MfcInitInv == MfcInit => MfcInv
<1> SUFFICES ASSUME MfcInit PROVE MfcInv
    OBVIOUS
<1>1. RegistryInv
    BY InitRegistryInv DEF MfcInit
<1>2. 0 \in Channel /\ 0 \in Byte /\ "Unallocated" \in Names
    BY NamesAssumption, ChannelsAssumption DEF Channel, Byte
<1>3. PanelTypes
    BY <1>2 DEF MfcInit, PanelTypes, Phases
<1>4. PhaseInv /\ ListInv /\ DialogInv /\ ZeroedInv
    BY DEF MfcInit, Init, PhaseInv, ListInv, DialogInv, ZeroedInv, MessageLoop
<1>5. SourcesInv /\ NamedInv
    BY DEF MfcInit, Init, SourcesInv, SourceKept, NamedInv
<1> QED
    BY <1>1, <1>3, <1>4, <1>5 DEF MfcInv

(* Nothing derived from the settings changes when they do not.             *)
LEMMA SettingsUnchanged ==
    ASSUME UNCHANGED vars
    PROVE  /\ Live' = Live /\ (Usable' <=> Usable) /\ (TablesThere' <=> TablesThere)
           /\ stage' = stage /\ acknowledged' = acknowledged
           /\ channel_count' = channel_count
           /\ data_source_callbacks' = data_source_callbacks
           /\ calibration_values' = calibration_values
           /\ \A c : Row(c)' = Row(c)
           /\ \A c : StoredSource(c)' = StoredSource(c)
           /\ NamedInv => NamedInv'
BY DEF vars, Live, Usable, TablesThere, Row, get_source_binding_name, StoredSource, Here,
       NamedInv

(* The tables of a usable panel.                                           *)
LEMMA PanelTables ==
    ASSUME RegistryInv, Usable, TablesThere
    PROVE  /\ Live \subseteq Channel /\ channel_count \in 0..MaxChannels
           /\ data_source_callbacks \in [Live -> Callbacks]
           /\ calibration_values \in [Live -> Byte]
BY UsableFacts DEF TablesThere, RegistryInv, TypeOK

LEMMA QueryPanelStep ==
    ASSUME MfcInv, RegistryInv', QueryPanel
    PROVE  MfcInv'
<1>0. PICK n \in 0..MaxChannels : AllocateTables(n) \/ AllocationFails(n)
    BY CountsInRange DEF QueryPanel
<1>1. PanelTypes'
    BY DEF QueryPanel, windowVars, dialogVars, MfcInv, PanelTypes, Phases
<1>2. phase' = "constructing" /\ stage' # "off" /\ acknowledged' = {}
      /\ \A c \in DOMAIN data_source_callbacks' : data_source_callbacks'[c] = "NULL"
    BY <1>0
    DEF QueryPanel, AllocateTables, AllocationFails, MfcInv, PhaseInv, RegistryInv,
        OffInv, Allocated
<1>3. (PhaseInv /\ ListInv /\ DialogInv /\ ZeroedInv)'
    BY <1>2
    DEF QueryPanel, windowVars, dialogVars, MfcInv, PhaseInv, ListInv, DialogInv,
        ZeroedInv, MessageLoop, NoRows
<1>4. SourcesInv'
    BY <1>2 DEF SourcesInv, SourceKept
<1>5. NamedInv'
    BY <1>2, UnboundRoundTrip DEF NamedInv, get_source_binding_name
<1> QED
    BY <1>1, <1>3, <1>4, <1>5 DEF MfcInv

LEMMA QueryNeverReturnsStep ==
    ASSUME MfcInv, RegistryInv', QueryNeverReturns
    PROVE  MfcInv'
<1>0. UNCHANGED vars /\ phase = "off" /\ phase' = "hung"
    BY DEF QueryNeverReturns
<1>1. PanelTypes'
    BY DEF QueryNeverReturns, windowVars, dialogVars, MfcInv, PanelTypes, Phases
<1>2. (PhaseInv /\ ListInv /\ DialogInv /\ ZeroedInv)'
    BY <1>0, SettingsUnchanged
    DEF QueryNeverReturns, windowVars, dialogVars, MfcInv, PhaseInv, ListInv, DialogInv,
        ZeroedInv, MessageLoop, NoRows
<1>3. (SourcesInv /\ NamedInv)'
    BY <1>0, SettingsUnchanged
    DEF QueryNeverReturns, windowVars, dialogVars, MfcInv, SourcesInv, SourceKept
<1> QED
    BY <1>1, <1>2, <1>3 DEF MfcInv

(* A start gives every channel it acknowledges the source its stored name  *)
(* means, under whichever key, and whichever name it replaces on the way.  *)
LEMMA LoadKeepsSources ==
    ASSUME RegistryInv, LoadStep, NEW c \in Channel, <<c, "channel">> \in acknowledged'
    PROVE  data_source_callbacks'[c] = StoredSource(c)'
<1>0. Loading
    BY DEF LoadStep, OpenKey, ReadBinding, ReplaceBinding, ReadCalibration,
           AddCalibration, Loading
<1>1. /\ Allocated(channel_count) /\ next \in Live /\ next \in Channel
      /\ registry_key # NoKey => registry_key \in Hives /\ Here \in Values
    BY <1>0, LoadingFacts
<1>2. ASSUME <<c, "channel">> \in acknowledged
      PROVE  data_source_callbacks[c] = StoredSource(c)
    BY <1>0, <1>2 DEF RegistryInv, LoadingInv, StoredSource
<1>3. CASE OpenKey
    BY <1>3, <1>2 DEF OpenKey, RegistryInv, AcknowledgedInv
<1>4. CASE ReadBinding
    BY <1>1, <1>2, <1>4 DEF ReadBinding, Loaded, StoredSource, Here, Allocated, Live
<1>5. ASSUME NEW written \in BOOLEAN, ReplaceBinding(written)
      PROVE  data_source_callbacks'[c] = StoredSource(c)'
    <2>1. CASE ~written
        BY <1>2, <1>5, <2>1 DEF ReplaceBinding, StoredSource, Here
    <2>2. CASE written
        <3>1. /\ Here'.channel[next] = "Unallocated"
              /\ \A d \in Channel \ {next} : Here'.channel[d] = Here.channel[d]
            BY <1>1, <1>5, <2>2, ChannelWritten, NamesAssumption DEF ReplaceBinding
        <3>2. CASE c = next
            BY <1>1, <1>5, <2>2, <3>1, <3>2
            DEF ReplaceBinding, StoredSource, Allocated, Live
        <3>3. CASE c # next
            <4>1. <<c, "channel">> \in acknowledged
                BY <1>5, <2>2, <3>3 DEF ReplaceBinding, Loaded
            <4>2. /\ data_source_callbacks'[c] = data_source_callbacks[c]
                  /\ Here'.channel[c] = Here.channel[c]
                BY <1>1, <1>5, <2>2, <3>1, <3>3, <4>1
                DEF ReplaceBinding, RegistryInv, AcknowledgedInv
            <4> QED
                BY <1>2, <4>1, <4>2 DEF StoredSource
        <3> QED
            BY <3>2, <3>3
    <2> QED
        BY <2>1, <2>2
<1>6. CASE ReadCalibration
    BY <1>2, <1>6 DEF ReadCalibration, Loaded, StoredSource, Here
<1>7. ASSUME NEW written \in BOOLEAN, AddCalibration(written)
      PROVE  data_source_callbacks'[c] = StoredSource(c)'
    <2>1. CASE ~written
        BY <1>2, <1>7, <2>1 DEF AddCalibration, StoredSource, Here
    <2>2. CASE written
        <3>1. MissingCalibration(Here.channel[next]) \in Byte
            BY DEF MissingCalibration, DefaultCalibration, Byte
        <3>2. registry_key # NoKey
            BY <1>0, <1>7 DEF AddCalibration, RegistryInv, LoadingInv
        <3>3. Here'.channel = Here.channel
            BY <1>1, <1>7, <2>2, <3>1, <3>2, CalibrationWritten DEF AddCalibration
        <3> QED
            BY <1>2, <1>7, <2>2, <3>3 DEF AddCalibration, Loaded, StoredSource
    <2> QED
        BY <2>1, <2>2
<1> QED
    BY <1>3, <1>4, <1>5, <1>6, <1>7 DEF LoadStep

LEMMA LoadKeepsNames ==
    ASSUME RegistryInv, NamedInv, LoadStep
    PROVE  NamedInv'
<1>0. Loading
    BY DEF LoadStep, OpenKey, ReadBinding, ReplaceBinding, ReadCalibration,
           AddCalibration, Loading
<1>1. /\ data_source_callbacks \in [Live -> Callbacks] /\ next \in Live /\ next \in Channel
      /\ registry_key # NoKey => registry_key \in Hives /\ Here \in Values
    BY <1>0, LoadingFacts DEF Allocated, Live
<1>2. \/ data_source_callbacks' = data_source_callbacks
      \/ \E name \in Names :
            data_source_callbacks' =
               [data_source_callbacks EXCEPT ![next] = name_string_to_callback(name)]
    <2>1. ASSUME ReadBinding PROVE Here.channel[next] \in Names
        BY <1>1, <2>1 DEF ReadBinding, Readable, Values
    <2> QED
        BY <2>1, NamesAssumption
        DEF LoadStep, OpenKey, ReadBinding, ReplaceBinding, ReadCalibration, AddCalibration
<1>3. CASE data_source_callbacks' = data_source_callbacks
    BY <1>3 DEF NamedInv, get_source_binding_name
<1>4. ASSUME NEW name \in Names,
             data_source_callbacks' =
                [data_source_callbacks EXCEPT ![next] = name_string_to_callback(name)]
      PROVE  NamedInv'
    <2> SUFFICES ASSUME NEW c \in Live
                 PROVE  /\ callback_to_name_string(data_source_callbacks'[c]) \in Names
                        /\ name_string_to_callback(
                              callback_to_name_string(data_source_callbacks'[c]))
                              = data_source_callbacks'[c]
        BY <1>1, <1>4 DEF NamedInv, get_source_binding_name
    <2>1. CASE c = next
        BY <1>1, <1>4, <2>1, NameRoundTrip
    <2>2. CASE c # next
        BY <1>1, <1>4, <2>2 DEF NamedInv, get_source_binding_name
    <2> QED
        BY <2>1, <2>2
<1> QED
    BY <1>2, <1>3, <1>4

LEMMA LoadChannelsStep ==
    ASSUME MfcInv, RegistryInv', LoadChannels
    PROVE  MfcInv'
<1>0. phase = "constructing" /\ phase' = "constructing" /\ LoadStep
    BY DEF LoadChannels
<1>1. PanelTypes'
    BY DEF LoadChannels, windowVars, dialogVars, MfcInv, PanelTypes
<1>2. stage' # "off"
    BY <1>0 DEF LoadStep, OpenKey, ReadBinding, ReplaceBinding, ReadCalibration,
                AddCalibration, NextChannel
<1>3. (PhaseInv /\ ListInv /\ DialogInv /\ ZeroedInv)'
    BY <1>0, <1>2
    DEF LoadChannels, windowVars, dialogVars, MfcInv, PhaseInv, ListInv, DialogInv,
        ZeroedInv, MessageLoop, NoRows
<1>4. SourcesInv'
    BY <1>0, LoadKeepsSources DEF MfcInv, SourcesInv, SourceKept
<1>5. NamedInv'
    BY <1>0, LoadKeepsNames DEF MfcInv
<1> QED
    BY <1>1, <1>3, <1>4, <1>5 DEF MfcInv

(* A row of the list is a known name and a byte.                           *)
LEMMA RowTypes ==
    ASSUME RegistryInv, NamedInv, Usable, TablesThere, NEW c \in Live
    PROVE  Row(c) \in RowType
BY PanelTables DEF NamedInv, TablesThere, Row, RowType

LEMMA OnInitDialogStep ==
    ASSUME MfcInv, RegistryInv', OnInitDialog
    PROVE  MfcInv'
<1>0. UNCHANGED vars /\ phase = "constructing" /\ phase' = "main" /\ Usable /\ TablesThere
    BY DEF OnInitDialog
<1>1. PanelTypes'
    BY DEF OnInitDialog, dialogVars, MfcInv, PanelTypes, Phases
<1>2. (PhaseInv /\ DialogInv /\ ZeroedInv)'
    BY <1>0, SettingsUnchanged
    DEF OnInitDialog, dialogVars, MfcInv, PhaseInv, DialogInv, ZeroedInv, MessageLoop
<1>3. ListInv'
    BY <1>0, SettingsUnchanged, RowTypes DEF OnInitDialog, ListInv, MfcInv
<1>4. (SourcesInv /\ NamedInv)'
    BY <1>0, SettingsUnchanged DEF OnInitDialog, MfcInv, SourcesInv, SourceKept
<1> QED
    BY <1>1, <1>2, <1>3, <1>4 DEF MfcInv

(* The process ends: only needles and registry are left.                   *)
LEMMA EndStep ==
    ASSUME MfcInv, RegistryInv', OnInitDialogCrashes \/ Return \/ Killed
    PROVE  MfcInv'
<1>0. stage' = "off" /\ phase' = "off"
    <2>1. CASE ProcessEnds
        BY <2>1 DEF ProcessEnds, OnInitDialogCrashes, Return, Killed
    <2>2. CASE stage = "off" /\ UNCHANGED vars
        BY <2>2 DEF vars, OnInitDialogCrashes, Return, Killed
    <2> QED
        BY <2>1, <2>2 DEF OnInitDialogCrashes, Return, Killed
<1>1. /\ needle' = needle /\ dialog' = 0 /\ cachedChannel' = "Unallocated"
      /\ chosen' = FALSE /\ m_PanelList' = NoRows /\ zero' = 0
      /\ lost' = {} /\ entered' = {}
    BY DEF OnInitDialogCrashes, Return, Killed, NoWindow, NoDialog
<1>2. PanelTypes'
    <2>1. 0 \in Channel /\ "Unallocated" \in Names
        BY NamesAssumption, ChannelsAssumption DEF Channel
    <2> QED
        BY <1>0, <1>1, <2>1 DEF MfcInv, PanelTypes, Phases
<1>3. (PhaseInv /\ ListInv /\ DialogInv /\ ZeroedInv)'
    BY <1>0, <1>1 DEF PhaseInv, ListInv, DialogInv, ZeroedInv, MessageLoop, NoRows
<1>4. (SourcesInv /\ NamedInv)'
    BY <1>0 DEF RegistryInv, OffInv, Allocated, SourcesInv, SourceKept, NamedInv
<1> QED
    BY <1>2, <1>3, <1>4 DEF MfcInv

(* What a reading becomes on the panel is a byte within the calibration of *)
(* its channel.                                                            *)
LEMMA CalibratedReading ==
    ASSUME RegistryInv, Usable, TablesThere, NEW c \in Live,
           NEW value \in Readings \cup {data_source_calibration}
    PROVE  Calibrated(c, value) \in Byte /\ Calibrated(c, value) <= calibration_values[c]
<1>1. value \in Byte
    BY ReadingsAssumption DEF data_source_calibration, Byte
<1>2. calibration_values[c] \in Byte
    BY PanelTables
<1> QED
    BY <1>1, <1>2, ScaledWithin DEF Calibrated

(* A tick leaves a needle where it is, or sets it for a channel that has a *)
(* source, and then within the channel's calibration.                      *)
LEMMA TimerMoves ==
    ASSUME MfcInv, timer_proc
    PROVE  /\ needle' \in [Channel -> Byte]
           /\ \A c \in Channel :
                 \/ needle'[c] = needle[c]
                 \/ /\ c \in Live /\ data_source_callbacks[c] # "NULL"
                    /\ needle'[c] <= calibration_values[c]
<1>0. RegistryInv /\ Usable /\ TablesThere /\ needle \in [Channel -> Byte]
    BY DEF timer_proc, MessageLoop, MfcInv, PhaseInv, PanelTypes
<1>1. PICK reading \in [Live -> Readings \cup {data_source_calibration}] :
         \E k, transfer : needle' = NeedlesAfterLoop(reading, k, transfer)
    BY DEF timer_proc
<1>2. PICK k, transfer : needle' = NeedlesAfterLoop(reading, k, transfer)
    BY <1>1
<1>3. \A c \in Live : /\ Calibrated(c, reading[c]) \in Byte
                      /\ Calibrated(c, reading[c]) <= calibration_values[c]
    BY <1>0, CalibratedReading
<1> QED
    BY <1>0, <1>2, <1>3 DEF NeedlesAfterLoop

LEMMA TimerStep ==
    ASSUME MfcInv, RegistryInv', timer_proc
    PROVE  MfcInv'
<1>0. UNCHANGED vars /\ MessageLoop /\ phase' = phase /\ phase # "zeroing"
    BY DEF timer_proc, MessageLoop
<1>1. PanelTypes'
    BY TimerMoves DEF timer_proc, windowVars, dialogVars, MfcInv, PanelTypes
<1>2. (PhaseInv /\ ListInv /\ DialogInv /\ ZeroedInv)'
    BY <1>0, SettingsUnchanged
    DEF timer_proc, windowVars, dialogVars, MfcInv, PhaseInv, ListInv, DialogInv,
        ZeroedInv, MessageLoop
<1>3. (SourcesInv /\ NamedInv)'
    BY <1>0, SettingsUnchanged
    DEF timer_proc, windowVars, dialogVars, MfcInv, SourcesInv, SourceKept
<1> QED
    BY <1>1, <1>2, <1>3 DEF MfcInv

(* What stays as it is when the dialog works on channel c.                 *)
OthersKept(c) ==
    /\ Usable /\ Usable' /\ TablesThere /\ TablesThere' /\ c \in Channel
    /\ Live' = Live /\ stage' = stage /\ channel_count' = channel_count
    /\ \A d \in Live \ {c} : Row(d)' = Row(d)
    /\ \A d \in Channel \ {c} :
          /\ <<d, "channel">> \in acknowledged' <=> <<d, "channel">> \in acknowledged
          /\ <<d, "channel">> \in acknowledged =>
                /\ data_source_callbacks'[d] = data_source_callbacks[d]
                /\ StoredSource(d)' = StoredSource(d)

(* An acknowledged channel is one the tables have.                         *)
LEMMA AcknowledgedLive ==
    ASSUME RegistryInv, Usable, TablesThere, NEW c, <<c, "channel">> \in acknowledged
    PROVE  c \in Live /\ registry_key # NoKey
BY DEF RegistryInv, AcknowledgedInv, TablesThere

LEMMA ClearFrame ==
    ASSUME MfcInv, Usable, TablesThere, NEW c \in Live, clear_binding(c)
    PROVE  /\ OthersKept(c) /\ data_source_callbacks'[c] = "NULL" /\ NamedInv'
           /\ acknowledged' = acknowledged /\ StoredSource(c)' = StoredSource(c)
<1>1. /\ data_source_callbacks \in [Live -> Callbacks] /\ c \in Channel
    BY PanelTables DEF MfcInv
<1>2. /\ data_source_callbacks'[c] = "NULL"
      /\ \A d \in Live \ {c} : data_source_callbacks'[d] = data_source_callbacks[d]
      /\ DOMAIN data_source_callbacks' = Live /\ Live' = Live
    BY <1>1 DEF clear_binding, Live
<1>3. OthersKept(c)
    BY <1>1, <1>2, AcknowledgedLive
    DEF clear_binding, OthersKept, MfcInv, Usable, TablesThere, Row,
        get_source_binding_name, StoredSource, Here
<1>4. NamedInv'
    BY <1>1, <1>2, UnboundRoundTrip DEF MfcInv, NamedInv, get_source_binding_name
<1> QED
    BY <1>2, <1>3, <1>4 DEF clear_binding, StoredSource, Here

LEMMA CalibrationFrame ==
    ASSUME MfcInv, TablesThere, NEW c \in Live, NEW v \in Byte, NEW written \in BOOLEAN,
           set_channel_calibration(c, v, written)
    PROVE  /\ OthersKept(c) /\ data_source_callbacks' = data_source_callbacks /\ NamedInv'
           /\ <<c, "channel">> \in acknowledged' <=> <<c, "channel">> \in acknowledged
           /\ <<c, "channel">> \in acknowledged => StoredSource(c)' = StoredSource(c)
           /\ calibration_values'[c] = v
<1>0. /\ Usable /\ RegistryInv /\ Live' = Live
      /\ data_source_callbacks' = data_source_callbacks
      /\ registry_key' = registry_key /\ stage' = stage
    BY DEF set_channel_calibration, MfcInv, Live
<1>1. /\ calibration_values \in [Live -> Byte] /\ c \in Channel
    BY <1>0, PanelTables
<1>2. /\ calibration_values'[c] = v
      /\ \A d \in Live \ {c} : calibration_values'[d] = calibration_values[d]
    BY <1>1 DEF set_channel_calibration
<1>3. \A d : <<d, "channel">> \in acknowledged' <=> <<d, "channel">> \in acknowledged
    BY DEF set_channel_calibration, Verdict
<1>4. ASSUME NEW d, <<d, "channel">> \in acknowledged
      PROVE  StoredSource(d)' = StoredSource(d)
    <2>1. registry_key # NoKey
        BY <1>0, <1>4, AcknowledgedLive
    <2>2. Here'.channel = Here.channel
        <3>1. CASE registry' = registry
            BY <1>0, <3>1 DEF Here
        <3>2. CASE registry' = [registry EXCEPT ![registry_key].calibration[c] = v]
            BY <1>0, <1>1, <2>1, <3>2, CalibrationWritten
        <3> QED
            BY <3>1, <3>2 DEF set_channel_calibration
    <2> QED
        BY <2>2 DEF StoredSource
<1>5. OthersKept(c)
    <2>1. Usable' /\ TablesThere' /\ channel_count' = channel_count
        BY <1>0 DEF Usable, TablesThere, set_channel_calibration
    <2>2. \A d \in Live \ {c} : Row(d)' = Row(d)
        BY <1>0, <1>2 DEF Row, get_source_binding_name
    <2> QED
        BY <1>0, <1>1, <1>3, <1>4, <2>1, <2>2 DEF OthersKept
<1>6. NamedInv'
    BY <1>0 DEF MfcInv, NamedInv, get_source_binding_name
<1> QED
    BY <1>0, <1>2, <1>3, <1>4, <1>5, <1>6

LEMMA SourceFrame ==
    ASSUME MfcInv, TablesThere, NEW c \in Live, NEW name \in Names,
           NEW written \in BOOLEAN, set_channel_source_binding(c, name, written)
    PROVE  /\ OthersKept(c) /\ NamedInv'
           /\ <<c, "channel">> \in acknowledged' =>
                 data_source_callbacks'[c] = StoredSource(c)'
<1>0. /\ Usable /\ RegistryInv /\ Live' = Live
      /\ registry_key' = registry_key /\ stage' = stage
      /\ calibration_values' = calibration_values
    BY DEF set_channel_source_binding, MfcInv, Live
<1>1. /\ data_source_callbacks \in [Live -> Callbacks] /\ c \in Channel
    BY <1>0, PanelTables
<1>2. /\ data_source_callbacks'[c] = name_string_to_callback(name)
      /\ \A d \in Live \ {c} : data_source_callbacks'[d] = data_source_callbacks[d]
      /\ DOMAIN data_source_callbacks' = Live
    BY <1>1 DEF set_channel_source_binding
<1>3. \A d \in Channel \ {c} :
         <<d, "channel">> \in acknowledged' <=> <<d, "channel">> \in acknowledged
    BY DEF set_channel_source_binding, Verdict
<1>4. ASSUME NEW d \in Channel \ {c}, <<d, "channel">> \in acknowledged
      PROVE  StoredSource(d)' = StoredSource(d)
    <2>1. registry_key # NoKey
        BY <1>0, <1>4, AcknowledgedLive
    <2>2. Here'.channel[d] = Here.channel[d]
        <3>1. CASE registry' = registry
            BY <1>0, <3>1 DEF Here
        <3>2. CASE registry' = [registry EXCEPT ![registry_key].channel[c] = name]
            BY <1>0, <1>1, <2>1, <3>2, ChannelWritten
        <3> QED
            BY <3>1, <3>2 DEF set_channel_source_binding
    <2> QED
        BY <2>2 DEF StoredSource
<1>5. OthersKept(c)
    <2>1. Usable' /\ TablesThere' /\ channel_count' = channel_count
        BY <1>0, <1>2 DEF Usable, TablesThere, set_channel_source_binding
    <2>2. \A d \in Live \ {c} : Row(d)' = Row(d)
        BY <1>0, <1>2 DEF Row, get_source_binding_name
    <2>3. \A d \in Channel \ {c} : <<d, "channel">> \in acknowledged => d \in Live
        BY <1>0, AcknowledgedLive
    <2> QED
        BY <1>0, <1>1, <1>2, <1>3, <1>4, <2>1, <2>2, <2>3 DEF OthersKept
<1>6. NamedInv'
    <2>1. ASSUME NEW d \in Live
          PROVE  /\ callback_to_name_string(data_source_callbacks'[d]) \in Names
                 /\ name_string_to_callback(
                       callback_to_name_string(data_source_callbacks'[d]))
                       = data_source_callbacks'[d]
        <3>1. CASE d = c
            BY <1>2, <3>1, NameRoundTrip
        <3>2. CASE d # c
            BY <1>1, <1>2, <3>2 DEF MfcInv, NamedInv, get_source_binding_name
        <3> QED
            BY <3>1, <3>2
    <2> QED
        BY <1>2, <2>1 DEF NamedInv, get_source_binding_name
<1>7. ASSUME <<c, "channel">> \in acknowledged'
      PROVE  data_source_callbacks'[c] = StoredSource(c)'
    <2>1. written /\ registry_key # NoKey
        BY <1>7 DEF set_channel_source_binding, Verdict
    <2>2. Here'.channel[c] = name
        BY <1>0, <1>1, <2>1, ChannelWritten DEF set_channel_source_binding
    <2> QED
        BY <1>2, <2>2 DEF StoredSource
<1> QED
    BY <1>5, <1>6, <1>7

LEMMA OpenDialogStep ==
    ASSUME MfcInv, RegistryInv', NEW c \in Live \cap Adjusted, OnMenu01Calibrate(c)
    PROVE  MfcInv'
<1>0. /\ phase = "main" /\ phase' = "dialog" /\ clear_binding(c)
      /\ dialog' = c /\ cachedChannel' = get_source_binding_name(c) /\ chosen' = FALSE
      /\ UNCHANGED <<needle, m_PanelList, zero, lost, entered>>
      /\ Usable /\ TablesThere
    BY DEF OnMenu01Calibrate, MfcInv, PhaseInv
<1>1. /\ OthersKept(c) /\ data_source_callbacks'[c] = "NULL" /\ NamedInv'
      /\ acknowledged' = acknowledged /\ StoredSource(c)' = StoredSource(c)
    BY <1>0, ClearFrame
<1>2. /\ cachedChannel' \in Names
      /\ name_string_to_callback(cachedChannel') = data_source_callbacks[c]
    BY <1>0 DEF MfcInv, NamedInv, TablesThere
<1>3. PanelTypes'
    BY <1>0, <1>1, <1>2 DEF OthersKept, MfcInv, PanelTypes, Phases
<1>4. (PhaseInv /\ ZeroedInv)'
    BY <1>0, <1>1 DEF OthersKept, MfcInv, PhaseInv, ZeroedInv, MessageLoop
<1>5. ListInv'
    BY <1>0, <1>1 DEF OthersKept, MfcInv, ListInv, MessageLoop
<1>6. DialogInv'
    <2>1. SourceKept(c)
        BY <1>0, <1>1 DEF OthersKept, MfcInv, SourcesInv
    <2> QED
        BY <1>0, <1>1, <2>1 DEF OthersKept, DialogInv, SourceKept, get_source_binding_name
<1>7. SourcesInv'
    <2> SUFFICES ASSUME NEW d \in Channel PROVE SourceKept(d)'
        BY DEF SourcesInv
    <2>1. CASE d = c
        BY <1>0, <2>1 DEF SourceKept
    <2>2. CASE d # c
        BY <1>0, <1>1, <2>2 DEF OthersKept, MfcInv, SourcesInv, SourceKept
    <2> QED
        BY <2>1, <2>2
<1> QED
    BY <1>1, <1>3, <1>4, <1>5, <1>6, <1>7 DEF MfcInv

LEMMA SliderStep ==
    ASSUME MfcInv, RegistryInv', NEW val \in Byte, OnHScroll(val)
    PROVE  MfcInv'
<1>0. /\ phase = "dialog" /\ phase' = "dialog"
      /\ dialog \in Live /\ dialog \in Channel /\ TablesThere
      /\ UNCHANGED windowVars
    BY DEF OnHScroll, MfcInv, PhaseInv, DialogInv, PanelTypes
<1>1. PICK c \in Live, written \in BOOLEAN :
         c = dialog /\ set_channel_calibration(c, val, written)
    BY <1>0 DEF OnHScroll
<1>2. /\ OthersKept(c) /\ data_source_callbacks' = data_source_callbacks /\ NamedInv'
      /\ <<c, "channel">> \in acknowledged' <=> <<c, "channel">> \in acknowledged
      /\ <<c, "channel">> \in acknowledged => StoredSource(c)' = StoredSource(c)
    BY <1>0, <1>1, CalibrationFrame
<1>3. PanelTypes'
    <2>1. needle' \in [Channel -> Byte]
        BY <1>0, TransferMovesOne DEF OnHScroll, MfcInv, PanelTypes
    <2> QED
        BY <1>0, <2>1 DEF windowVars, dialogVars, MfcInv, PanelTypes, Phases
<1>4. (PhaseInv /\ ZeroedInv)'
    BY <1>0, <1>2
    DEF windowVars, dialogVars, OthersKept, MfcInv, PhaseInv, ZeroedInv, MessageLoop
<1>5. ListInv'
    BY <1>0, <1>1, <1>2 DEF windowVars, dialogVars, OthersKept, MfcInv, ListInv, MessageLoop
<1>6. DialogInv'
    BY <1>0, <1>1, <1>2 DEF windowVars, dialogVars, OthersKept, MfcInv, DialogInv
<1>7. SourcesInv'
    BY <1>0, <1>1, <1>2
    DEF windowVars, dialogVars, OthersKept, MfcInv, SourcesInv, SourceKept
<1> QED
    BY <1>2, <1>3, <1>4, <1>5, <1>6, <1>7 DEF MfcInv

LEMMA ComboStep ==
    ASSUME MfcInv, RegistryInv', NEW name \in Names, OnCbnSelchangeChannelCombo(name)
    PROVE  MfcInv'
<1>0. /\ UNCHANGED vars /\ chosen' = TRUE /\ cachedChannel' = name
      /\ UNCHANGED <<phase, needle, dialog, m_PanelList, zero, lost, entered>>
    BY DEF OnCbnSelchangeChannelCombo
<1>1. PanelTypes'
    BY <1>0 DEF MfcInv, PanelTypes
<1>2. (PhaseInv /\ ListInv /\ ZeroedInv)'
    BY <1>0, SettingsUnchanged
    DEF MfcInv, PhaseInv, ListInv, ZeroedInv, MessageLoop, NoRows
<1>3. DialogInv'
    BY <1>0, SettingsUnchanged DEF MfcInv, DialogInv
<1>4. (SourcesInv /\ NamedInv)'
    BY <1>0, SettingsUnchanged DEF MfcInv, SourcesInv, SourceKept
<1> QED
    BY <1>1, <1>2, <1>3, <1>4 DEF MfcInv

(* Back in the main dialog the row of the channel is written again.        *)
LEMMA BackStep ==
    ASSUME MfcInv, RegistryInv', NamedInv', phase = "dialog", BackToMain,
           NEW c \in Channel, dialog = c, OthersKept(c), entered' \subseteq Channel,
           \A d \in Channel \ {c} : d \in entered' <=> d \in entered,
           SourceKept(c)'
    PROVE  MfcInv'
<1>0. /\ phase' = "main" /\ dialog' = 0 /\ cachedChannel' = "Unallocated"
      /\ chosen' = FALSE /\ needle' = needle /\ zero' = zero /\ lost' = lost
      /\ m_PanelList' = [d \in Live |-> IF d = c THEN Row(d)' ELSE m_PanelList[d]]
      /\ c \in Live
    BY DEF BackToMain, NoDialog, MfcInv, DialogInv
<1>1. PanelTypes'
    <2>1. 0 \in Channel /\ "Unallocated" \in Names
        BY NamesAssumption, ChannelsAssumption DEF Channel
    <2> QED
        BY <1>0, <2>1 DEF MfcInv, PanelTypes, Phases
<1>2. (PhaseInv /\ DialogInv /\ ZeroedInv)'
    BY <1>0 DEF OthersKept, MfcInv, PhaseInv, DialogInv, ZeroedInv, MessageLoop
<1>3. ListInv'
    <2>1. /\ m_PanelList \in [Live -> RowType]
          /\ \A d \in Live \ {c} : m_PanelList[d] = Row(d)
        BY DEF MfcInv, ListInv, MessageLoop
    <2>2. calibration_values' \in [Live -> Byte] /\ DOMAIN data_source_callbacks' = Live
        BY DEF RegistryInv, TypeOK, OthersKept, TablesThere, Live
    <2>3. Row(c)' \in RowType
        BY <1>0, <2>2 DEF NamedInv, Row, RowType
    <2>4. m_PanelList' \in [Live -> RowType] /\ \A d \in Live : m_PanelList'[d] = Row(d)'
        BY <1>0, <2>1, <2>3 DEF OthersKept
    <2> QED
        BY <2>4 DEF ListInv, OthersKept
<1>4. SourcesInv'
    BY <1>0 DEF OthersKept, MfcInv, SourcesInv, SourceKept
<1> QED
    BY <1>1, <1>2, <1>3, <1>4 DEF MfcInv

LEMMA OnCancelStep ==
    ASSUME MfcInv, RegistryInv', OnCancel
    PROVE  MfcInv'
<1>0. /\ phase = "dialog" /\ BackToMain /\ entered' = entered \ {dialog}
      /\ dialog \in Live /\ dialog \in Channel /\ cachedChannel \in Names /\ TablesThere
      /\ entered \subseteq Channel
    BY DEF OnCancel, MfcInv, PhaseInv, DialogInv, PanelTypes
<1>1. PICK c \in Live, name \in Names, written \in BOOLEAN :
         c = dialog /\ set_channel_source_binding(c, name, written)
    BY <1>0 DEF OnCancel
<1>2. /\ OthersKept(c) /\ NamedInv'
      /\ <<c, "channel">> \in acknowledged' => data_source_callbacks'[c] = StoredSource(c)'
    BY <1>0, <1>1, SourceFrame
<1>3. SourceKept(c)'
    BY <1>2 DEF SourceKept
<1> QED
    BY <1>0, <1>1, <1>2, <1>3, BackStep

LEMMA OnOKStep ==
    ASSUME MfcInv, RegistryInv', OnOK
    PROVE  MfcInv'
<1>0. /\ phase = "dialog" /\ BackToMain /\ entered' = entered \cup {dialog}
      /\ UNCHANGED vars /\ dialog \in Channel /\ Usable /\ TablesThere
      /\ entered \subseteq Channel
    BY DEF OnOK, MfcInv, PhaseInv, PanelTypes
<1>1. PICK c \in Channel : c = dialog
    BY <1>0
<1>2. OthersKept(c) /\ NamedInv'
    BY <1>0, <1>1, SettingsUnchanged DEF OthersKept, MfcInv
<1>3. SourceKept(c)'
    BY <1>0, <1>1 DEF SourceKept
<1> QED
    BY <1>0, <1>1, <1>2, <1>3, BackStep

LEMMA CloseStep ==
    ASSUME MfcInv, RegistryInv', Close
    PROVE  MfcInv'
<1>0. /\ UNCHANGED vars /\ channel_count \in 0..MaxChannels
      /\ phase = "main" /\ phase' = "zeroing" /\ zero' = 0 /\ m_PanelList' = NoRows
      /\ Usable /\ TablesThere
    BY DEF Close, MfcInv, RegistryInv, TypeOK, PhaseInv
<1>1. PanelTypes'
    BY DEF Close, dialogVars, MfcInv, PanelTypes, Phases
<1>2. PhaseInv'
    <2>1. zero' \in 0..channel_count'
        BY <1>0, SettingsUnchanged, ChannelsAssumption
    <2> QED
        BY <1>0, <2>1, SettingsUnchanged DEF PhaseInv, NoRows
<1>3. (ListInv /\ DialogInv)'
    BY <1>0 DEF ListInv, DialogInv, MessageLoop
<1>4. ZeroedInv'
    BY <1>0, ChannelsAssumption DEF ZeroedInv, Channel
<1>5. (SourcesInv /\ NamedInv)'
    BY <1>0, SettingsUnchanged DEF MfcInv, SourcesInv
<1> QED
    BY <1>1, <1>2, <1>3, <1>4, <1>5 DEF MfcInv

LEMMA ZeroNextStep ==
    ASSUME MfcInv, RegistryInv', ZeroNext
    PROVE  MfcInv'
<1>0. /\ UNCHANGED vars /\ channel_count \in 0..MaxChannels
      /\ phase = "zeroing" /\ phase' = "zeroing"
      /\ zero \in 0..channel_count /\ zero < channel_count /\ zero' = zero + 1
      /\ Usable /\ TablesThere
    BY DEF ZeroNext, MfcInv, RegistryInv, TypeOK, PhaseInv
<1>1. zero \in Channel
    BY <1>0, ChannelsAssumption DEF Channel
<1>2. PICK transfer \in Transfers :
         /\ needle' = send_usage(needle, zero, 0, Delivered(transfer))
         /\ lost' = IF transfer = "ok" THEN lost ELSE lost \cup {zero}
    BY DEF ZeroNext
<1>3. /\ needle' \in [Channel -> Byte]
      /\ needle' = IF transfer # "failed" THEN [needle EXCEPT ![zero] = 0] ELSE needle
    <2>1. 0 \in Byte
        BY DEF Byte
    <2> QED
        BY <1>1, <1>2, <2>1, TransferMovesOne DEF MfcInv, PanelTypes
<1>4. PanelTypes'
    BY <1>0, <1>1, <1>2, <1>3 DEF ZeroNext, dialogVars, MfcInv, PanelTypes
<1>5. PhaseInv'
    <2>1. zero' \in 0..channel_count'
        BY <1>0, SettingsUnchanged, ChannelsAssumption
    <2>2. m_PanelList' = NoRows
        BY <1>0 DEF ZeroNext, MfcInv, PhaseInv, MessageLoop
    <2> QED
        BY <1>0, <2>1, <2>2, SettingsUnchanged DEF PhaseInv, NoRows
<1>6. (ListInv /\ DialogInv)'
    BY <1>0 DEF ListInv, DialogInv, MessageLoop
<1>7. ZeroedInv'
    <2> SUFFICES ASSUME NEW c \in Channel, c < zero', c \notin lost'
                 PROVE  needle'[c] = 0
        BY DEF ZeroedInv
    <2>1. CASE c = zero
        BY <1>1, <1>2, <1>3, <2>1 DEF MfcInv, PanelTypes
    <2>2. CASE c # zero
        <3>1. c < zero /\ c \notin lost
            BY <1>0, <1>2, <2>2, ChannelsAssumption DEF Channel
        <3> QED
            BY <1>0, <1>3, <2>2, <3>1 DEF MfcInv, PanelTypes, ZeroedInv
    <2> QED
        BY <2>1, <2>2
<1>8. (SourcesInv /\ NamedInv)'
    BY <1>0, SettingsUnchanged DEF MfcInv, SourcesInv
<1> QED
    BY <1>4, <1>5, <1>6, <1>7, <1>8 DEF MfcInv

LEMMA StutterStep ==
    ASSUME MfcInv, RegistryInv', UNCHANGED mfcVars
    PROVE  MfcInv'
<1>0. UNCHANGED <<vars, phase, needle, windowVars>>
    BY DEF mfcVars
<1>1. PanelTypes'
    BY <1>0 DEF windowVars, dialogVars, MfcInv, PanelTypes
<1>2. (PhaseInv /\ ListInv /\ DialogInv /\ ZeroedInv)'
    BY <1>0, SettingsUnchanged
    DEF windowVars, dialogVars, MfcInv, PhaseInv, ListInv, DialogInv, ZeroedInv,
        MessageLoop, NoRows
<1>3. (SourcesInv /\ NamedInv)'
    BY <1>0, SettingsUnchanged
    DEF windowVars, dialogVars, MfcInv, SourcesInv, SourceKept
<1> QED
    BY <1>1, <1>2, <1>3 DEF MfcInv

LEMMA NextMfcInv ==
    ASSUME MfcInv, [MfcNext]_mfcVars
    PROVE  MfcInv'
<1>0. RegistryInv'
    BY PanelStepsAreRegistrySteps, NextRegistryInv DEF MfcInv
<1>1. CASE Starting
    BY <1>0, <1>1, QueryPanelStep, QueryNeverReturnsStep, LoadChannelsStep,
       OnInitDialogStep, EndStep DEF Starting
<1>2. CASE timer_proc
    BY <1>0, <1>2, TimerStep
<1>3. CASE Adjusting
    BY <1>0, <1>3, OpenDialogStep, SliderStep, ComboStep, OnCancelStep, OnOKStep
    DEF Adjusting
<1>4. CASE Ending
    BY <1>0, <1>4, CloseStep, ZeroNextStep, EndStep DEF Ending
<1>5. CASE UNCHANGED mfcVars
    BY <1>0, <1>5, StutterStep
<1> QED
    BY <1>1, <1>2, <1>3, <1>4, <1>5 DEF MfcNext

---------------------------------------------------------------------------
(* Theorems                                                                *)

(* The inductive invariant of the running panel.                           *)
THEOREM MfcInvariance == MfcSafety => []MfcInv
<1>1. MfcInit => MfcInv
    BY MfcInitInv
<1>2. MfcInv /\ [MfcNext]_mfcVars => MfcInv'
    BY NextMfcInv
<1> QED
    BY <1>1, <1>2, PTL DEF MfcSafety

(* The panel implements the settings of RegistryConfig: every theorem      *)
(* about RegistrySafety holds of the running panel.                        *)
THEOREM PanelImplementsRegistry == MfcSafety => RegistrySafety
<1>1. MfcInit => Init
    BY DEF MfcInit
<1>2. MfcInv /\ [MfcNext]_mfcVars => [Next]_vars
    BY PanelStepsAreRegistrySteps
<1> QED
    BY <1>1, <1>2, MfcInvariance, PTL DEF MfcSafety, RegistrySafety

(* In particular: whatever dialogs and kills do to it, and although the    *)
(* constructor looks at no status, what the panel has written is what a    *)
(* later start loads.                                                      *)
THEOREM MfcSettingsDurable == MfcSafety => []RestartRestores
BY PanelImplementsRegistry, RegistrySettingsDurable, PTL

(* Type correctness of the list, the dialog and the panel.                 *)
THEOREM MfcTypeCorrectness == MfcSafety => []MfcTypeOK
<1>1. MfcInv => MfcTypeOK
    <2> SUFFICES ASSUME MfcInv PROVE MfcTypeOK
        OBVIOUS
    <2>1. TypeOK /\ channel_count \in 0..MaxChannels
        BY DEF MfcInv, RegistryInv, TypeOK
    <2>2. m_PanelList \in [(IF MessageLoop THEN Live ELSE {}) ->
                              [name : Names, calibration : Byte]]
        <3>1. CASE MessageLoop
            BY <3>1 DEF MfcInv, ListInv, RowType
        <3>2. CASE ~MessageLoop
            BY <3>2 DEF MfcInv, PhaseInv, NoRows
        <3> QED
            BY <3>1, <3>2
    <2>3. zero \in 0..channel_count
        BY <2>1, ChannelsAssumption DEF MfcInv, PhaseInv
    <2> QED
        BY <2>1, <2>2, <2>3 DEF MfcTypeOK, MfcInv, PanelTypes
<1> QED
    BY <1>1, MfcInvariance, PTL

(* The list shows the live settings of every channel no dialog is busy     *)
(* with, after any sequence of dialogs, failed writes and failed starts.   *)
THEOREM ListIsLive == MfcSafety => []ListShowsLive
<1>1. MfcInv => ListShowsLive
    BY DEF MfcInv, ListInv, ListShowsLive, MessageLoop
<1> QED
    BY <1>1, MfcInvariance, PTL

(* Only its dialog takes a channel's source away, and OnCancel gives it    *)
(* back; OnOK is the exception.                                            *)
THEOREM MfcSourcesReturn == MfcSafety => []PausedOnlyByDialog
<1>1. MfcInv => PausedOnlyByDialog
    <2> SUFFICES ASSUME MfcInv, MessageLoop, NEW c \in Live
                 PROVE  SourceKept(c)
        BY DEF PausedOnlyByDialog, SourceKept, StoredSource
    <2>1. c \in Channel
        BY PanelTables DEF MfcInv, PhaseInv, MessageLoop
    <2> QED
        BY <2>1 DEF MfcInv, SourcesInv, MessageLoop
<1> QED
    BY <1>1, MfcInvariance, PTL

(* A panel that has left InitInstance leaves every needle at zero whose    *)
(* own transfer succeeded.                                                 *)
THEOREM MfcNeedlesLeftAtZero == MfcSafety => []LeftAtZero
<1>1. MfcInv => LeftAtZero
    <2> SUFFICES ASSUME MfcInv, phase = "zeroing", zero = channel_count,
                        NEW c \in Live, c \notin lost
                 PROVE  needle[c] = 0
        BY DEF LeftAtZero
    <2>1. c \in Channel /\ c < zero
        BY PanelTables, ChannelsAssumption DEF MfcInv, PhaseInv, Live
    <2> QED
        BY <2>1 DEF MfcInv, ZeroedInv
<1> QED
    BY <1>1, MfcInvariance, PTL

---------------------------------------------------------------------------
(* What may move a needle                                                  *)

(* A transfer of a handler moves the one needle it names, to the value     *)
(* sent.                                                                   *)
LEMMA TransferMoves ==
    ASSUME MfcInv, NEW d \in Channel, NEW v \in Byte, NEW transfer,
           needle' = send_usage(needle, d, v, Delivered(transfer)),
           NEW c \in Channel
    PROVE  needle'[c] = needle[c] \/ (c = d /\ needle'[c] = v)
<1>1. needle \in [Channel -> Byte]
    BY DEF MfcInv, PanelTypes
<1>2. needle' = IF transfer # "failed" THEN [needle EXCEPT ![d] = v] ELSE needle
    BY <1>1, TransferMovesOne
<1> QED
    BY <1>1, <1>2

(* The slider moves the needle of the dialog's channel, to the value that  *)
(* becomes its calibration.                                                *)
LEMMA SliderMoves ==
    ASSUME MfcInv, NEW val \in Byte, OnHScroll(val), NEW c \in Channel
    PROVE  \/ needle'[c] = needle[c]
           \/ c = dialog /\ needle'[c] = val /\ calibration_values'[c] = val
<1>1. /\ TablesThere /\ dialog \in Live /\ dialog \in Channel
    BY DEF OnHScroll, MfcInv, PhaseInv, DialogInv, PanelTypes
<1>2. PICK d \in Live, written \in BOOLEAN, transfer \in Transfers :
         /\ d = dialog /\ d \in Channel
         /\ set_channel_calibration(d, val, written)
         /\ needle' = send_usage(needle, d, val, Delivered(transfer))
    BY <1>1 DEF OnHScroll
<1>3. calibration_values'[d] = val
    BY <1>1, <1>2, CalibrationFrame
<1> QED
    BY <1>2, <1>3, TransferMoves

(* While a dialog is open only its slider moves its needle: the timer      *)
(* fires, but finds the channel without a source.                          *)
THEOREM MfcDialogHasItsNeedle == MfcSafety => DialogOwnsNeedle
<1>1. MfcInv /\ [MfcNext]_mfcVars =>
         ((phase = "dialog" /\ phase' = "dialog") =>
             needle'[dialog] \in {needle[dialog], calibration_values'[dialog]})
    <2> SUFFICES ASSUME MfcInv, [MfcNext]_mfcVars, phase = "dialog", phase' = "dialog"
                 PROVE  needle'[dialog] \in {needle[dialog], calibration_values'[dialog]}
        OBVIOUS
    <2>0. dialog \in Channel /\ data_source_callbacks[dialog] = "NULL"
        BY DEF MfcInv, PanelTypes, DialogInv
    <2>1. CASE timer_proc
        BY <2>0, <2>1, TimerMoves
    <2>2. ASSUME NEW val \in Byte, OnHScroll(val)
          PROVE  needle'[dialog] \in {needle[dialog], calibration_values'[dialog]}
        BY <2>0, <2>2, SliderMoves
    <2>3. CASE UNCHANGED needle
        BY <2>3
    <2> QED
        BY <2>1, <2>2, <2>3
        DEF MfcNext, Starting, Adjusting, Ending, QueryPanel, QueryNeverReturns,
            LoadChannels, OnInitDialog, OnInitDialogCrashes, OnMenu01Calibrate,
            OnCbnSelchangeChannelCombo, OnCancel, OnOK, BackToMain, Close, ZeroNext,
            Return, Killed, mfcVars
<1> QED
    BY <1>1, MfcInvariance, PTL DEF MfcSafety, DialogOwnsNeedle

(* No needle rises above the calibration its channel has then, even on a   *)
(* channel that was never loaded.                                          *)
THEOREM MfcNeedlesWithinCalibration == MfcSafety => NoOverdrive
<1>1. MfcInv /\ [MfcNext]_mfcVars =>
         \A c \in Channel : needle'[c] > needle[c] => needle'[c] <= calibration_values'[c]
    <2> SUFFICES ASSUME MfcInv, [MfcNext]_mfcVars, NEW c \in Channel,
                        needle'[c] > needle[c]
                 PROVE  needle'[c] <= calibration_values'[c]
        OBVIOUS
    <2>0. needle[c] \in 0..255 /\ needle'[c] # needle[c]
        BY DEF MfcInv, PanelTypes, Byte
    <2>1. CASE timer_proc
        BY <2>0, <2>1, TimerMoves DEF timer_proc, vars
    <2>2. ASSUME NEW val \in Byte, OnHScroll(val)
          PROVE  needle'[c] <= calibration_values'[c]
        BY <2>0, <2>2, SliderMoves DEF Byte
    <2>3. CASE ZeroNext
        <3>1. zero \in Channel /\ 0 \in Byte
            BY <2>3, ChannelsAssumption
            DEF ZeroNext, MfcInv, PhaseInv, RegistryInv, TypeOK, Channel, Byte
        <3>2. PICK transfer \in Transfers :
                 needle' = send_usage(needle, zero, 0, Delivered(transfer))
            BY <2>3 DEF ZeroNext
        <3>3. needle'[c] = 0
            BY <2>0, <3>1, <3>2, TransferMoves
        <3> QED
            BY <2>0, <3>3
    <2>4. CASE UNCHANGED needle
        BY <2>0, <2>4
    <2> QED
        BY <2>1, <2>2, <2>3, <2>4
        DEF MfcNext, Starting, Adjusting, Ending, QueryPanel, QueryNeverReturns,
            LoadChannels, OnInitDialog, OnInitDialogCrashes, OnMenu01Calibrate,
            OnCbnSelchangeChannelCombo, OnCancel, OnOK, BackToMain, Close, Return,
            Killed, mfcVars
<1> QED
    BY <1>1, MfcInvariance, PTL DEF MfcSafety, NoOverdrive

---------------------------------------------------------------------------
(* What may change a stored source                                         *)

StoredName(h, c) == registry[h].channel[c]

(* A write to one name changes that name only.                             *)
LEMMA OneNameWritten ==
    ASSUME MfcInv, NEW d \in Channel, NEW name \in Names, registry_key \in Hives,
           registry' = [registry EXCEPT ![registry_key].channel[d] = name],
           NEW h \in Hives, NEW c \in Channel
    PROVE  \/ StoredName(h, c)' = StoredName(h, c)
           \/ h = registry_key /\ c = d /\ StoredName(h, c)' = name
<1>1. registry \in [Hives -> Values]
    BY DEF MfcInv, RegistryInv, TypeOK, Values
<1>2. CASE h = registry_key
    <2>1. registry'[h].channel = [registry[h].channel EXCEPT ![d] = name]
        BY <1>1, <1>2
    <2>2. registry[h].channel \in [Channel -> Names \cup {Overlong, Missing}]
        BY <1>1 DEF Values
    <2> QED
        BY <1>2, <2>1, <2>2 DEF StoredName
<1>3. CASE h # registry_key
    BY <1>1, <1>3 DEF StoredName
<1> QED
    BY <1>2, <1>3

(* A write to a calibration changes no name.                               *)
LEMMA OneCalibrationWritten ==
    ASSUME MfcInv, NEW d \in Channel, NEW v, registry_key \in Hives,
           registry' = [registry EXCEPT ![registry_key].calibration[d] = v],
           NEW h \in Hives, NEW c \in Channel
    PROVE  StoredName(h, c)' = StoredName(h, c)
<1>1. registry \in [Hives -> Values]
    BY DEF MfcInv, RegistryInv, TypeOK, Values
<1>2. registry'[h].channel = registry[h].channel
    BY <1>1 DEF Values
<1> QED
    BY <1>2 DEF StoredName

(* A name comes back from the source it means, unless it means none.       *)
LEMMA NameComesBack ==
    ASSUME NEW name
    PROVE  callback_to_name_string(name_string_to_callback(name))
              = IF name_string_to_callback(name) = "NULL" THEN "Unallocated" ELSE name
BY DEF name_string_to_callback, callback_to_name_string

(* Looking is not changing: a stored name changes only when the user chose *)
(* one in its channel's dialog, or live and stored source had come apart   *)
(* before, or to "Unallocated" where it meant no source.  A start replaces *)
(* only what it cannot read, the slider changes no name, and a dialog      *)
(* opened and closed again keeps every name of a source.                   *)
THEOREM LookingIsNotChanging == MfcSafety => StoredSourcesSurvive
<1> DEFINE Excused(h, c) ==
              /\ h = registry_key
              /\ phase = "dialog" /\ dialog = c
              /\ chosen \/ <<c, "channel">> \notin acknowledged \/ c \in entered
           Unallocated(h, c) ==
              /\ h = registry_key
              /\ StoredName(h, c)' = "Unallocated"
              /\ IF Loading THEN ~Readable(StoredName(h, c))
                 ELSE /\ phase = "dialog" /\ dialog = c
                      /\ name_string_to_callback(StoredName(h, c)) = "NULL"
<1>1. ASSUME MfcInv, [MfcNext]_mfcVars, NEW h \in Hives, NEW c \in Channel
      PROVE  StoredName(h, c)' = StoredName(h, c) \/ Excused(h, c) \/ Unallocated(h, c)
    <2>1. CASE registry' = registry
        BY <2>1 DEF StoredName
    <2>2. CASE LoadChannels
        <3>1. Loading /\ [Next]_vars
            BY <2>2 DEF LoadChannels, LoadStep, OpenKey, ReadBinding, ReplaceBinding,
               ReadCalibration, AddCalibration, Loading, Next
        <3>2. CASE /\ registry_key \in Hives /\ next \in Channel
                   /\ ~Readable(Here.channel[next])
                   /\ registry' = [registry EXCEPT
                                      ![registry_key].channel[next] = "Unallocated"]
            <4>1. PICK d \in Channel, name \in Names : d = next /\ name = "Unallocated"
                BY <3>2, NamesAssumption
            <4>2. h = registry_key => ~Readable(StoredName(h, d))
                BY <3>2, <4>1 DEF StoredName, Here
            <4>3. \/ StoredName(h, c)' = StoredName(h, c)
                  \/ h = registry_key /\ c = d /\ StoredName(h, c)' = name
                <5>1. MfcInv /\ registry_key \in Hives
                    BY <1>1, <3>2
                <5>2. registry' = [registry EXCEPT ![registry_key].channel[d] = name]
                    BY <3>2, <4>1
                <5> QED
                    BY <5>1, <5>2, OneNameWritten DEF StoredName
            <4> QED
                BY <3>1, <4>1, <4>2, <4>3
        <3>3. CASE /\ registry_key \in Hives /\ next \in Channel
                   /\ registry' = [registry EXCEPT
                                      ![registry_key].calibration[next] =
                                         MissingCalibration(Here.channel[next])]
            BY <1>1, <3>3, OneCalibrationWritten
        <3> QED
            BY <1>1, <2>1, <3>1, <3>2, <3>3, LoadWrites DEF MfcInv
    <2>3. ASSUME NEW val \in Byte, OnHScroll(val)
          PROVE  StoredName(h, c)' = StoredName(h, c)
        <3>1. dialog \in Channel /\ registry_key \in Hives \cup {NoKey}
            BY <1>1 DEF MfcInv, PanelTypes, RegistryInv, TypeOK
        <3>2. CASE registry' = registry
            BY <3>2 DEF StoredName
        <3>3. CASE registry' # registry
            <4>1. /\ registry_key \in Hives
                  /\ registry' =
                        [registry EXCEPT ![registry_key].calibration[dialog] = val]
                BY <2>3, <3>1, <3>3 DEF OnHScroll, set_channel_calibration
            <4> QED
                BY <1>1, <3>1, <4>1, OneCalibrationWritten
        <3> QED
            BY <3>2, <3>3
    <2>4. CASE OnCancel
        <3>1. PICK d \in Channel, name \in Names :
                 /\ d = dialog /\ name = cachedChannel
                 /\ \/ registry' = registry
                    \/ /\ registry_key \in Hives
                       /\ registry' = [registry EXCEPT ![registry_key].channel[d] = name]
            BY <1>1, <2>4
            DEF OnCancel, set_channel_source_binding, MfcInv, PanelTypes, RegistryInv,
                TypeOK
        <3>2. CASE registry' = registry
            BY <3>2 DEF StoredName
        <3>3. CASE h = registry_key /\ c = d /\ StoredName(h, c)' = name /\ ~Excused(h, c)
            <4>1. /\ name = callback_to_name_string(StoredSource(c))
                  /\ phase = "dialog" /\ dialog = c
                BY <1>1, <2>4, <3>1, <3>3 DEF OnCancel, MfcInv, DialogInv
            <4>2. StoredSource(c) = name_string_to_callback(StoredName(h, c))
                BY <3>3 DEF StoredSource, StoredName, Here
            <4>3. ~Loading
                BY <1>1, <4>1 DEF MfcInv, PhaseInv, Usable, Loading
            <4> QED
                BY <3>3, <4>1, <4>2, <4>3, NameComesBack
        <3> QED
            BY <1>1, <3>1, <3>2, <3>3, OneNameWritten
    <2> QED
        BY <1>1, <2>1, <2>2, <2>3, <2>4
        DEF MfcNext, Starting, Adjusting, Ending, QueryPanel, AllocateTables,
            AllocationFails, QueryNeverReturns, OnInitDialog, OnInitDialogCrashes,
            timer_proc, OnMenu01Calibrate, clear_binding, OnCbnSelchangeChannelCombo,
            OnOK, Close, ZeroNext, Return, Killed, ProcessEnds, vars, mfcVars
<1>2. MfcInv /\ [MfcNext]_mfcVars =>
         \A h \in Hives, c \in Channel :
            \/ registry'[h].channel[c] = registry[h].channel[c]
            \/ Excused(h, c)
            \/ /\ h = registry_key
               /\ registry'[h].channel[c] = "Unallocated"
               /\ IF Loading THEN ~Readable(registry[h].channel[c])
                  ELSE /\ phase = "dialog" /\ dialog = c
                       /\ name_string_to_callback(registry[h].channel[c]) = "NULL"
    BY <1>1 DEF StoredName
<1> QED
    BY <1>2, MfcInvariance, PTL DEF MfcSafety, StoredSourcesSurvive

(* The MFC control panel keeps the contract of the settings, although it   *)
(* goes on after a start that failed.                                      *)
THEOREM MfcPanelKeepsTheContract == MfcSafety => KeepsContract
BY PanelImplementsRegistry, WindowsSettingsKeepTheContract, PTL

---------------------------------------------------------------------------
(* How the constructor and InitInstance end                                *)

(* The program's steps outside its message loops.                          *)
Proceed == LoadChannels \/ OnInitDialog \/ OnInitDialogCrashes \/ ZeroNext \/ Return

UnderWay == phase \in {"constructing", "zeroing"}

(* The steps it has ahead of it before the main dialog is up, or           *)
(* InitInstance has returned, at the most.                                 *)
ThreadStepsLeft ==
    CASE phase = "constructing" -> 1 + IF Loading THEN StepsLeft ELSE 0
      [] phase = "zeroing" -> 1 + (channel_count - zero)
      [] OTHER -> 0

LEMMA ThreadStepsLeftBounds ==
    ASSUME MfcInv, UnderWay
    PROVE  ThreadStepsLeft \in 1..(2 * MaxChannels + 2)
<1>0. MaxChannels \in Nat /\ 1 <= MaxChannels
    BY ChannelsAssumption
<1>1. CASE phase = "constructing"
    <2>1. ThreadStepsLeft = 1 + IF Loading THEN StepsLeft ELSE 0
        BY <1>1, Zenon DEF ThreadStepsLeft
    <2>2. Loading => StepsLeft \in 1..(2 * MaxChannels + 1)
        BY StepsLeftBounds DEF MfcInv
    <2> QED
        BY <1>0, <2>1, <2>2, SMT
<1>2. CASE phase = "zeroing"
    <2>1. ThreadStepsLeft = 1 + (channel_count - zero)
        BY <1>2, Zenon DEF ThreadStepsLeft
    <2>2. zero \in 0..channel_count /\ channel_count \in 0..MaxChannels
        BY <1>2 DEF MfcInv, PhaseInv, RegistryInv, TypeOK
    <2> QED
        BY <1>0, <2>1, <2>2, SMT
<1> QED
    BY <1>1, <1>2 DEF UnderWay

(* A step of the loading loop changes the stage or opens the key.          *)
LEMMA LoadStepMoves ==
    ASSUME MfcInv, LoadStep
    PROVE  Loading /\ ~UNCHANGED vars
<1>1. CASE OpenKey
    BY <1>1, SentinelAssumption DEF OpenKey, Loading, vars
<1>2. CASE LoadStep /\ ~OpenKey
    <2>1. Loading /\ stage' # stage
        BY <1>2
        DEF LoadStep, ReadBinding, ReplaceBinding, ReadCalibration, AddCalibration,
            NextChannel, Loading
    <2> QED
        BY <2>1 DEF vars
<1> QED
    BY <1>1, <1>2

LEMMA ThreadProgress ==
    ASSUME MfcInv, MfcInv', Proceed
    PROVE  ThreadStepsLeft' < ThreadStepsLeft
<1>0. MaxChannels \in Nat /\ channel_count \in 0..MaxChannels
    BY ChannelsAssumption DEF MfcInv, RegistryInv, TypeOK
<1>1. CASE LoadChannels
    <2>1. LoadStep /\ phase = "constructing" /\ phase' = "constructing"
        BY <1>1 DEF LoadChannels
    <2>2. Loading /\ ~UNCHANGED vars
        BY <2>1, LoadStepMoves
    <2>3. ~Loading' \/ StepsLeft' < StepsLeft
        BY <2>1, <2>2, LoadStepProgress DEF MfcInv, Next
    <2>4. StepsLeft \in 1..(2 * MaxChannels + 1)
        BY <2>2, StepsLeftBounds DEF MfcInv
    <2>5. StepsLeft' \in Int
        <3>1. channel_count' \in Nat /\ next' \in Nat
            BY DEF MfcInv, RegistryInv, TypeOK
        <3> QED
            BY <3>1, SMT DEF StepsLeft
    <2>6. ThreadStepsLeft = 1 + StepsLeft
        BY <2>1, <2>2, Zenon DEF ThreadStepsLeft
    <2>7. /\ Loading' => ThreadStepsLeft' = 1 + StepsLeft'
          /\ ~Loading' => ThreadStepsLeft' = 1 + 0
        BY <2>1, Zenon DEF ThreadStepsLeft
    <2> HIDE DEF StepsLeft
    <2>8. StepsLeft \in Int /\ 1 <= StepsLeft
        BY <1>0, <2>4, SMT
    <2>9. CASE StepsLeft' < StepsLeft /\ ThreadStepsLeft' = 1 + StepsLeft'
        <3>1. ASSUME NEW n \in Int, NEW m \in Int, m < n
              PROVE  1 + m < 1 + n
            BY <3>1, SMT
        <3>2. 1 + StepsLeft' < 1 + StepsLeft
            BY <2>5, <2>8, <2>9, <3>1, Zenon
        <3> QED
            BY <2>6, <2>9, <3>2, Zenon
    <2>10. CASE ThreadStepsLeft' = 1 + 0
        BY <2>6, <2>8, <2>10, SMT
    <2> QED
        BY <2>3, <2>7, <2>9, <2>10, Zenon
<1>2. CASE OnInitDialog \/ OnInitDialogCrashes
    <2>1. ~Loading
        BY <1>2 DEF OnInitDialog, OnInitDialogCrashes, Usable, Loading
    <2>2. ThreadStepsLeft = 1 + 0 /\ ThreadStepsLeft' = 0
        BY <1>2, <2>1, Zenon DEF OnInitDialog, OnInitDialogCrashes, ThreadStepsLeft
    <2> QED
        BY <2>2, SMT
<1>3. CASE ZeroNext
    <2>1. /\ ThreadStepsLeft = 1 + (channel_count - zero)
          /\ ThreadStepsLeft' = 1 + (channel_count' - zero')
          /\ zero' = zero + 1 /\ phase = "zeroing"
        BY <1>3, Zenon DEF ZeroNext, ThreadStepsLeft
    <2>2. channel_count' = channel_count
        BY <1>3 DEF ZeroNext, vars
    <2>3. zero \in 0..channel_count
        BY <2>1 DEF MfcInv, PhaseInv
    <2> QED
        BY <1>0, <2>1, <2>2, <2>3, SMT
<1>4. CASE Return
    <2>1. /\ ThreadStepsLeft = 1 + (channel_count - zero)
          /\ ThreadStepsLeft' = 0 /\ zero = channel_count
        BY <1>4, Zenon DEF Return, ThreadStepsLeft
    <2> QED
        BY <1>0, <2>1, SMT
<1> QED
    BY <1>1, <1>2, <1>3, <1>4 DEF Proceed

(* Neither the timer nor the user can do anything meanwhile.               *)
LEMMA OthersWait ==
    ASSUME UnderWay, [MfcNext]_mfcVars, ~Proceed
    PROVE  phase' = "off" \/ UNCHANGED mfcVars
<1>1. phase \notin {"off", "main", "dialog"}
    BY DEF UnderWay
<1>2. ~QueryPanel /\ ~QueryNeverReturns /\ ~timer_proc /\ ~OnCancel /\ ~OnOK /\ ~Close
    BY <1>1, Zenon DEF QueryPanel, QueryNeverReturns, timer_proc, MessageLoop, OnCancel, OnOK,
       Close
<1>3. /\ \A c \in Live : ~OnMenu01Calibrate(c)
      /\ \A val \in Byte : ~OnHScroll(val)
      /\ \A name \in Names : ~OnCbnSelchangeChannelCombo(name)
    BY <1>1, Zenon DEF OnMenu01Calibrate, OnHScroll, OnCbnSelchangeChannelCombo
<1>4. Killed => phase' = "off"
    BY DEF Killed
<1> QED
    BY <1>2, <1>3, <1>4 DEF MfcNext, Starting, Adjusting, Ending, Proceed

(* The constructor comes to the main dialog, or to the crash of a start    *)
(* without tables, and a program whose main dialog is closed comes to its  *)
(* end, for any panel, registry, outcome of a write and of a transfer:     *)
(* each step brings them nearer to it, and nothing but a kill intervenes.  *)
THEOREM ThreadMakesProgress ==
    MfcSafety =>
        /\ [](UnderWay => ThreadStepsLeft \in 1..(2 * MaxChannels + 2))
        /\ [][UnderWay => IF Proceed THEN ThreadStepsLeft' < ThreadStepsLeft
                          ELSE phase' = "off"]_mfcVars
<1>1. MfcInv => (UnderWay => ThreadStepsLeft \in 1..(2 * MaxChannels + 2))
    BY ThreadStepsLeftBounds
<1>2. MfcInv /\ MfcInv' /\ [MfcNext]_mfcVars =>
          [UnderWay => IF Proceed THEN ThreadStepsLeft' < ThreadStepsLeft
                      ELSE phase' = "off"]_mfcVars
    BY ThreadProgress, OthersWait
<1> HIDE DEF MfcInv
<1> QED
    BY <1>1, <1>2, MfcInvariance, PTL DEF MfcSafety

===============================================================================
