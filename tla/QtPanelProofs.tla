---------------------------- MODULE QtPanelProofs ----------------------------
(***************************************************************************)
(* Theorems about QtPanel, for any number of channels, source names,       *)
(* slider positions, replies and outcomes of saves and transfers.          *)
(*                                                                         *)
(* First the refinement: whatever the window, the dialog and the shutdown  *)
(* do to the settings is a step of LinuxConfig, so that everything proved  *)
(* of LinuxConfig holds in the running panel.  Then the window's own       *)
(* invariants, which relate the table, the dialog, the needles and the     *)
(* live settings; and how main and the handlers end.                       *)
(***************************************************************************)
EXTENDS QtPanel, LinuxConfigProofs

Windowed == phase \in {"main", "constructing", "dialog", "closed"}

RowType == [name : Names, calibration : Byte]

PanelTypes ==
    /\ phase \in Phases
    /\ needle \in [Channel -> Byte]
    /\ link \in Links
    /\ dialog \in Channel
    /\ slider \in Byte
    /\ cachedChannelName \in Names
    /\ lost \subseteq Channel
    /\ escaped \subseteq Channel

PhaseInv ==
    /\ phase \in {"off", "opened", "hung"} => stage = "off"
    /\ phase = "loading" => stage # "off"
    /\ Windowed \/ phase = "zeroing" => stage = "ready"
    /\ phase \in {"constructing", "dialog", "closed"} => dialog \in Live
    /\ phase = "dialog" => data_source_callbacks[dialog] = "NULL"
    /\ phase = "zeroing" => zero \in 0..channel_count
    /\ phase # "zeroing" => zero = 0
    /\ ~Windowed => table = NoRows

TableInv ==
    Windowed =>
        /\ table \in [Live -> RowType]
        /\ \A c \in Live : phase = "main" \/ c # dialog => table[c] = Row(c)

SourceKept(c) ==
    \/ data_source_callbacks[c] = name_string_to_callback(root.channel[c])
    \/ phase = "dialog" /\ dialog = c
    \/ <<c, "channel">> \in rejected
    \/ c \in escaped

SourcesInv == \A c \in BoundChannels : SourceKept(c)

ZeroedInv ==
    phase = "zeroing" =>
        \A c \in Channel : c < zero /\ c \notin lost => needle[c] = 0

QtInv ==
    ConfigInv /\ PanelTypes /\ PhaseInv /\ TableInv /\ SourcesInv /\ ZeroedInv

---------------------------------------------------------------------------
(* The wire                                                                *)

(* The word carries channel and value without loss: a delivered transfer   *)
(* moves the needle it is meant for, and no other.                         *)
LEMMA TransferMovesOne ==
    ASSUME NEW panel \in [Channel -> Byte], NEW c \in Channel, NEW v \in Byte,
           NEW transfer
    PROVE  /\ send_usage(panel, c, v, Delivered(transfer)) \in [Channel -> Byte]
           /\ send_usage(panel, c, v, Delivered(transfer))
                 = IF transfer # "failed" THEN [panel EXCEPT ![c] = v] ELSE panel
<1>1. Channel \subseteq Nat /\ (Delivered(transfer) <=> transfer # "failed")
    BY ChannelsAssumption DEF Channel, Delivered
<1> QED
    BY <1>1, SendUsageMovesOne

(* A row of the window's table is a known name and a byte.                 *)
LEMMA RowTypes ==
    ASSUME ConfigInv, stage = "ready", NEW c \in Live
    PROVE  Row(c) \in RowType
<1>1. calibration_values[c] \in Byte
    BY ReadyTables DEF Allocated, Live
<1> QED
    BY <1>1, NamesAssumption
    DEF Row, RowType, get_source_binding_name, callback_to_name_string

(* What a panel may answer is a number of channels the tables can hold.    *)
LEMMA CountsInRange ==
    ASSUME NEW n \in {0} \cup UNION {ChannelCounts(reply) : reply \in Replies}
    PROVE  n \in 0..MaxChannels
<1>1. ASSUME NEW reply \in Replies, n \in ChannelCounts(reply)
      PROVE  n \in 0..MaxChannels
    BY <1>1, RepliesAssumption, ChannelsAssumption
    DEF ChannelCounts, RawValue, ReportsRawValue, Byte
<1> QED
    BY <1>1, ChannelsAssumption

---------------------------------------------------------------------------
(* The panel does nothing to the settings LinuxConfig does not allow.      *)

LEMMA PanelStepsAreConfigSteps ==
    ASSUME QtInv, [QtNext]_qtVars
    PROVE  [ConfigNext]_configVars
<1>1. CASE OpenDevice \/ QueryNeverReturns \/ ShowPanel \/ main_loop_callback
    BY <1>1 DEF OpenDevice, QueryNeverReturns, ShowPanel, main_loop_callback
<1>2. CASE Escape \/ RefreshRow \/ Quit \/ ZeroNext \/ LinkChanges
    BY <1>2 DEF Escape, RefreshRow, Quit, ZeroNext, LinkChanges
<1>3. CASE QueryPanel
    <2>1. PICK n \in {0} \cup UNION {ChannelCounts(reply) : reply \in Replies} :
             AllocateTables(n) \/ AllocationFails(n)
        BY <1>3 DEF QueryPanel
    <2>2. n \in 0..MaxChannels
        BY CountsInRange
    <2> QED
        BY <2>1, <2>2 DEF ConfigNext
<1>4. CASE LoadChannels
    BY <1>4 DEF LoadChannels, ConfigNext
<1>5. CASE GiveUp \/ Return \/ Killed
    BY <1>5 DEF GiveUp, Return, Killed, ConfigNext
<1>6. ASSUME NEW c \in Live, OpenAdjust(c)
      PROVE  [ConfigNext]_configVars
    <2>1. stage = "ready"
        BY <1>6 DEF OpenAdjust, QtInv, PhaseInv, Windowed
    <2> QED
        BY <1>6, <2>1 DEF OpenAdjust, ConfigNext, Change
<1>7. CASE PauseChannel
    <2>1. stage = "ready" /\ dialog \in Live
        BY <1>7 DEF PauseChannel, QtInv, PhaseInv, Windowed
    <2> QED
        BY <1>7, <2>1 DEF PauseChannel, ConfigNext, Change
<1>8. ASSUME NEW v \in SliderValues, on_slide_calibration_valueChanged(v)
      PROVE  [ConfigNext]_configVars
    <2>1. stage = "ready" /\ dialog \in Live
        BY <1>8 DEF on_slide_calibration_valueChanged, QtInv, PhaseInv, Windowed
    <2> QED
        BY <1>8, <2>1 DEF on_slide_calibration_valueChanged, ConfigNext, Change
<1>9. ASSUME NEW name \in Names, on_combo_channel_currentTextChanged(name)
      PROVE  [ConfigNext]_configVars
    BY <1>9 DEF on_combo_channel_currentTextChanged
<1>10. CASE closeEvent
    <2>1. stage = "ready" /\ dialog \in Live /\ cachedChannelName \in Names
        BY <1>10 DEF closeEvent, QtInv, PhaseInv, PanelTypes, Windowed
    <2> QED
        BY <1>10, <2>1 DEF closeEvent, ConfigNext, Change
<1>11. CASE UNCHANGED qtVars
    BY <1>11 DEF qtVars
<1> QED
    BY <1>1, <1>2, <1>3, <1>4, <1>5, <1>6, <1>7, <1>8, <1>9, <1>10, <1>11
    DEF QtNext, Starting, Adjusting, Ending

---------------------------------------------------------------------------
(* One lemma per action: it preserves the invariant.                       *)

LEMMA QtInitInv == QtInit => QtInv
<1> SUFFICES ASSUME QtInit PROVE QtInv
    OBVIOUS
<1>1. ConfigInv
    BY InitConfigInv DEF QtInit
<1>2. PanelTypes
    BY NamesAssumption, ChannelsAssumption
    DEF QtInit, PanelTypes, Phases, Byte, Channel
<1>3. PhaseInv /\ TableInv /\ ZeroedInv
    BY DEF QtInit, ConfigInit, PhaseInv, TableInv, ZeroedInv, Windowed
<1>4. SourcesInv
    BY DEF QtInit, ConfigInit, SourcesInv, BoundChannels, Live
<1> QED
    BY <1>1, <1>2, <1>3, <1>4 DEF QtInv

(* Nothing derived from the settings changes when they do not.             *)
LEMMA SettingsUnchanged ==
    ASSUME UNCHANGED configVars
    PROVE  /\ Live' = Live /\ BoundChannels' = BoundChannels
           /\ stage' = stage /\ root' = root /\ rejected' = rejected
           /\ channel_count' = channel_count
           /\ data_source_callbacks' = data_source_callbacks
           /\ calibration_values' = calibration_values
           /\ \A c : Row(c)' = Row(c)
BY DEF configVars, Live, BoundChannels, Row, get_source_binding_name

LEMMA OpenDeviceStep ==
    ASSUME QtInv, ConfigInv', OpenDevice \/ QueryNeverReturns
    PROVE  QtInv'
<1>0. UNCHANGED configVars
    BY DEF OpenDevice, QueryNeverReturns
<1>1. PanelTypes'
    BY DEF OpenDevice, QueryNeverReturns, windowVars, dialogVars, QtInv, PanelTypes, Phases
<1>2. (PhaseInv /\ TableInv /\ ZeroedInv)'
    BY <1>0, SettingsUnchanged
    DEF OpenDevice, QueryNeverReturns, windowVars, dialogVars, QtInv, PhaseInv,
        TableInv, ZeroedInv, Windowed, NoRows
<1>3. SourcesInv'
    BY <1>0, SettingsUnchanged
    DEF OpenDevice, QueryNeverReturns, windowVars, QtInv, SourcesInv, SourceKept
<1> QED
    BY <1>1, <1>2, <1>3 DEF QtInv

LEMMA QueryPanelStep ==
    ASSUME QtInv, ConfigInv', QueryPanel
    PROVE  QtInv'
<1>0. PICK n \in 0..MaxChannels : AllocateTables(n) \/ AllocationFails(n)
    BY CountsInRange DEF QueryPanel
<1>1. PanelTypes'
    BY DEF QueryPanel, windowVars, dialogVars, QtInv, PanelTypes, Phases
<1>2. (PhaseInv /\ TableInv /\ ZeroedInv)'
    BY <1>0
    DEF QueryPanel, AllocateTables, AllocationFails, windowVars, dialogVars, QtInv,
        PhaseInv, TableInv, ZeroedInv, Windowed, NoRows
<1>3. BoundChannels' = {}
    BY <1>0 DEF AllocateTables, AllocationFails, BoundChannels, Live
<1> QED
    BY <1>1, <1>2, <1>3 DEF QtInv, SourcesInv

(* While it loads, a start gives each channel the source its key names.    *)
LEMMA LoadChannelsStep ==
    ASSUME QtInv, ConfigInv', LoadChannels
    PROVE  QtInv'
<1>0. Loading /\ phase = "loading" /\ phase' = "loading"
    BY DEF LoadChannels, LoadStep, RefuseConfig, ReadBinding, AddBinding,
           ReadCalibration, AddCalibration, Loading
<1>1. PanelTypes'
    BY DEF LoadChannels, windowVars, dialogVars, QtInv, PanelTypes
<1>2. stage' # "off" /\ channel_count' = channel_count
    BY DEF LoadChannels, LoadStep, RefuseConfig, ReadBinding, AddBinding,
           ReadCalibration, AddCalibration, NextChannel
<1>3. (PhaseInv /\ TableInv /\ ZeroedInv)'
    BY <1>0, <1>2
    DEF LoadChannels, windowVars, dialogVars, QtInv, PhaseInv, TableInv, ZeroedInv,
        Windowed, NoRows
<1>4. SourcesInv'
    <2> SUFFICES ASSUME NEW c \in BoundChannels'
                 PROVE  \/ data_source_callbacks'[c] =
                              name_string_to_callback(root'.channel[c])
                        \/ <<c, "channel">> \in rejected'
                        \/ c \in escaped'
        BY DEF SourcesInv, SourceKept
    <2>0. /\ Allocated(channel_count) /\ next \in Live /\ next \in Channel
          /\ Live \subseteq Channel
        BY <1>0, LoadingTables DEF QtInv
    <2>1. /\ rejected' = rejected /\ escaped' = escaped
          /\ Live' = Live
        BY DEF LoadChannels, windowVars, LoadStep, RefuseConfig, ReadBinding, AddBinding,
               ReadCalibration, AddCalibration, Live
    <2>2. ASSUME c \in BoundChannels, data_source_callbacks'[c] = data_source_callbacks[c],
                 root'.channel[c] = root.channel[c]
          PROVE  \/ data_source_callbacks'[c] =
                       name_string_to_callback(root'.channel[c])
                 \/ <<c, "channel">> \in rejected'
                 \/ c \in escaped'
        BY <1>0, <2>1, <2>2 DEF QtInv, SourcesInv, SourceKept
    <2>3. CASE RefuseConfig
        BY <2>3 DEF RefuseConfig, BoundChannels
    <2>4. CASE ReadBinding
        <3>1. c \in Live /\ c <= next
            BY <2>0, <2>1, <2>4 DEF ReadBinding, BoundChannels
        <3>2. CASE c = next
            BY <2>0, <2>4, <3>2 DEF ReadBinding, Allocated, Live
        <3>3. CASE c # next
            <4>1. c \in BoundChannels
                BY <2>0, <2>4, <3>1, <3>3, ChannelsAssumption
                DEF ReadBinding, BoundChannels, Channel, Live
            <4>2. root # NoRoot
                BY <2>0, <2>4, <3>1, <3>3, ChannelsAssumption, <1>0
                DEF ReadBinding, QtInv, ConfigInv, LoadingInv, Live, Channel
            <4>3. root' = root /\ data_source_callbacks'[c] = data_source_callbacks[c]
                BY <2>0, <2>4, <3>1, <3>3, <4>2
                DEF ReadBinding, OpenedRoot, Allocated, Live
            <4> QED
                BY <2>2, <4>1, <4>3
        <3> QED
            BY <3>2, <3>3
    <2>5. ASSUME NEW outcome \in Outcomes, AddBinding(outcome)
          PROVE  \/ data_source_callbacks'[c] =
                       name_string_to_callback(root'.channel[c])
                 \/ <<c, "channel">> \in rejected'
                 \/ c \in escaped'
        <3>1. OpenedRoot \in Document
            BY <2>5, OpenedRootType DEF AddBinding, QtInv, ConfigInv
        <3>2. root'.channel = [OpenedRoot.channel EXCEPT ![next] = "Unallocated"]
            BY <2>0, <2>5, <3>1, NamesAssumption, PutChannel DEF AddBinding
        <3>3. c \in Live /\ c <= next
            BY <2>0, <2>1, <2>5 DEF AddBinding, BoundChannels
        <3>4. CASE c = next
            <4>1. data_source_callbacks[next] = "NULL"
                BY <1>0, <2>0, <2>5, ChannelsAssumption
                DEF AddBinding, QtInv, ConfigInv, BindingInv, BoundChannels, Channel
            <4>2. root'.channel[c] = "Unallocated"
                BY <2>0, <3>1, <3>2, <3>4 DEF Document
            <4> QED
                BY <2>5, <3>4, <4>1, <4>2 DEF AddBinding, name_string_to_callback
        <3>5. CASE c # next
            <4>1. c \in BoundChannels
                BY <2>0, <2>5, <3>3, <3>5, ChannelsAssumption
                DEF AddBinding, BoundChannels, Channel, Live
            <4>2. root # NoRoot
                BY <2>0, <2>5, <3>3, <3>5, ChannelsAssumption, <1>0
                DEF AddBinding, QtInv, ConfigInv, LoadingInv, Live, Channel
            <4>3. root'.channel[c] = root.channel[c]
                BY <2>0, <3>1, <3>2, <3>3, <3>5, <4>2 DEF OpenedRoot, Document
            <4> QED
                BY <2>2, <2>5, <4>1, <4>3 DEF AddBinding
        <3> QED
            BY <3>4, <3>5
    <2>6. CASE ReadCalibration
        <3>1. BoundChannels' = BoundChannels
            BY <2>6, NextChannelStage DEF ReadCalibration, QtInv
        <3> QED
            BY <2>2, <2>6, <3>1 DEF ReadCalibration
    <2>7. ASSUME NEW outcome \in Outcomes, AddCalibration(outcome)
          PROVE  \/ data_source_callbacks'[c] =
                       name_string_to_callback(root'.channel[c])
                 \/ <<c, "channel">> \in rejected'
                 \/ c \in escaped'
        <3>1. root'.channel = root.channel
            BY <1>0, <2>0, <2>7, PutCalibration, SentinelAssumption
            DEF AddCalibration, QtInv, ConfigInv, TypeOK, LoadingInv, DefaultCalibration
        <3>2. c \in BoundChannels
            <4>1. CASE outcome = "ok"
                BY <2>7, <4>1, NextChannelStage DEF AddCalibration, QtInv
            <4>2. CASE outcome # "ok"
                BY <2>7, <4>2 DEF AddCalibration, BoundChannels
            <4> QED
                BY <4>1, <4>2
        <3> QED
            BY <2>2, <2>7, <3>1, <3>2 DEF AddCalibration
    <2> QED
        BY <2>3, <2>4, <2>5, <2>6, <2>7 DEF LoadChannels, LoadStep
<1> QED
    BY <1>1, <1>3, <1>4 DEF QtInv

LEMMA GiveUpStep ==
    ASSUME QtInv, ConfigInv', GiveUp
    PROVE  QtInv'
<1>1. PanelTypes'
    BY DEF GiveUp, windowVars, dialogVars, QtInv, PanelTypes, Phases
<1>2. (PhaseInv /\ TableInv /\ ZeroedInv)'
    BY DEF GiveUp, ProcessEnds, windowVars, dialogVars, QtInv, PhaseInv, TableInv,
           ZeroedInv, Windowed, NoRows
<1>3. BoundChannels' = {}
    BY DEF GiveUp, ProcessEnds, BoundChannels
<1> QED
    BY <1>1, <1>2, <1>3 DEF QtInv, SourcesInv

LEMMA ShowPanelStep ==
    ASSUME QtInv, ConfigInv', ShowPanel
    PROVE  QtInv'
<1>0. /\ UNCHANGED configVars /\ stage = "ready"
      /\ phase = "loading" /\ phase' = "main"
    BY DEF ShowPanel
<1>1. PanelTypes'
    BY DEF ShowPanel, dialogVars, QtInv, PanelTypes, Phases
<1>2. (PhaseInv /\ ZeroedInv)'
    BY <1>0, SettingsUnchanged
    DEF ShowPanel, dialogVars, QtInv, PhaseInv, ZeroedInv, Windowed
<1>3. TableInv'
    BY <1>0, SettingsUnchanged, RowTypes DEF ShowPanel, TableInv, QtInv
<1>4. SourcesInv'
    BY <1>0, SettingsUnchanged DEF ShowPanel, QtInv, SourcesInv, SourceKept
<1> QED
    BY <1>1, <1>2, <1>3, <1>4 DEF QtInv

(* What the timer leaves on the panel are bytes.                           *)
LEMMA LoopTypes ==
    ASSUME QtInv, stage = "ready", NEW k \in Int, NEW transfer
    PROVE  NeedlesAfterLoop(k, transfer) \in [Channel -> Byte]
<1>1. ASSUME NEW c \in Live
      PROVE  Scaled(data_source_calibration, calibration_values[c]) \in Byte
    BY ReadyTables, FullScaleWithin DEF Allocated, Live, QtInv
<1> QED
    BY <1>1 DEF NeedlesAfterLoop, QtInv, PanelTypes

LEMMA MainLoopStep ==
    ASSUME QtInv, ConfigInv', main_loop_callback
    PROVE  QtInv'
<1>0. /\ UNCHANGED configVars /\ stage = "ready"
      /\ Windowed /\ phase' = phase /\ phase # "zeroing"
    BY DEF main_loop_callback, EventLoop, QtInv, PhaseInv, Windowed
<1>1. needle' \in [Channel -> Byte]
    BY <1>0, LoopTypes DEF main_loop_callback, QtInv, ConfigInv, TypeOK, Live
<1>2. PanelTypes'
    BY <1>1 DEF main_loop_callback, windowVars, dialogVars, QtInv, PanelTypes
<1>3. (PhaseInv /\ TableInv /\ ZeroedInv)'
    BY <1>0, SettingsUnchanged
    DEF main_loop_callback, windowVars, dialogVars, QtInv, PhaseInv, TableInv,
        ZeroedInv, Windowed
<1>4. SourcesInv'
    BY <1>0, SettingsUnchanged
    DEF main_loop_callback, windowVars, dialogVars, QtInv, SourcesInv, SourceKept
<1> QED
    BY <1>2, <1>3, <1>4 DEF QtInv

(* A calibration the dialog sets is live at once or not at all, and the    *)
(* sources do not notice.                                                  *)
LEMMA SetCalibrationFrame ==
    ASSUME QtInv, NEW c \in Live, NEW v \in Byte, NEW outcome \in Outcomes,
           set_channel_calibration(c, v, outcome)
    PROVE  /\ stage = "ready" /\ stage' = "ready"
           /\ Live' = Live /\ channel_count' = channel_count
           /\ BoundChannels = Live /\ BoundChannels' = Live
           /\ data_source_callbacks' = data_source_callbacks
           /\ root'.channel = root.channel
           /\ \A d \in Live : <<d, "channel">> \in rejected
                                 => <<d, "channel">> \in rejected'
           /\ \A d \in Live \ {c} : calibration_values'[d] = calibration_values[d]
           /\ \A d \in Live \ {c} : Row(d)' = Row(d)
<1>1. /\ stage = "ready" /\ stage' = "ready"
      /\ Live' = Live /\ channel_count' = channel_count
      /\ BoundChannels = Live /\ BoundChannels' = Live
      /\ data_source_callbacks' = data_source_callbacks
    BY DEF set_channel_calibration, Live, BoundChannels
<1>2. root \in Document /\ c \in Channel /\ root.calibration[c] # Missing
    BY <1>1, ReadyFacts DEF QtInv
<1>3. root'.channel = root.channel
    BY <1>2, PutCalibration DEF set_channel_calibration, Byte
<1>4. \A d \in Live : <<d, "channel">> \in rejected => <<d, "channel">> \in rejected'
    BY DEF set_channel_calibration, Verdict
<1>5. \A d \in Live \ {c} : calibration_values'[d] = calibration_values[d]
    BY <1>1, ReadyTables DEF set_channel_calibration, Allocated, Live, QtInv
<1>6. \A d \in Live \ {c} : Row(d)' = Row(d)
    BY <1>1, <1>5 DEF Row, get_source_binding_name
<1> QED
    BY <1>1, <1>3, <1>4, <1>5, <1>6

LEMMA OpenAdjustStep ==
    ASSUME QtInv, ConfigInv', NEW c \in Live, OpenAdjust(c)
    PROVE  QtInv'
<1>0. /\ phase = "main" /\ phase' = "constructing" /\ stage = "ready"
      /\ c \in Channel /\ dialog' = c /\ calibration_values[c] \in Byte
      /\ BoundChannels = Live
    BY ReadyTables DEF OpenAdjust, QtInv, PhaseInv, Windowed, Allocated, Live, BoundChannels
<1>1. /\ stage' = "ready" /\ channel_count' = channel_count
      /\ Live' = Live /\ BoundChannels' = Live
      /\ data_source_callbacks' = data_source_callbacks
      /\ root'.channel = root.channel
      /\ \A d \in Live : <<d, "channel">> \in rejected => <<d, "channel">> \in rejected'
      /\ \A d \in Live \ {c} : Row(d)' = Row(d)
    <2>1. CASE UNCHANGED configVars
        BY <1>0, <2>1, SettingsUnchanged
    <2>2. CASE \E outcome \in Outcomes :
                  set_channel_calibration(c, calibration_values[c], outcome)
        BY <1>0, <2>2, SetCalibrationFrame
    <2> QED
        BY <2>1, <2>2 DEF OpenAdjust
<1>2. PanelTypes'
    <2>1. needle' \in [Channel -> Byte]
        BY <1>0, TransferMovesOne DEF OpenAdjust, QtInv, PanelTypes
    <2> QED
        BY <1>0, <2>1 DEF OpenAdjust, QtInv, PanelTypes, Phases
<1>3. (PhaseInv /\ ZeroedInv)'
    BY <1>0, <1>1 DEF OpenAdjust, QtInv, PhaseInv, ZeroedInv, Windowed
<1>4. TableInv'
    BY <1>0, <1>1 DEF OpenAdjust, QtInv, TableInv, Windowed
<1>5. SourcesInv'
    BY <1>0, <1>1 DEF OpenAdjust, QtInv, SourcesInv, SourceKept
<1> QED
    BY <1>2, <1>3, <1>4, <1>5 DEF QtInv

LEMMA PauseChannelStep ==
    ASSUME QtInv, ConfigInv', PauseChannel
    PROVE  QtInv'
<1>0. /\ phase = "constructing" /\ phase' = "dialog" /\ stage = "ready"
      /\ stage' = "ready" /\ dialog \in Live /\ dialog \in Channel
      /\ Live' = Live /\ BoundChannels = Live /\ BoundChannels' = Live
      /\ channel_count' = channel_count
      /\ calibration_values[dialog] \in Byte
      /\ dialog' = dialog /\ table' = table
    BY ReadyTables
    DEF PauseChannel, clear_binding, QtInv, PhaseInv, PanelTypes, Allocated, Live,
        BoundChannels
<1>1. /\ data_source_callbacks'[dialog] = "NULL"
      /\ \A d \in Live \ {dialog} : data_source_callbacks'[d] = data_source_callbacks[d]
      /\ root' = root /\ rejected' = rejected
      /\ calibration_values' = calibration_values
    BY <1>0, ReadyTables DEF PauseChannel, clear_binding, QtInv, Allocated, Live
<1>2. PanelTypes'
    <2>1. needle' \in [Channel -> Byte]
        BY <1>0, TransferMovesOne DEF PauseChannel, QtInv, PanelTypes
    <2>2. cachedChannelName' \in Names
        BY NamesAssumption DEF PauseChannel, get_source_binding_name, callback_to_name_string
    <2> QED
        BY <1>0, <2>1, <2>2 DEF PauseChannel, QtInv, PanelTypes, Phases
<1>3. (PhaseInv /\ ZeroedInv)'
    BY <1>0, <1>1 DEF PauseChannel, QtInv, PhaseInv, ZeroedInv, Windowed
<1>4. TableInv'
    <2>1. \A d \in Live \ {dialog} : Row(d)' = Row(d)
        BY <1>1 DEF Row, get_source_binding_name
    <2> QED
        BY <1>0, <2>1 DEF QtInv, TableInv, Windowed
<1>5. SourcesInv'
    BY <1>0, <1>1 DEF PauseChannel, QtInv, SourcesInv, SourceKept
<1> QED
    BY <1>2, <1>3, <1>4, <1>5 DEF QtInv

LEMMA SliderStep ==
    ASSUME QtInv, ConfigInv', NEW v \in SliderValues,
           on_slide_calibration_valueChanged(v)
    PROVE  QtInv'
<1>0. /\ phase = "dialog" /\ phase' = "dialog" /\ stage = "ready"
      /\ dialog \in Live /\ dialog \in Channel /\ v \in Byte
      /\ dialog' = dialog /\ table' = table /\ escaped' = escaped
    BY CalibrationsAssumption
    DEF on_slide_calibration_valueChanged, QtInv, PhaseInv, PanelTypes, Windowed
<1>1. PICK outcome \in Outcomes : set_channel_calibration(dialog, v, outcome)
    BY DEF on_slide_calibration_valueChanged
<1>2. /\ stage' = "ready" /\ channel_count' = channel_count
      /\ Live' = Live /\ BoundChannels = Live /\ BoundChannels' = Live
      /\ data_source_callbacks' = data_source_callbacks
      /\ root'.channel = root.channel
      /\ \A d \in Live : <<d, "channel">> \in rejected => <<d, "channel">> \in rejected'
      /\ \A d \in Live \ {dialog} : Row(d)' = Row(d)
    BY <1>0, <1>1, SetCalibrationFrame
<1>3. PanelTypes'
    <2>1. needle' \in [Channel -> Byte]
        BY <1>0, TransferMovesOne
        DEF on_slide_calibration_valueChanged, QtInv, PanelTypes
    <2> QED
        BY <1>0, <2>1 DEF on_slide_calibration_valueChanged, QtInv, PanelTypes, Phases
<1>4. (PhaseInv /\ ZeroedInv)'
    BY <1>0, <1>2
    DEF on_slide_calibration_valueChanged, QtInv, PhaseInv, ZeroedInv, Windowed
<1>5. TableInv'
    BY <1>0, <1>2 DEF QtInv, TableInv, Windowed
<1>6. SourcesInv'
    BY <1>0, <1>2 DEF QtInv, SourcesInv, SourceKept
<1> QED
    BY <1>3, <1>4, <1>5, <1>6 DEF QtInv

LEMMA ComboStep ==
    ASSUME QtInv, ConfigInv', NEW name \in Names,
           on_combo_channel_currentTextChanged(name)
    PROVE  QtInv'
<1>0. UNCHANGED configVars
    BY DEF on_combo_channel_currentTextChanged
<1>1. PanelTypes'
    BY DEF on_combo_channel_currentTextChanged, QtInv, PanelTypes
<1>2. (PhaseInv /\ TableInv /\ ZeroedInv)'
    BY <1>0, SettingsUnchanged
    DEF on_combo_channel_currentTextChanged, QtInv, PhaseInv, TableInv, ZeroedInv, Windowed
<1>3. SourcesInv'
    BY <1>0, SettingsUnchanged
    DEF on_combo_channel_currentTextChanged, QtInv, SourcesInv, SourceKept
<1> QED
    BY <1>1, <1>2, <1>3 DEF QtInv

(* closeEvent gives the source back, or the binding counts as rejected.    *)
LEMMA CloseEventStep ==
    ASSUME QtInv, ConfigInv', closeEvent
    PROVE  QtInv'
<1>0. /\ phase = "dialog" /\ phase' = "closed" /\ stage = "ready"
      /\ dialog \in Live /\ dialog \in Channel /\ cachedChannelName \in Names
      /\ dialog' = dialog /\ table' = table
    BY DEF closeEvent, dialogVars, QtInv, PhaseInv, PanelTypes, Windowed
<1>1. PICK outcome \in Outcomes :
         set_channel_source_binding(dialog, cachedChannelName, outcome)
    BY DEF closeEvent
<1>2. root \in Document /\ root.channel[dialog] # Missing
    BY <1>0, ReadyFacts DEF QtInv
<1>3. /\ stage' = "ready" /\ channel_count' = channel_count
      /\ Live' = Live /\ BoundChannels = Live /\ BoundChannels' = Live
      /\ calibration_values' = calibration_values
    BY <1>0, <1>1 DEF set_channel_source_binding, Live, BoundChannels
<1>4. root'.channel = [root.channel EXCEPT ![dialog] = cachedChannelName]
    BY <1>0, <1>1, <1>2, PutChannel DEF set_channel_source_binding
<1>5. \A d \in Live \ {dialog} :
         /\ data_source_callbacks'[d] = data_source_callbacks[d]
         /\ root'.channel[d] = root.channel[d]
         /\ <<d, "channel">> \in rejected => <<d, "channel">> \in rejected'
         /\ Row(d)' = Row(d)
    <2>1. \A d \in Live \ {dialog} : data_source_callbacks'[d] = data_source_callbacks[d]
        BY <1>0, <1>1, ReadyTables
        DEF set_channel_source_binding, Allocated, Live, QtInv
    <2>2. \A d \in Live \ {dialog} : root'.channel[d] = root.channel[d]
        BY <1>0, <1>2, <1>4, ReadyTables DEF Document, QtInv
    <2>3. \A d \in Live \ {dialog} :
             <<d, "channel">> \in rejected => <<d, "channel">> \in rejected'
        BY <1>1 DEF set_channel_source_binding, Verdict
    <2> QED
        BY <1>3, <2>1, <2>2, <2>3 DEF Row, get_source_binding_name
<1>6. PanelTypes'
    BY <1>0 DEF closeEvent, dialogVars, QtInv, PanelTypes, Phases
<1>7. (PhaseInv /\ ZeroedInv)'
    BY <1>0, <1>3 DEF closeEvent, dialogVars, QtInv, PhaseInv, ZeroedInv, Windowed
<1>8. TableInv'
    BY <1>0, <1>3, <1>5 DEF QtInv, TableInv, Windowed
<1>9. SourcesInv'
    <2>1. \/ data_source_callbacks'[dialog] = name_string_to_callback(root'.channel[dialog])
          \/ <<dialog, "channel">> \in rejected'
        <3>1. root'.channel[dialog] = cachedChannelName
            BY <1>0, <1>2, <1>4 DEF Document
        <3> QED
            BY <1>0, <1>1, <1>2, <3>1, ReadyTables
            DEF set_channel_source_binding, Verdict, Allocated, Live, QtInv
    <2> QED
        BY <1>0, <1>3, <1>5, <2>1 DEF closeEvent, QtInv, SourcesInv, SourceKept
<1> QED
    BY <1>6, <1>7, <1>8, <1>9 DEF QtInv

LEMMA EscapeStep ==
    ASSUME QtInv, ConfigInv', Escape
    PROVE  QtInv'
<1>0. UNCHANGED configVars
    BY DEF Escape
<1>1. PanelTypes'
    BY DEF Escape, dialogVars, QtInv, PanelTypes, Phases
<1>2. (PhaseInv /\ TableInv /\ ZeroedInv)'
    BY <1>0, SettingsUnchanged
    DEF Escape, dialogVars, QtInv, PhaseInv, TableInv, ZeroedInv, Windowed
<1>3. SourcesInv'
    BY <1>0, SettingsUnchanged DEF Escape, dialogVars, QtInv, SourcesInv, SourceKept
<1> QED
    BY <1>1, <1>2, <1>3 DEF QtInv

(* Whatever the dialog left: by now its channel has its source, or the     *)
(* binding is rejected, or the dialog was escaped from.                    *)
LEMMA RefreshRowStep ==
    ASSUME QtInv, ConfigInv', RefreshRow
    PROVE  QtInv'
<1>0. /\ UNCHANGED configVars /\ phase = "closed" /\ phase' = "main"
      /\ stage = "ready" /\ dialog \in Live
    BY DEF RefreshRow, QtInv, PhaseInv, Windowed
<1>1. PanelTypes'
    BY NamesAssumption, ChannelsAssumption
    DEF RefreshRow, NoDialog, QtInv, PanelTypes, Phases, Channel, Byte
<1>2. (PhaseInv /\ ZeroedInv)'
    BY <1>0, SettingsUnchanged DEF RefreshRow, QtInv, PhaseInv, ZeroedInv, Windowed
<1>3. TableInv'
    BY <1>0, SettingsUnchanged, RowTypes DEF RefreshRow, QtInv, TableInv, Windowed
<1>4. SourcesInv'
    BY <1>0, SettingsUnchanged DEF RefreshRow, QtInv, SourcesInv, SourceKept
<1> QED
    BY <1>1, <1>2, <1>3, <1>4 DEF QtInv

LEMMA QuitStep ==
    ASSUME QtInv, ConfigInv', Quit
    PROVE  QtInv'
<1>0. /\ UNCHANGED configVars /\ channel_count \in 0..MaxChannels
    BY DEF Quit, QtInv, ConfigInv, TypeOK
<1>1. PanelTypes'
    BY DEF Quit, dialogVars, QtInv, PanelTypes, Phases
<1>2. (PhaseInv /\ TableInv)'
    <2>1. stage' = "ready" /\ channel_count' = channel_count
        BY <1>0, SettingsUnchanged DEF Quit, QtInv, PhaseInv, Windowed
    <2>2. zero' \in 0..channel_count'
        BY <1>0, <2>1, ChannelsAssumption DEF Quit
    <2>3. phase' = "zeroing" /\ table' = NoRows /\ ~Windowed'
        BY DEF Quit, Windowed
    <2>4. TableInv'
        BY <2>3 DEF TableInv
    <2>5. PhaseInv'
        BY <2>1, <2>2, <2>3 DEF PhaseInv, NoRows
    <2> QED
        BY <2>4, <2>5
<1>3. ZeroedInv'
    BY ChannelsAssumption DEF Quit, ZeroedInv, Channel
<1>4. SourcesInv'
    BY <1>0, SettingsUnchanged DEF Quit, dialogVars, QtInv, SourcesInv, SourceKept
<1> QED
    BY <1>1, <1>2, <1>3, <1>4 DEF QtInv

LEMMA ZeroNextStep ==
    ASSUME QtInv, ConfigInv', ZeroNext
    PROVE  QtInv'
<1>0. /\ UNCHANGED configVars /\ channel_count \in 0..MaxChannels
      /\ phase = "zeroing" /\ phase' = "zeroing"
      /\ zero \in 0..channel_count /\ zero < channel_count /\ zero' = zero + 1
      /\ zero \in Channel
    BY ChannelsAssumption DEF ZeroNext, QtInv, ConfigInv, TypeOK, PhaseInv, Channel
<1>1. PICK transfer \in Transfers :
         /\ needle' = send_usage(needle, zero, 0, Delivered(transfer))
         /\ lost' = IF transfer = "ok" THEN lost ELSE lost \cup {zero}
    BY DEF ZeroNext
<1>2. /\ needle' \in [Channel -> Byte]
      /\ needle' = IF transfer # "failed" THEN [needle EXCEPT ![zero] = 0] ELSE needle
    <2>1. 0 \in Byte
        BY DEF Byte
    <2> QED
        BY <1>0, <1>1, <2>1, TransferMovesOne DEF QtInv, PanelTypes
<1>3. PanelTypes'
    BY <1>0, <1>1, <1>2 DEF ZeroNext, dialogVars, QtInv, PanelTypes
<1>4. (PhaseInv /\ TableInv)'
    <2>1. stage' = "ready" /\ channel_count' = channel_count
        BY <1>0, SettingsUnchanged DEF QtInv, PhaseInv
    <2>2. zero' \in 0..channel_count'
        BY <1>0, <2>1, ChannelsAssumption
    <2>3. table' = NoRows /\ ~Windowed'
        BY <1>0 DEF ZeroNext, QtInv, PhaseInv, Windowed
    <2>4. TableInv'
        BY <2>3 DEF TableInv
    <2>5. PhaseInv'
        BY <1>0, <2>1, <2>2, <2>3 DEF PhaseInv, NoRows
    <2> QED
        BY <2>4, <2>5
<1>5. ZeroedInv'
    <2> SUFFICES ASSUME NEW c \in Channel, c < zero', c \notin lost'
                 PROVE  needle'[c] = 0
        BY DEF ZeroedInv
    <2>1. CASE c = zero
        BY <1>0, <1>1, <1>2, <2>1 DEF QtInv, PanelTypes
    <2>2. CASE c # zero
        <3>1. c < zero /\ c \notin lost
            BY <1>0, <1>1, <2>2, ChannelsAssumption DEF Channel
        <3> QED
            BY <1>0, <1>2, <2>2, <3>1 DEF QtInv, PanelTypes, ZeroedInv
    <2> QED
        BY <2>1, <2>2
<1>6. SourcesInv'
    BY <1>0, SettingsUnchanged DEF ZeroNext, dialogVars, QtInv, SourcesInv, SourceKept
<1> QED
    BY <1>3, <1>4, <1>5, <1>6 DEF QtInv

LEMMA EndStep ==
    ASSUME QtInv, ConfigInv', Return \/ Killed
    PROVE  QtInv'
<1>0. stage' = "off" /\ phase' = "off"
    <2>1. CASE ProcessEnds
        BY <2>1 DEF ProcessEnds, Return, Killed
    <2>2. CASE stage = "off" /\ UNCHANGED configVars
        BY <2>2 DEF configVars, Return, Killed
    <2> QED
        BY <2>1, <2>2 DEF Return, Killed
<1>1. PanelTypes'
    <2>1. /\ needle' = needle /\ link' = link /\ dialog' = 0 /\ slider' = 0
          /\ cachedChannelName' = "Unallocated" /\ lost' = {} /\ escaped' = {}
        BY DEF Return, Killed, NoWindow, NoDialog
    <2>2. 0 \in Channel /\ 0 \in Byte /\ "Unallocated" \in Names
        BY NamesAssumption, ChannelsAssumption DEF Channel, Byte
    <2> QED
        BY <1>0, <2>1, <2>2 DEF QtInv, PanelTypes, Phases
<1>2. (PhaseInv /\ TableInv /\ ZeroedInv)'
    BY <1>0
    DEF Return, Killed, NoWindow, NoDialog, PhaseInv, TableInv, ZeroedInv, Windowed, NoRows
<1>3. BoundChannels' = {}
    BY <1>0 DEF BoundChannels
<1> QED
    BY <1>1, <1>2, <1>3 DEF QtInv, SourcesInv

LEMMA LinkStep ==
    ASSUME QtInv, ConfigInv', LinkChanges \/ UNCHANGED qtVars
    PROVE  QtInv'
<1>0. /\ UNCHANGED <<configVars, phase, needle, windowVars>>
      /\ link' \in Links
    BY DEF LinkChanges, qtVars, QtInv, PanelTypes
<1>1. PanelTypes'
    BY <1>0 DEF windowVars, dialogVars, QtInv, PanelTypes
<1>2. (PhaseInv /\ TableInv /\ ZeroedInv)'
    BY <1>0, SettingsUnchanged
    DEF windowVars, dialogVars, QtInv, PhaseInv, TableInv, ZeroedInv, Windowed, NoRows
<1>3. SourcesInv'
    BY <1>0, SettingsUnchanged
    DEF windowVars, dialogVars, QtInv, SourcesInv, SourceKept
<1> QED
    BY <1>1, <1>2, <1>3 DEF QtInv

LEMMA NextQtInv ==
    ASSUME QtInv, [QtNext]_qtVars
    PROVE  QtInv'
<1>0. ConfigInv'
    BY PanelStepsAreConfigSteps, NextConfigInv DEF QtInv
<1>1. CASE Starting
    BY <1>0, <1>1, OpenDeviceStep, QueryPanelStep, LoadChannelsStep, GiveUpStep,
       ShowPanelStep DEF Starting
<1>2. CASE main_loop_callback
    BY <1>0, <1>2, MainLoopStep
<1>3. CASE Adjusting
    BY <1>0, <1>3, OpenAdjustStep, PauseChannelStep, SliderStep, ComboStep,
       CloseEventStep, EscapeStep, RefreshRowStep DEF Adjusting
<1>4. CASE Ending
    BY <1>0, <1>4, QuitStep, ZeroNextStep, EndStep DEF Ending
<1>5. CASE LinkChanges \/ UNCHANGED qtVars
    BY <1>0, <1>5, LinkStep
<1> QED
    BY <1>1, <1>2, <1>3, <1>4, <1>5 DEF QtNext

---------------------------------------------------------------------------
(* Theorems                                                                *)

(* The inductive invariant of the running panel.                           *)
THEOREM QtInvariance == QtSafety => []QtInv
<1>1. QtInit => QtInv
    BY QtInitInv
<1>2. QtInv /\ [QtNext]_qtVars => QtInv'
    BY NextQtInv
<1> QED
    BY <1>1, <1>2, PTL DEF QtSafety

(* The panel implements the settings of LinuxConfig: every theorem about   *)
(* ConfigSafety holds of the running panel.                                *)
THEOREM PanelImplementsConfig == QtSafety => ConfigSafety
<1>1. QtInit => ConfigInit
    BY DEF QtInit
<1>2. QtInv /\ [QtNext]_qtVars => [ConfigNext]_configVars
    BY PanelStepsAreConfigSteps
<1> QED
    BY <1>1, <1>2, QtInvariance, PTL DEF QtSafety, ConfigSafety

(* In particular: however dialogs, timer, unplugged cables and kills       *)
(* interleave, what a dialog was told is stored is what a later start of   *)
(* the panel loads.                                                        *)
THEOREM PanelSettingsDurable == QtSafety => []RestartRestores
BY PanelImplementsConfig, AcknowledgedSettingsDurable, PTL

(* Type correctness of the window, the dialog and the panel.               *)
THEOREM PanelTypeCorrectness == QtSafety => []QtTypeOK
<1>1. QtInv => QtTypeOK
    <2> SUFFICES ASSUME QtInv PROVE QtTypeOK
        OBVIOUS
    <2>1. TypeOK /\ channel_count \in 0..MaxChannels
        BY DEF QtInv, ConfigInv, TypeOK
    <2>2. \E n \in {0, channel_count} :
             table \in [0..(n - 1) -> [name : Names, calibration : Byte]]
        <3>1. CASE Windowed
            BY <3>1 DEF QtInv, TableInv, RowType, Live
        <3>2. CASE ~Windowed
            <4>1. table = NoRows /\ 0..(0 - 1) = {}
                BY <3>2 DEF QtInv, PhaseInv
            <4>2. NoRows \in [{} -> [name : Names, calibration : Byte]]
                BY DEF NoRows
            <4> QED
                BY <4>1, <4>2
        <3> QED
            BY <3>1, <3>2
    <2>3. zero \in 0..channel_count
        BY <2>1, ChannelsAssumption DEF QtInv, PhaseInv
    <2> QED
        BY <2>1, <2>2, <2>3 DEF QtTypeOK, QtInv, PanelTypes
<1> QED
    BY <1>1, QtInvariance, PTL

(* The window's table shows the live settings of every channel no dialog   *)
(* is busy with, after any sequence of dialogs and failed saves.           *)
THEOREM TableIsLive == QtSafety => []TableShowsLive
<1>1. QtInv => TableShowsLive
    BY DEF QtInv, TableInv, TableShowsLive, Windowed, Live
<1> QED
    BY <1>1, QtInvariance, PTL

(* Only its dialog takes a channel's source away, and closeEvent gives it  *)
(* back unless the save of the binding fails.                              *)
THEOREM SourcesReturn == QtSafety => []PausedOnlyByDialog
<1>1. QtInv => PausedOnlyByDialog
    <2> SUFFICES ASSUME QtInv, stage = "ready", NEW c \in Live
                 PROVE  SourceKept(c)
        BY DEF PausedOnlyByDialog, SourceKept
    <2>1. c \in BoundChannels
        BY DEF BoundChannels
    <2> QED
        BY <2>1 DEF QtInv, SourcesInv
<1> QED
    BY <1>1, QtInvariance, PTL

(* A program that returns from main leaves every needle at zero whose own  *)
(* transfer succeeded.                                                     *)
THEOREM NeedlesLeftAtZero == QtSafety => []LeftAtZero
<1>1. QtInv => LeftAtZero
    <2> SUFFICES ASSUME QtInv, phase = "zeroing", zero = channel_count,
                        NEW c \in Live, c \notin lost
                 PROVE  needle[c] = 0
        BY DEF LeftAtZero
    <2>1. c \in Channel /\ c < zero
        BY ReadyTables, ChannelsAssumption
        DEF QtInv, PhaseInv, ConfigInv, TypeOK, Live
    <2> QED
        BY <2>1 DEF QtInv, ZeroedInv
<1> QED
    BY <1>1, QtInvariance, PTL

---------------------------------------------------------------------------
(* What may move a needle                                                  *)

(* The main loop leaves a needle where it is, or sets it for a channel     *)
(* with a source, and then within the channel's calibration.               *)
LEMMA LoopMoves ==
    ASSUME QtInv, main_loop_callback, NEW c \in Channel
    PROVE  \/ needle'[c] = needle[c]
           \/ /\ c \in Live /\ data_source_callbacks[c] # "NULL"
              /\ needle'[c] <= calibration_values[c]
<1>1. stage = "ready"
    BY DEF main_loop_callback, EventLoop, QtInv, PhaseInv, Windowed
<1>2. c \in Live => Scaled(data_source_calibration, calibration_values[c])
                       <= calibration_values[c]
    BY <1>1, ReadyTables, FullScaleWithin DEF Allocated, Live, QtInv
<1>3. PICK k, transfer : needle' = NeedlesAfterLoop(k, transfer)
    BY DEF main_loop_callback
<1>4. needle'[c] = IF /\ c \in Live
                      /\ data_source_callbacks[c] # "NULL"
                      /\ c < k \/ (c = k /\ Delivered(transfer))
                   THEN Scaled(data_source_calibration, calibration_values[c])
                   ELSE needle[c]
    BY <1>3 DEF NeedlesAfterLoop
<1> QED
    BY <1>2, <1>4

(* A transfer of a handler moves the one needle it names, to the value sent. *)
LEMMA TransferMoves ==
    ASSUME QtInv, NEW d \in Channel, NEW v \in Byte, NEW transfer,
           needle' = send_usage(needle, d, v, Delivered(transfer)),
           NEW c \in Channel
    PROVE  needle'[c] = needle[c] \/ (c = d /\ needle'[c] = v)
<1>1. needle \in [Channel -> Byte]
    BY DEF QtInv, PanelTypes
<1>2. needle' = IF transfer # "failed" THEN [needle EXCEPT ![d] = v] ELSE needle
    BY <1>1, TransferMovesOne
<1> QED
    BY <1>1, <1>2

(* While a dialog is open only its slider moves its needle: the timer      *)
(* fires, but finds the channel without a source.                          *)
THEOREM DialogHasItsNeedle == QtSafety => DialogOwnsNeedle
<1>1. QtInv /\ [QtNext]_qtVars =>
         ((phase = "dialog" /\ phase' = "dialog") =>
             needle'[dialog] \in {needle[dialog], slider'})
    <2> SUFFICES ASSUME QtInv, [QtNext]_qtVars, phase = "dialog", phase' = "dialog"
                 PROVE  needle'[dialog] \in {needle[dialog], slider'}
        OBVIOUS
    <2>0. dialog \in Channel /\ data_source_callbacks[dialog] = "NULL"
        BY DEF QtInv, PanelTypes, PhaseInv
    <2>1. CASE main_loop_callback
        BY <2>0, <2>1, LoopMoves
    <2>2. ASSUME NEW v \in SliderValues, on_slide_calibration_valueChanged(v)
          PROVE  needle'[dialog] \in {needle[dialog], slider'}
        <3>1. v \in Byte /\ slider' = v
            BY <2>2, CalibrationsAssumption DEF on_slide_calibration_valueChanged
        <3>2. PICK transfer \in Transfers :
                 needle' = send_usage(needle, dialog, v, Delivered(transfer))
            BY <2>2 DEF on_slide_calibration_valueChanged
        <3> QED
            BY <2>0, <3>1, <3>2, TransferMoves
    <2>3. CASE UNCHANGED needle
        BY <2>3
    <2> QED
        BY <2>1, <2>2, <2>3
        DEF QtNext, Starting, Adjusting, Ending, OpenDevice, QueryPanel,
            QueryNeverReturns, LoadChannels, GiveUp, ShowPanel, OpenAdjust,
            PauseChannel, on_combo_channel_currentTextChanged, closeEvent, Escape,
            RefreshRow, Quit, ZeroNext, Return, Killed, LinkChanges, qtVars
<1> QED
    BY <1>1, QtInvariance, PTL DEF QtSafety, DialogOwnsNeedle

(* No needle rises above the calibration of its channel but by the user's  *)
(* own hand, whatever is loaded, rejected, lost or interrupted.            *)
THEOREM NeedlesWithinCalibration == QtSafety => NoOverdrive
<1> DEFINE Allowed(c) == \/ needle'[c] <= calibration_values[c]
                         \/ phase = "dialog" /\ dialog = c /\ needle'[c] = slider'
<1>1. QtInv /\ [QtNext]_qtVars =>
         \A c \in Channel : needle'[c] > needle[c] => Allowed(c)
    <2> SUFFICES ASSUME QtInv, [QtNext]_qtVars, NEW c \in Channel,
                        needle'[c] > needle[c]
                 PROVE  Allowed(c)
        OBVIOUS
    <2>0. needle[c] \in 0..255 /\ needle'[c] # needle[c]
        BY DEF QtInv, PanelTypes, Byte
    <2>1. CASE main_loop_callback
        BY <2>0, <2>1, LoopMoves
    <2>2. ASSUME NEW d \in Live, OpenAdjust(d)
          PROVE  Allowed(c)
        <3>1. d \in Channel /\ calibration_values[d] \in Byte
            BY <2>2, ReadyTables
            DEF OpenAdjust, QtInv, PhaseInv, Windowed, Allocated, Live
        <3>2. PICK transfer \in Transfers :
                 needle' = send_usage(needle, d, calibration_values[d], Delivered(transfer))
            BY <2>0, <2>2 DEF OpenAdjust
        <3>3. c = d /\ needle'[c] = calibration_values[d]
            BY <2>0, <3>1, <3>2, TransferMoves
        <3> QED
            BY <3>1, <3>3 DEF Byte
    <2>3. CASE PauseChannel
        <3>1. dialog \in Channel /\ calibration_values[dialog] \in Byte
            BY <2>3, ReadyTables
            DEF PauseChannel, QtInv, PhaseInv, PanelTypes, Windowed, Allocated, Live
        <3>2. PICK transfer \in Transfers :
                 needle' = send_usage(needle, dialog, calibration_values[dialog],
                                      Delivered(transfer))
            BY <2>3 DEF PauseChannel
        <3>3. c = dialog /\ needle'[c] = calibration_values[dialog]
            BY <2>0, <3>1, <3>2, TransferMoves
        <3> QED
            BY <3>1, <3>3 DEF Byte
    <2>4. ASSUME NEW v \in SliderValues, on_slide_calibration_valueChanged(v)
          PROVE  Allowed(c)
        <3>1. v \in Byte /\ slider' = v /\ phase = "dialog" /\ dialog \in Channel
            BY <2>4, CalibrationsAssumption
            DEF on_slide_calibration_valueChanged, QtInv, PanelTypes
        <3>2. PICK transfer \in Transfers :
                 needle' = send_usage(needle, dialog, v, Delivered(transfer))
            BY <2>4 DEF on_slide_calibration_valueChanged
        <3> QED
            BY <2>0, <3>1, <3>2, TransferMoves
    <2>5. CASE ZeroNext
        <3>1. zero \in Channel /\ 0 \in Byte
            BY <2>5, ChannelsAssumption
            DEF ZeroNext, QtInv, PhaseInv, ConfigInv, TypeOK, Channel, Byte
        <3>2. PICK transfer \in Transfers :
                 needle' = send_usage(needle, zero, 0, Delivered(transfer))
            BY <2>5 DEF ZeroNext
        <3>3. needle'[c] = 0
            BY <2>0, <3>1, <3>2, TransferMoves
        <3> QED
            BY <2>0, <3>3
    <2>6. CASE UNCHANGED needle
        BY <2>0, <2>6
    <2> QED
        BY <2>1, <2>2, <2>3, <2>4, <2>5, <2>6
        DEF QtNext, Starting, Adjusting, Ending, OpenDevice, QueryPanel,
            QueryNeverReturns, LoadChannels, GiveUp, ShowPanel,
            on_combo_channel_currentTextChanged, closeEvent, Escape,
            RefreshRow, Quit, Return, Killed, LinkChanges, qtVars
<1> QED
    BY <1>1, QtInvariance, PTL DEF QtSafety, NoOverdrive

(* The Qt control panel keeps the contract of the settings, whatever its   *)
(* dialogs, its link and its restarts do.                                  *)
THEOREM QtPanelKeepsTheContract == QtSafety => KeepsContract
BY PanelImplementsConfig, LinuxSettingsKeepTheContract, PTL

---------------------------------------------------------------------------
(* How main and the handlers end                                           *)

(* main or a handler is under way, and is not waiting for the user.        *)
UnderWay == phase \in {"opened", "loading", "constructing", "closed", "zeroing"}

(* The steps the thread has ahead of it before it waits for the user       *)
(* again, or has returned from main, at the most.                          *)
ThreadStepsLeft ==
    CASE phase = "opened" -> 2 * MaxChannels + 2
      [] phase = "loading" -> 1 + IF Loading THEN StepsLeft ELSE 0
      [] phase = "constructing" -> 1
      [] phase = "closed" -> 1
      [] phase = "zeroing" -> 1 + (channel_count - zero)
      [] OTHER -> 0

LEMMA ThreadStepsLeftBounds ==
    ASSUME QtInv, UnderWay
    PROVE  ThreadStepsLeft \in 1..(2 * MaxChannels + 2)
<1>0. MaxChannels \in Nat /\ 1 <= MaxChannels
    BY ChannelsAssumption
<1>1. CASE phase \in {"opened", "constructing", "closed"}
    <2>1. ThreadStepsLeft \in {1, 2 * MaxChannels + 2}
        BY <1>1, Zenon DEF ThreadStepsLeft
    <2> QED
        BY <1>0, <2>1, SMT
<1>2. CASE phase = "loading"
    <2>1. ThreadStepsLeft = 1 + IF Loading THEN StepsLeft ELSE 0
        BY <1>2, Zenon DEF ThreadStepsLeft
    <2>2. Loading => StepsLeft \in 1..(2 * MaxChannels)
        BY StepsLeftBounds DEF QtInv
    <2> QED
        BY <1>0, <2>1, <2>2, SMT
<1>3. CASE phase = "zeroing"
    <2>1. ThreadStepsLeft = 1 + (channel_count - zero)
        BY <1>3, Zenon DEF ThreadStepsLeft
    <2>2. zero \in 0..channel_count /\ channel_count \in 0..MaxChannels
        BY <1>3 DEF QtInv, PhaseInv, ConfigInv, TypeOK
    <2> QED
        BY <1>0, <2>1, <2>2, SMT
<1> QED
    BY <1>1, <1>2, <1>3 DEF UnderWay

LEMMA ThreadProgress ==
    ASSUME QtInv, Proceed
    PROVE  ThreadStepsLeft' < ThreadStepsLeft
<1>0. MaxChannels \in Nat /\ 1 <= MaxChannels
    BY ChannelsAssumption
<1>1. CASE QueryPanel
    <2>1. PICK n \in 0..MaxChannels : AllocateTables(n) \/ AllocationFails(n)
        BY <1>1, CountsInRange DEF QueryPanel
    <2>2. /\ ThreadStepsLeft = 2 * MaxChannels + 2
          /\ ThreadStepsLeft' = 1 + IF Loading' THEN StepsLeft' ELSE 0
        BY <1>1, Zenon DEF QueryPanel, ThreadStepsLeft
    <2>3. Loading' => channel_count' = n /\ next' = 0 /\ stage' = "binding"
        BY <2>1 DEF AllocateTables, AllocationFails, Loading
    <2>4. Loading' => StepsLeft' = 2 * n
        BY <2>3, SMT DEF StepsLeft
    <2> QED
        BY <1>0, <2>2, <2>4, SMT
<1>2. CASE QueryNeverReturns
    <2>1. ThreadStepsLeft = 2 * MaxChannels + 2 /\ ThreadStepsLeft' = 0
        BY <1>2, Zenon DEF QueryNeverReturns, ThreadStepsLeft
    <2> QED
        BY <1>0, <2>1, SMT
<1>3. CASE LoadChannels
    <2>1. LoadStep /\ phase = "loading" /\ phase' = "loading"
        BY <1>3 DEF LoadChannels
    <2>2. Loading /\ stage' # stage
        BY <2>1
        DEF LoadStep, RefuseConfig, ReadBinding, AddBinding, ReadCalibration, AddCalibration,
            NextChannel, Loading
    <2>3. ~Loading' \/ StepsLeft' < StepsLeft
        BY <2>1, <2>2, LoadStepProgress DEF QtInv, ConfigNext, configVars
    <2>4. StepsLeft \in 1..(2 * MaxChannels)
        BY <2>2, StepsLeftBounds DEF QtInv
    <2>5. /\ ThreadStepsLeft = 1 + StepsLeft
          /\ ThreadStepsLeft' = 1 + IF Loading' THEN StepsLeft' ELSE 0
        BY <2>1, <2>2, Zenon DEF ThreadStepsLeft
    <2>6. Loading' => StepsLeft' \in Int
        <3>1. channel_count' = channel_count /\ next' \in {next, next + 1}
            BY <2>1
            DEF LoadStep, RefuseConfig, ReadBinding, AddBinding, ReadCalibration,
                AddCalibration, NextChannel
        <3>2. channel_count \in Nat /\ next \in Nat
            BY DEF QtInv, ConfigInv, TypeOK
        <3> QED
            BY <3>1, <3>2, SMT DEF StepsLeft
    <2> QED
        BY <2>3, <2>4, <2>5, <2>6, SMT
<1>4. CASE GiveUp \/ ShowPanel
    <2>1. ~Loading
        BY <1>4 DEF GiveUp, ShowPanel, Loading
    <2>2. ThreadStepsLeft = 1 + 0 /\ ThreadStepsLeft' = 0
        BY <1>4, <2>1, Zenon DEF GiveUp, ShowPanel, ThreadStepsLeft
    <2> QED
        BY <2>2, SMT
<1>5. CASE PauseChannel \/ RefreshRow
    <2>1. ThreadStepsLeft = 1 /\ ThreadStepsLeft' = 0
        BY <1>5, Zenon DEF PauseChannel, RefreshRow, ThreadStepsLeft
    <2> QED
        BY <2>1, SMT
<1>6. CASE ZeroNext
    <2>1. /\ ThreadStepsLeft = 1 + (channel_count - zero)
          /\ ThreadStepsLeft' = 1 + (channel_count' - zero')
          /\ zero' = zero + 1 /\ phase = "zeroing"
        BY <1>6, Zenon DEF ZeroNext, ThreadStepsLeft
    <2>2. channel_count' = channel_count
        BY <1>6 DEF ZeroNext, configVars
    <2>3. zero \in 0..channel_count /\ channel_count \in 0..MaxChannels
        BY <2>1 DEF QtInv, PhaseInv, ConfigInv, TypeOK
    <2> QED
        BY <2>1, <2>2, <2>3, SMT
<1>7. CASE Return
    <2>1. ThreadStepsLeft = 1 + (channel_count - zero) /\ ThreadStepsLeft' = 0
          /\ zero = channel_count /\ phase = "zeroing"
        BY <1>7, Zenon DEF Return, ThreadStepsLeft
    <2>2. channel_count \in 0..MaxChannels
        BY DEF QtInv, ConfigInv, TypeOK
    <2> QED
        BY <2>1, <2>2, SMT
<1> QED
    BY <1>1, <1>2, <1>3, <1>4, <1>5, <1>6, <1>7 DEF Proceed

(* Meanwhile the user has nothing to press, and a tick, which there may be *)
(* until exec() of the dialog has returned, leaves the handler where it is. *)
LEMMA OthersWait ==
    ASSUME QtInv, UnderWay, [QtNext]_qtVars, ~Proceed
    PROVE  phase' = "off" \/ ThreadStepsLeft' = ThreadStepsLeft
<1>1. CASE LinkChanges \/ UNCHANGED qtVars
    <2>1. UNCHANGED <<phase, channel_count, next, stage, zero>>
        BY <1>1 DEF LinkChanges, qtVars, configVars, windowVars
    <2>2. Loading' = Loading /\ StepsLeft' = StepsLeft
        BY <2>1 DEF Loading, StepsLeft
    <2> QED
        BY <2>1, <2>2 DEF ThreadStepsLeft
<1>2. CASE Killed
    BY <1>2 DEF Killed
<1>3. phase \notin {"off", "main", "dialog"}
    BY DEF UnderWay
<1>4. ~OpenDevice /\ ~Quit /\ ~closeEvent /\ ~Escape
    BY <1>3 DEF OpenDevice, Quit, closeEvent, Escape
<1>5. /\ \A c \in Live : ~OpenAdjust(c)
      /\ \A v \in SliderValues : ~on_slide_calibration_valueChanged(v)
      /\ \A name \in Names : ~on_combo_channel_currentTextChanged(name)
    BY <1>3, Zenon DEF OpenAdjust, on_slide_calibration_valueChanged,
       on_combo_channel_currentTextChanged
<1>6. CASE main_loop_callback
    <2>1. UNCHANGED <<phase, channel_count, next, stage, zero>>
        BY <1>6 DEF main_loop_callback, configVars, windowVars
    <2>2. Loading' = Loading /\ StepsLeft' = StepsLeft
        BY <2>1 DEF Loading, StepsLeft
    <2> QED
        BY <2>1, <2>2 DEF ThreadStepsLeft
<1> QED
    BY <1>1, <1>2, <1>4, <1>5, <1>6 DEF QtNext, Starting, Adjusting, Ending, Proceed

(* The start, a handler and the destructor each come to their end, for any *)
(* panel, file, outcome of a save and state of the link: each of their own *)
(* steps brings them nearer to it, and whatever else happens, short of the *)
(* end of the process, takes them no step back.  A start has at most two   *)
(* steps for each channel and two more, or hangs in its query.             *)
THEOREM ThreadMakesProgress ==
    QtSafety =>
        /\ [](UnderWay => ThreadStepsLeft \in 1..(2 * MaxChannels + 2))
        /\ [][UnderWay =>
                  IF Proceed THEN ThreadStepsLeft' < ThreadStepsLeft
                  ELSE phase' = "off" \/ ThreadStepsLeft' = ThreadStepsLeft]_qtVars
<1>1. QtInv => (UnderWay => ThreadStepsLeft \in 1..(2 * MaxChannels + 2))
    BY ThreadStepsLeftBounds
<1>2. QtInv /\ [QtNext]_qtVars =>
          [UnderWay =>
              IF Proceed THEN ThreadStepsLeft' < ThreadStepsLeft
              ELSE phase' = "off" \/ ThreadStepsLeft' = ThreadStepsLeft]_qtVars
    BY ThreadProgress, OthersWait
<1> HIDE DEF QtInv
<1> QED
    BY <1>1, <1>2, QtInvariance, PTL DEF QtSafety

=============================================================================
