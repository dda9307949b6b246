-------------------------- MODULE LinuxConfigProofs --------------------------
(***************************************************************************)
(* Theorems about LinuxConfig, for any number of channels, source names    *)
(* and stored or chosen calibrations.                                      *)
(*                                                                         *)
(* The invariant: while it is loading, root_object is exactly what the     *)
(* file holds, the tables agree with it for the channels already loaded    *)
(* and hold NULL for the others; afterwards the file, if it can be read,   *)
(* differs from root_object only in settings whose last set call failed,   *)
(* and so do the tables.                                                   *)
(*                                                                         *)
(* After the invariant and the properties come the contract, that is, that *)
(* LinuxConfig implements SettingsContract, and how a start ends.          *)
(***************************************************************************)
EXTENDS LinuxConfig, PanelBaseProofs

(* What a number of the document becomes is a byte, and a byte stays what  *)
(* it is.                                                                  *)
LEMMA NarrowedIsByte == \A n \in Int : Narrowed(n) \in Byte
<1> SUFFICES ASSUME NEW n \in Int PROVE Narrowed(n) \in Byte
    OBVIOUS
<1>1. json_object_get_int(n) \in Int
    BY DEF json_object_get_int
<1> QED
    BY <1>1, AsByteIsByte DEF Narrowed

LEMMA NarrowedKeepsBytes == \A n \in Byte : Narrowed(n) = n
BY DEF Narrowed, json_object_get_int, AsByte, Byte

(* The channels whose binding, and whose calibration, have been loaded.    *)
BoundChannels ==
    {c \in Live : \/ stage = "ready"
                  \/ stage = "binding" /\ c < next
                  \/ stage = "calibration" /\ c <= next}

CalibratedChannels ==
    {c \in Live : stage = "ready" \/ (Loading /\ c < next)}

Allocated(n) ==
    /\ data_source_callbacks \in [0..(n - 1) -> Callbacks]
    /\ calibration_values \in [0..(n - 1) -> Byte]

OffInv == stage = "off" => (root = NoRoot /\ rejected = {} /\ channel_count = 0)

LoadingInv ==
    Loading =>
        /\ rejected = {}
        /\ next < channel_count
        /\ root # NoRoot => file = root
        /\ (stage = "calibration" \/ next > 0) => root # NoRoot

ReadyInv ==
    (stage = "ready" /\ channel_count > 0) =>
        /\ root # NoRoot
        /\ rejected = {} => file = root
        /\ file # Absent
        /\ file # Torn =>
              \A c \in Channel :
                 /\ <<c, "channel">> \notin rejected =>
                       file.channel[c] = root.channel[c]
                 /\ <<c, "calibration">> \notin rejected =>
                       file.calibration[c] = root.calibration[c]

BindingInv ==
    /\ \A c \in BoundChannels :
          /\ root.channel[c] # Missing
          /\ <<c, "channel">> \notin rejected =>
                data_source_callbacks[c] \in
                   {"NULL", name_string_to_callback(root.channel[c])}
    /\ Loading => \A c \in Live \ BoundChannels : data_source_callbacks[c] = "NULL"

CalibrationInv ==
    \A c \in CalibratedChannels :
        /\ root.calibration[c] # Missing
        /\ <<c, "calibration">> \notin rejected =>
              calibration_values[c] = Narrowed(root.calibration[c])

ConfigInv ==
    TypeOK /\ OffInv /\ LoadingInv /\ ReadyInv /\ BindingInv /\ CalibrationInv

---------------------------------------------------------------------------

(* The empty document is a document of no key.                             *)
LEMMA EmptyIsDocument == EmptyDocument \in Document
BY DEF EmptyDocument, Document

(* Putting a known name, or any integer, under a channel's key leaves a    *)
(* document, and says nothing of the other keys.                           *)
LEMMA PutChannel ==
    ASSUME NEW doc \in Document, NEW c \in Channel, NEW name \in Names
    PROVE  /\ [doc EXCEPT !.channel[c] = name] \in Document
           /\ [doc EXCEPT !.channel[c] = name].calibration = doc.calibration
           /\ [doc EXCEPT !.channel[c] = name].channel
                 = [doc.channel EXCEPT ![c] = name]
BY DEF Document

LEMMA PutCalibration ==
    ASSUME NEW doc \in Document, NEW c \in Channel, NEW v \in Int
    PROVE  /\ [doc EXCEPT !.calibration[c] = v] \in Document
           /\ [doc EXCEPT !.calibration[c] = v].channel = doc.channel
           /\ [doc EXCEPT !.calibration[c] = v].calibration
                 = [doc.calibration EXCEPT ![c] = v]
BY DEF Document

(* A save leaves a file of the kinds there are.                            *)
LEMMA FileAfterType ==
    ASSUME TypeOK, NEW doc \in Document, NEW outcome \in Outcomes
    PROVE  /\ FileAfter(doc, outcome) \in Document \cup {Absent, Torn}
           /\ outcome = "ok" => FileAfter(doc, outcome) = doc
           /\ FileAfter(doc, outcome) \in {doc, file, Torn}
BY OutcomesAssumption DEF FileAfter, TypeOK

(* What loading works on is a document of the file, or of no file at all.  *)
LEMMA OpenedRootType ==
    ASSUME TypeOK, ~Unreadable
    PROVE  OpenedRoot \in Document
BY EmptyIsDocument DEF OpenedRoot, Unreadable, TypeOK

(* Every constant-level fact the steps use about the tables.               *)
LEMMA LoadingTables ==
    ASSUME ConfigInv, Loading
    PROVE  /\ Allocated(channel_count)
           /\ next \in Live /\ next \in Channel /\ Live \subseteq Channel
BY ChannelsAssumption
   DEF ConfigInv, TypeOK, LoadingInv, Loading, Allocated, Live, Channel

LEMMA ReadyTables ==
    ASSUME ConfigInv, stage = "ready"
    PROVE  Allocated(channel_count) /\ Live \subseteq Channel
BY ChannelsAssumption DEF ConfigInv, TypeOK, Allocated, Live, Channel

LEMMA InitConfigInv == ConfigInit => ConfigInv
<1> SUFFICES ASSUME ConfigInit PROVE ConfigInv
    OBVIOUS
<1>1. TypeOK
    <2>1. file \in Document \cup {Absent, Torn}
        BY CalibrationsAssumption DEF ConfigInit, Document
    <2>2. Allocated(channel_count)
        BY DEF Allocated, ConfigInit
    <2> QED
        BY <2>1, <2>2, ChannelsAssumption DEF TypeOK, ConfigInit, Allocated
<1> QED
    BY <1>1 DEF ConfigInit, ConfigInv, OffInv, LoadingInv, ReadyInv, BindingInv,
       CalibrationInv, Live, Loading, BoundChannels, CalibratedChannels

---------------------------------------------------------------------------
(* One lemma per action: it preserves the invariant.                       *)

LEMMA AllocateTablesStep ==
    ASSUME ConfigInv, NEW n \in 0..MaxChannels, AllocateTables(n)
    PROVE  ConfigInv'
<1>1. TypeOK'
    <2>1. Allocated(channel_count)'
        BY ChannelsAssumption DEF AllocateTables, Allocated, Byte, Callbacks
    <2> QED
        BY <2>1, ChannelsAssumption
        DEF ConfigInv, TypeOK, AllocateTables, Allocated
<1>2. (OffInv /\ LoadingInv /\ ReadyInv)'
    BY ChannelsAssumption
    DEF AllocateTables, ConfigInv, OffInv, LoadingInv, ReadyInv, Loading
<1>3. (BindingInv /\ CalibrationInv)'
    BY ChannelsAssumption
    DEF AllocateTables, BindingInv, CalibrationInv, BoundChannels,
        CalibratedChannels, Live, Loading
<1> QED
    BY <1>1, <1>2, <1>3 DEF ConfigInv

LEMMA AllocationFailsStep ==
    ASSUME ConfigInv, NEW n \in 0..MaxChannels, AllocationFails(n)
    PROVE  ConfigInv'
<1>1. TypeOK'
    BY DEF ConfigInv, OffInv, TypeOK, AllocationFails
<1> QED
    BY <1>1 DEF AllocationFails, ConfigInv, OffInv, LoadingInv, ReadyInv, BindingInv,
       CalibrationInv, Loading, BoundChannels, CalibratedChannels

LEMMA RefuseConfigStep ==
    ASSUME ConfigInv, RefuseConfig
    PROVE  ConfigInv'
<1>1. TypeOK'
    BY DEF ConfigInv, TypeOK, RefuseConfig
<1> QED
    BY <1>1 DEF RefuseConfig, ConfigInv, OffInv, LoadingInv, ReadyInv, BindingInv,
       CalibrationInv, Loading, BoundChannels, CalibratedChannels

LEMMA ReadBindingStep ==
    ASSUME ConfigInv, ReadBinding
    PROVE  ConfigInv'
<1>0. /\ Allocated(channel_count) /\ next \in Live /\ next \in Channel
      /\ Live \subseteq Channel
    BY LoadingTables DEF ReadBinding, Loading
<1>1. OpenedRoot \in Document /\ OpenedRoot # NoRoot /\ OpenedRoot # Torn
    BY OpenedRootType, SentinelAssumption DEF ReadBinding, ConfigInv
<1>2. file = OpenedRoot
    <2>1. CASE root = NoRoot
        <3>1. file = Absent => OpenedRoot.channel[next] = Missing
            BY <1>0, <2>1 DEF OpenedRoot, EmptyDocument
        <3> QED
            BY <3>1, <2>1 DEF OpenedRoot, ReadBinding
    <2>2. CASE root # NoRoot
        BY <2>2 DEF OpenedRoot, ReadBinding, ConfigInv, LoadingInv, Loading
    <2> QED
        BY <2>1, <2>2
<1>3. next > 0 => OpenedRoot = root
    BY DEF OpenedRoot, ReadBinding, ConfigInv, LoadingInv, Loading
<1>4. TypeOK'
    <2>1. Allocated(channel_count)'
        BY <1>0 DEF Allocated, ReadBinding, name_string_to_callback, Callbacks
    <2> QED
        BY <1>1, <2>1 DEF ConfigInv, TypeOK, ReadBinding, Allocated
<1>5. (OffInv /\ LoadingInv /\ ReadyInv)'
    BY <1>1, <1>2 DEF ReadBinding, ConfigInv, OffInv, LoadingInv, ReadyInv, Loading
<1>6. BindingInv'
    <2>1. ASSUME NEW c \in BoundChannels'
          PROVE  /\ root'.channel[c] # Missing
                 /\ data_source_callbacks'[c] \in
                       {"NULL", name_string_to_callback(root'.channel[c])}
        <3>1. CASE c = next
            BY <3>1, <1>0 DEF ReadBinding, Allocated, Live
        <3>2. CASE c # next
            <4>1. c \in BoundChannels /\ next > 0
                BY <3>2, <2>1, <1>0
                DEF BoundChannels, ReadBinding, Live, ConfigInv, TypeOK
            <4>2. root' = root /\ rejected = {}
                BY <4>1, <1>3 DEF ReadBinding, ConfigInv, LoadingInv, Loading
            <4>3. data_source_callbacks'[c] = data_source_callbacks[c]
                BY <3>2, <2>1, <1>0
                DEF ReadBinding, Allocated, BoundChannels, Live
            <4> QED
                BY <4>1, <4>2, <4>3 DEF ConfigInv, BindingInv
        <3> QED
            BY <3>1, <3>2
    <2>2. ASSUME NEW c \in Live' \ BoundChannels'
          PROVE  data_source_callbacks'[c] = "NULL"
        <3>1. c \in Live \ BoundChannels /\ c # next
            BY <2>2, <1>0 DEF BoundChannels, ReadBinding, Live, ConfigInv, TypeOK
        <3>2. data_source_callbacks'[c] = data_source_callbacks[c]
            BY <3>1, <1>0 DEF ReadBinding, Allocated, Live
        <3> QED
            BY <3>1, <3>2 DEF ConfigInv, BindingInv, ReadBinding, Loading
    <2> QED
        BY <2>1, <2>2 DEF BindingInv
<1>7. CalibrationInv'
    <2>1. ASSUME NEW c \in CalibratedChannels'
          PROVE  /\ root'.calibration[c] # Missing
                 /\ calibration_values'[c] = Narrowed(root'.calibration[c])
        <3>1. c \in CalibratedChannels /\ next > 0
            BY <2>1, <1>0
            DEF CalibratedChannels, ReadBinding, Loading, Live, ConfigInv, TypeOK
        <3>2. root' = root /\ rejected = {}
            BY <3>1, <1>3 DEF ReadBinding, ConfigInv, LoadingInv, Loading
        <3> QED
            BY <3>1, <3>2 DEF ConfigInv, CalibrationInv, ReadBinding
    <2> QED
        BY <2>1 DEF CalibrationInv
<1> QED
    BY <1>4, <1>5, <1>6, <1>7 DEF ConfigInv

LEMMA AddBindingStep ==
    ASSUME ConfigInv, NEW outcome \in Outcomes, AddBinding(outcome)
    PROVE  ConfigInv'
<1> DEFINE doc == [OpenedRoot EXCEPT !.channel[next] = "Unallocated"]
<1>0. /\ Allocated(channel_count) /\ next \in Live /\ next \in Channel
      /\ Live \subseteq Channel
    BY LoadingTables DEF AddBinding, Loading
<1>1. OpenedRoot \in Document
    BY OpenedRootType DEF AddBinding, ConfigInv
<1>2. /\ doc \in Document /\ doc # NoRoot /\ doc # Absent
      /\ doc.channel = [OpenedRoot.channel EXCEPT ![next] = "Unallocated"]
      /\ doc.channel[next] = "Unallocated"
      /\ doc.calibration = OpenedRoot.calibration
    <2>1. "Unallocated" \in Names
        BY NamesAssumption
    <2>2. /\ doc \in Document
          /\ doc.channel = [OpenedRoot.channel EXCEPT ![next] = "Unallocated"]
          /\ doc.calibration = OpenedRoot.calibration
        BY <2>1, <1>0, <1>1, PutChannel
    <2>3. OpenedRoot.channel \in [Channel -> Names \cup {Missing}]
        BY <1>1 DEF Document
    <2> HIDE DEF doc
    <2> QED
        BY <2>2, <2>3, <1>0, SentinelAssumption
<1>3. root' = doc /\ file' = FileAfter(doc, outcome)
    BY DEF AddBinding
<1>4. next > 0 => OpenedRoot = root
    BY DEF OpenedRoot, AddBinding, ConfigInv, LoadingInv, Loading
<1> HIDE DEF doc
<1>5. TypeOK'
    <2>1. file' \in Document \cup {Absent, Torn}
        BY <1>2, <1>3, FileAfterType DEF ConfigInv
    <2> QED
        BY <1>2, <1>3, <2>1 DEF ConfigInv, TypeOK, AddBinding
<1>6. CASE outcome # "ok"
    BY <1>5, <1>6 DEF AddBinding, ConfigInv, OffInv, LoadingInv, ReadyInv, BindingInv,
       CalibrationInv, Loading, BoundChannels, CalibratedChannels
<1>7. CASE outcome = "ok"
    <2>0. file' = doc /\ stage' = "calibration"
        BY <1>2, <1>3, <1>7, FileAfterType DEF ConfigInv, AddBinding
    <2>1. (OffInv /\ LoadingInv /\ ReadyInv)'
        BY <2>0, <1>2, <1>3
        DEF AddBinding, ConfigInv, OffInv, LoadingInv, ReadyInv, Loading
    <2>2. BindingInv'
        <3>1. ASSUME NEW c \in BoundChannels'
              PROVE  /\ root'.channel[c] # Missing
                     /\ data_source_callbacks'[c] \in
                           {"NULL", name_string_to_callback(root'.channel[c])}
            <4>1. CASE c = next
                <5>1. next \in Live \ BoundChannels
                    BY <1>0 DEF BoundChannels, AddBinding, ConfigInv, TypeOK
                <5>2. data_source_callbacks'[c] = "NULL"
                    BY <4>1, <5>1 DEF ConfigInv, BindingInv, Loading, AddBinding
                <5>3. "Unallocated" # Missing
                    BY NamesAssumption, SentinelAssumption
                <5> QED
                    BY <4>1, <5>2, <5>3, <1>2, <1>3
            <4>2. CASE c # next
                <5>1. c \in BoundChannels /\ next > 0
                    BY <4>2, <3>1, <1>0, <2>0
                    DEF BoundChannels, AddBinding, Live, ConfigInv, TypeOK
                <5>2. c \in Channel /\ root.channel \in [Channel -> Names \cup {Missing}]
                    BY <5>1, <1>0, <1>1, <1>4 DEF BoundChannels, Document
                <5>3. root'.channel[c] = root.channel[c]
                    BY <5>1, <5>2, <4>2, <1>2, <1>3, <1>4
                <5>4. rejected = {} /\ data_source_callbacks' = data_source_callbacks
                    BY DEF AddBinding, ConfigInv, LoadingInv, Loading
                <5> QED
                    BY <5>1, <5>3, <5>4 DEF ConfigInv, BindingInv
            <4> QED
                BY <4>1, <4>2
        <3>2. ASSUME NEW c \in Live' \ BoundChannels'
              PROVE  data_source_callbacks'[c] = "NULL"
            <4>1. c \in Live \ BoundChannels
                BY <3>2, <2>0, <1>0
                DEF BoundChannels, AddBinding, Live, ConfigInv, TypeOK
            <4> QED
                BY <4>1 DEF ConfigInv, BindingInv, AddBinding, Loading
        <3> QED
            BY <3>1, <3>2 DEF BindingInv
    <2>3. CalibrationInv'
        <3>1. ASSUME NEW c \in CalibratedChannels'
              PROVE  /\ root'.calibration[c] # Missing
                     /\ calibration_values'[c] = Narrowed(root'.calibration[c])
            <4>1. c \in CalibratedChannels /\ next > 0
                BY <3>1, <1>0, <2>0
                DEF CalibratedChannels, AddBinding, Loading, Live, ConfigInv, TypeOK
            <4>2. root'.calibration = root.calibration /\ rejected = {}
                BY <4>1, <1>2, <1>3, <1>4 DEF AddBinding, ConfigInv, LoadingInv, Loading
            <4> QED
                BY <4>1, <4>2 DEF ConfigInv, CalibrationInv, AddBinding
        <3> QED
            BY <3>1 DEF CalibrationInv
    <2> QED
        BY <1>5, <2>1, <2>2, <2>3 DEF ConfigInv
<1> QED
    BY <1>6, <1>7

(* A channel whose calibration is loaded is either an earlier one or the   *)
(* one the step is about; when it was the last the tables are complete.    *)
LEMMA NextChannelStage ==
    ASSUME ConfigInv, stage = "calibration", NextChannel,
           channel_count' = channel_count
    PROVE  /\ Loading' \/ stage' = "ready"
           /\ Live' = Live
           /\ BoundChannels' = BoundChannels
           /\ CalibratedChannels' = CalibratedChannels \cup {next}
           /\ next' \in 0..MaxChannels /\ next' > 0
           /\ Loading' => stage' = "binding" /\ next' < channel_count'
<1>0. next \in Live /\ next \in Nat /\ channel_count \in 0..MaxChannels
    BY LoadingTables DEF Loading, ConfigInv, TypeOK
<1>1. Live' = Live
    BY DEF Live
<1>2. stage' \in {"binding", "ready"} /\ next' = next + 1
    BY DEF NextChannel
<1>3. stage' = "ready" => next = channel_count - 1
    BY <1>0 DEF NextChannel, Live
<1>4. BoundChannels' = BoundChannels
    BY <1>0, <1>1, <1>2, <1>3 DEF BoundChannels, Live
<1>5. CalibratedChannels' = CalibratedChannels \cup {next}
    BY <1>0, <1>1, <1>2, <1>3 DEF CalibratedChannels, Live, Loading
<1> QED
    BY <1>0, <1>1, <1>2, <1>4, <1>5, ChannelsAssumption
    DEF Loading, NextChannel, Live

LEMMA ReadCalibrationStep ==
    ASSUME ConfigInv, ReadCalibration
    PROVE  ConfigInv'
<1>0. /\ Allocated(channel_count) /\ next \in Live /\ next \in Channel
      /\ Live \subseteq Channel
    BY LoadingTables DEF ReadCalibration, Loading
<1>1. /\ Loading' \/ stage' = "ready"
      /\ Live' = Live
      /\ BoundChannels' = BoundChannels
      /\ CalibratedChannels' = CalibratedChannels \cup {next}
      /\ next' \in 0..MaxChannels /\ next' > 0
      /\ Loading' => stage' = "binding" /\ next' < channel_count'
    BY NextChannelStage DEF ReadCalibration
<1>2. /\ root # NoRoot /\ file = root /\ rejected = {}
      /\ root \in Document
    BY DEF ConfigInv, LoadingInv, Loading, ReadCalibration, TypeOK
<1>3. root.calibration[next] \in Int
    BY <1>0, <1>2 DEF ReadCalibration, Document
<1>4. TypeOK'
    <2>1. Allocated(channel_count)'
        BY <1>0, <1>3, NarrowedIsByte DEF Allocated, ReadCalibration
    <2>2. stage' \in {"binding", "ready"}
        BY DEF ReadCalibration, NextChannel
    <2> QED
        BY <1>1, <2>1, <2>2 DEF ConfigInv, TypeOK, ReadCalibration, Allocated
<1>5. (OffInv /\ LoadingInv /\ ReadyInv)'
    BY <1>1, <1>2, SentinelAssumption
    DEF ReadCalibration, OffInv, LoadingInv, ReadyInv, Loading
<1>6. BindingInv'
    BY <1>1 DEF ReadCalibration, ConfigInv, BindingInv, Loading
<1>7. CalibrationInv'
    <2>1. ASSUME NEW c \in CalibratedChannels'
          PROVE  /\ root.calibration[c] # Missing
                 /\ calibration_values'[c] = Narrowed(root.calibration[c])
        <3>1. CASE c = next
            BY <3>1, <1>0 DEF ReadCalibration, Allocated, Live
        <3>2. CASE c # next
            <4>1. c \in CalibratedChannels /\ c \in 0..(channel_count - 1)
                BY <1>1, <2>1, <3>2 DEF CalibratedChannels, Live
            <4>2. calibration_values'[c] = calibration_values[c]
                BY <3>2, <4>1, <1>0 DEF ReadCalibration, Allocated
            <4> QED
                BY <4>1, <4>2, <1>2 DEF ConfigInv, CalibrationInv
        <3> QED
            BY <3>1, <3>2
    <2> QED
        BY <2>1 DEF CalibrationInv, ReadCalibration
<1> QED
    BY <1>4, <1>5, <1>6, <1>7 DEF ConfigInv

LEMMA AddCalibrationStep ==
    ASSUME ConfigInv, NEW outcome \in Outcomes, AddCalibration(outcome)
    PROVE  ConfigInv'
<1> DEFINE doc == [root EXCEPT !.calibration[next] = DefaultCalibration]
<1>0. /\ Allocated(channel_count) /\ next \in Live /\ next \in Channel
      /\ Live \subseteq Channel
    BY LoadingTables DEF AddCalibration, Loading
<1>1. /\ root # NoRoot /\ file = root /\ rejected = {}
      /\ root \in Document
    BY DEF ConfigInv, LoadingInv, Loading, AddCalibration, TypeOK
<1>2. /\ doc \in Document /\ doc # NoRoot /\ doc # Absent
      /\ doc.channel = root.channel
      /\ doc.calibration = [root.calibration EXCEPT ![next] = DefaultCalibration]
      /\ doc.calibration[next] = DefaultCalibration
    <2>1. DefaultCalibration \in Int
        BY DEF DefaultCalibration
    <2>2. /\ doc \in Document
          /\ doc.channel = root.channel
          /\ doc.calibration = [root.calibration EXCEPT ![next] = DefaultCalibration]
        BY <2>1, <1>0, <1>1, PutCalibration
    <2>3. root.calibration \in [Channel -> Int \cup {Missing}]
        BY <1>1 DEF Document
    <2> HIDE DEF doc
    <2> QED
        BY <2>2, <2>3, <1>0, SentinelAssumption
<1>3. root' = doc /\ file' = FileAfter(doc, outcome)
    BY DEF AddCalibration
<1> HIDE DEF doc
<1>4. file' \in Document \cup {Absent, Torn}
    BY <1>2, <1>3, FileAfterType DEF ConfigInv
<1>5. CASE outcome # "ok"
    <2>1. TypeOK'
        BY <1>2, <1>3, <1>4, <1>5 DEF ConfigInv, TypeOK, AddCalibration
    <2> QED
        BY <2>1, <1>5 DEF AddCalibration, ConfigInv, OffInv, LoadingInv, ReadyInv,
           BindingInv, CalibrationInv, Loading, BoundChannels, CalibratedChannels
<1>6. CASE outcome = "ok"
    <2>0. /\ file' = doc
          /\ calibration_values' =
                [calibration_values EXCEPT ![next] = DefaultCalibration]
          /\ NextChannel
        BY <1>2, <1>3, <1>6, FileAfterType DEF ConfigInv, AddCalibration
    <2>1. /\ Loading' \/ stage' = "ready"
          /\ Live' = Live
          /\ BoundChannels' = BoundChannels
          /\ CalibratedChannels' = CalibratedChannels \cup {next}
          /\ next' \in 0..MaxChannels /\ next' > 0
          /\ Loading' => stage' = "binding" /\ next' < channel_count'
        BY <2>0, NextChannelStage DEF AddCalibration
    <2>2. TypeOK'
        <3>0. DefaultCalibration \in Byte
            BY DEF DefaultCalibration, Byte
        <3>1. Allocated(channel_count)'
            BY <1>0, <2>0, <3>0 DEF Allocated, AddCalibration
        <3>2. stage' \in {"binding", "ready"}
            BY <2>0 DEF NextChannel
        <3> QED
            BY <1>2, <1>3, <1>4, <2>1, <3>1, <3>2
            DEF ConfigInv, TypeOK, AddCalibration, Allocated
    <2>3. (OffInv /\ LoadingInv /\ ReadyInv)'
        BY <2>0, <2>1, <1>1, <1>2, <1>3
        DEF AddCalibration, OffInv, LoadingInv, ReadyInv, Loading
    <2>4. BindingInv'
        BY <2>1, <1>2, <1>3 DEF AddCalibration, ConfigInv, BindingInv, Loading
    <2>5. CalibrationInv'
        <3>1. ASSUME NEW c \in CalibratedChannels'
              PROVE  /\ root'.calibration[c] # Missing
                     /\ calibration_values'[c] = Narrowed(root'.calibration[c])
            <4>1. CASE c = next
                <5>1. Narrowed(DefaultCalibration) = DefaultCalibration
                    BY NarrowedKeepsBytes DEF Byte, DefaultCalibration
                <5>2. DefaultCalibration # Missing
                    BY SentinelAssumption DEF DefaultCalibration
                <5>3. calibration_values'[next] = DefaultCalibration
                    BY <1>0, <2>0 DEF Allocated, Live
                <5> QED
                    BY <4>1, <5>1, <5>2, <5>3, <1>2, <1>3
            <4>2. CASE c # next
                <5>1. c \in CalibratedChannels /\ c \in 0..(channel_count - 1)
                    BY <2>1, <3>1, <4>2 DEF CalibratedChannels, Live
                <5>2. calibration_values'[c] = calibration_values[c]
                    BY <4>2, <5>1, <1>0, <2>0 DEF Allocated
                <5>3. c \in Channel /\ root.calibration \in [Channel -> Int \cup {Missing}]
                    BY <5>1, <1>0, <1>1 DEF CalibratedChannels, Document
                <5>4. root'.calibration[c] = root.calibration[c]
                    BY <5>3, <4>2, <1>2, <1>3
                <5> QED
                    BY <5>1, <5>2, <5>4, <1>1 DEF ConfigInv, CalibrationInv
            <4> QED
                BY <4>1, <4>2
        <3> QED
            BY <3>1 DEF CalibrationInv
    <2> QED
        BY <2>2, <2>3, <2>4, <2>5 DEF ConfigInv
<1> QED
    BY <1>5, <1>6

(* In a ready state a set call finds its key, and the save it makes leaves *)
(* either the new document or the old file or a torn one.                  *)
LEMMA ReadyFacts ==
    ASSUME ConfigInv, stage = "ready", NEW c \in Live
    PROVE  /\ channel_count > 0 /\ c \in Channel /\ root \in Document
           /\ BoundChannels = Live /\ CalibratedChannels = Live
           /\ root.channel[c] # Missing /\ root.calibration[c] # Missing
<1>1. channel_count > 0 /\ c \in Channel
    BY ReadyTables DEF Live, ConfigInv, TypeOK
<1>2. BoundChannels = Live /\ CalibratedChannels = Live
    BY DEF BoundChannels, CalibratedChannels
<1> QED
    BY <1>1, <1>2 DEF ConfigInv, ReadyInv, BindingInv, CalibrationInv, TypeOK

LEMMA SetSourceStep ==
    ASSUME ConfigInv, NEW c \in Live, NEW name \in Names, NEW outcome \in Outcomes,
           set_channel_source_binding(c, name, outcome)
    PROVE  ConfigInv'
<1> DEFINE doc == [root EXCEPT !.channel[c] = name]
           setting == <<c, "channel">>
<1>0. stage = "ready" /\ Allocated(channel_count) /\ Live \subseteq Channel
    BY ReadyTables DEF set_channel_source_binding
<1>1. /\ channel_count > 0 /\ c \in Channel /\ root \in Document
      /\ BoundChannels = Live /\ CalibratedChannels = Live
      /\ root.channel[c] # Missing
    BY <1>0, ReadyFacts
<1>2. /\ doc \in Document /\ doc # NoRoot /\ doc # Absent
      /\ doc.calibration = root.calibration
      /\ doc.channel = [root.channel EXCEPT ![c] = name]
      /\ root.channel \in [Channel -> Names \cup {Missing}]
    <2>1. doc \in Document
        BY <1>1, PutChannel
    <2>2. doc # NoRoot /\ doc # Absent
        BY <2>1, SentinelAssumption
    <2> QED
        BY <1>1, <2>1, <2>2, PutChannel DEF Document
<1>3. root' = doc /\ file' = FileAfter(doc, outcome)
    BY <1>1 DEF set_channel_source_binding
<1>4. IF outcome = "ok"
      THEN /\ data_source_callbacks' =
                 [data_source_callbacks EXCEPT ![c] = name_string_to_callback(name)]
           /\ rejected' = rejected \ {setting}
           /\ file' = doc
      ELSE /\ data_source_callbacks' = data_source_callbacks
           /\ rejected' = rejected \cup {setting}
           /\ file' \in {doc, file, Torn}
    <2>1. /\ outcome = "ok" => FileAfter(doc, outcome) = doc
          /\ FileAfter(doc, outcome) \in {doc, file, Torn}
        BY <1>2, FileAfterType DEF ConfigInv
    <2> QED
        BY <1>1, <1>3, <2>1 DEF set_channel_source_binding, Verdict
<1>5. /\ stage' = "ready" /\ channel_count' = channel_count
      /\ calibration_values' = calibration_values /\ next' = next
      /\ Live' = Live /\ BoundChannels' = Live /\ CalibratedChannels' = Live
    BY DEF set_channel_source_binding, Live, BoundChannels, CalibratedChannels
<1> HIDE DEF doc
<1>6. TypeOK'
    <2>1. Allocated(channel_count)'
        BY <1>0, <1>4, <1>5 DEF Allocated, name_string_to_callback, Callbacks
    <2>2. file' \in Document \cup {Absent, Torn}
        BY <1>2, <1>4 DEF ConfigInv, TypeOK
    <2>3. rejected' \subseteq Settings
        BY <1>1, <1>4 DEF ConfigInv, TypeOK, Settings
    <2> QED
        BY <1>2, <1>3, <1>5, <2>1, <2>2, <2>3 DEF ConfigInv, TypeOK, Allocated
<1>7. (OffInv /\ LoadingInv)'
    BY <1>5 DEF OffInv, LoadingInv, Loading
<1>8. ReadyInv'
    <2>1. file' # Absent /\ root' # NoRoot
        BY <1>0, <1>1, <1>2, <1>3, <1>4, SentinelAssumption DEF ConfigInv, ReadyInv
    <2>2. rejected' = {} => file' = root'
        BY <1>3, <1>4
    <2>3. ASSUME file' # Torn, NEW d \in Channel
          PROVE  /\ <<d, "channel">> \notin rejected' =>
                       file'.channel[d] = root'.channel[d]
                 /\ <<d, "calibration">> \notin rejected' =>
                       file'.calibration[d] = root'.calibration[d]
        <3>1. CASE file' = doc
            BY <3>1, <1>3
        <3>2. CASE file' # doc
            <4>1. file' = file /\ rejected' = rejected \cup {setting}
                BY <3>2, <2>3, <1>4
            <4>2. <<d, "channel">> \notin rejected' => d # c
                BY <4>1
            <4>3. d # c => root'.channel[d] = root.channel[d]
                BY <1>1, <1>2, <1>3
            <4>4. root'.calibration = root.calibration
                BY <1>2, <1>3
            <4> QED
                BY <2>3, <4>1, <4>2, <4>3, <4>4, <1>0, <1>1 DEF ConfigInv, ReadyInv
        <3> QED
            BY <3>1, <3>2
    <2> QED
        BY <2>1, <2>2, <2>3 DEF ReadyInv
<1>9. BindingInv'
    <2>1. ASSUME NEW d \in Live
          PROVE  /\ root'.channel[d] # Missing
                 /\ <<d, "channel">> \notin rejected' =>
                       data_source_callbacks'[d] \in
                          {"NULL", name_string_to_callback(root'.channel[d])}
        <3>1. CASE d = c
            <4>1. root'.channel[d] = name /\ name # Missing
                BY <3>1, <1>1, <1>2, <1>3, SentinelAssumption
            <4>2. outcome = "ok" => data_source_callbacks'[d] =
                                       name_string_to_callback(name)
                BY <3>1, <1>0, <1>4 DEF Allocated, Live
            <4> QED
                BY <3>1, <4>1, <4>2, <1>4
        <3>2. CASE d # c
            <4>1. root'.channel[d] = root.channel[d]
                BY <3>2, <2>1, <1>0, <1>1, <1>2, <1>3
            <4>2. data_source_callbacks'[d] = data_source_callbacks[d]
                BY <3>2, <2>1, <1>0, <1>4 DEF Allocated, Live
            <4>3. <<d, "channel">> \notin rejected' => <<d, "channel">> \notin rejected
                BY <3>2, <1>4
            <4> QED
                BY <2>1, <4>1, <4>2, <4>3, <1>1 DEF ConfigInv, BindingInv
        <3> QED
            BY <3>1, <3>2
    <2> QED
        BY <2>1, <1>5 DEF BindingInv, Loading
<1>10. CalibrationInv'
    <2>1. root'.calibration = root.calibration
        BY <1>2, <1>3
    <2>2. \A d : <<d, "calibration">> \notin rejected' => <<d, "calibration">> \notin rejected
        BY <1>4
    <2> QED
        BY <2>1, <2>2, <1>1, <1>5 DEF ConfigInv, CalibrationInv
<1> QED
    BY <1>6, <1>7, <1>8, <1>9, <1>10 DEF ConfigInv

LEMMA SetCalibrationStep ==
    ASSUME ConfigInv, NEW c \in Live, NEW v \in Byte, NEW outcome \in Outcomes,
           set_channel_calibration(c, v, outcome)
    PROVE  ConfigInv'
<1> DEFINE doc == [root EXCEPT !.calibration[c] = v]
           setting == <<c, "calibration">>
<1>0. stage = "ready" /\ Allocated(channel_count) /\ Live \subseteq Channel
    BY ReadyTables DEF set_channel_calibration
<1>1. /\ channel_count > 0 /\ c \in Channel /\ root \in Document
      /\ BoundChannels = Live /\ CalibratedChannels = Live
      /\ root.calibration[c] # Missing
    BY <1>0, ReadyFacts
<1>2. /\ doc \in Document /\ doc # NoRoot /\ doc # Absent
      /\ doc.channel = root.channel
      /\ doc.calibration = [root.calibration EXCEPT ![c] = v]
      /\ root.calibration \in [Channel -> Int \cup {Missing}]
    <2>1. v \in Int
        BY DEF Byte
    <2>2. /\ doc \in Document
          /\ doc.channel = root.channel
          /\ doc.calibration = [root.calibration EXCEPT ![c] = v]
        BY <2>1, <1>1, PutCalibration
    <2>3. doc # NoRoot /\ doc # Absent
        BY <2>2, SentinelAssumption
    <2> QED
        BY <1>1, <2>2, <2>3 DEF Document
<1>3. root' = doc /\ file' = FileAfter(doc, outcome)
    BY <1>1 DEF set_channel_calibration
<1>4. IF outcome = "ok"
      THEN /\ calibration_values' = [calibration_values EXCEPT ![c] = v]
           /\ rejected' = rejected \ {setting}
           /\ file' = doc
      ELSE /\ calibration_values' = calibration_values
           /\ rejected' = rejected \cup {setting}
           /\ file' \in {doc, file, Torn}
    <2>1. /\ outcome = "ok" => FileAfter(doc, outcome) = doc
          /\ FileAfter(doc, outcome) \in {doc, file, Torn}
        BY <1>2, FileAfterType DEF ConfigInv
    <2> QED
        BY <1>1, <1>3, <2>1 DEF set_channel_calibration, Verdict
<1>5. /\ stage' = "ready" /\ channel_count' = channel_count
      /\ data_source_callbacks' = data_source_callbacks /\ next' = next
      /\ Live' = Live /\ BoundChannels' = Live /\ CalibratedChannels' = Live
    BY DEF set_channel_calibration, Live, BoundChannels, CalibratedChannels
<1> HIDE DEF doc
<1>6. TypeOK'
    <2>1. Allocated(channel_count)'
        BY <1>0, <1>4, <1>5 DEF Allocated
    <2>2. file' \in Document \cup {Absent, Torn}
        BY <1>2, <1>4 DEF ConfigInv, TypeOK
    <2>3. rejected' \subseteq Settings
        BY <1>1, <1>4 DEF ConfigInv, TypeOK, Settings
    <2> QED
        BY <1>2, <1>3, <1>5, <2>1, <2>2, <2>3 DEF ConfigInv, TypeOK, Allocated
<1>7. (OffInv /\ LoadingInv)'
    BY <1>5 DEF OffInv, LoadingInv, Loading
<1>8. ReadyInv'
    <2>1. file' # Absent /\ root' # NoRoot
        BY <1>0, <1>1, <1>2, <1>3, <1>4, SentinelAssumption DEF ConfigInv, ReadyInv
    <2>2. rejected' = {} => file' = root'
        BY <1>3, <1>4
    <2>3. ASSUME file' # Torn, NEW d \in Channel
          PROVE  /\ <<d, "channel">> \notin rejected' =>
                       file'.channel[d] = root'.channel[d]
                 /\ <<d, "calibration">> \notin rejected' =>
                       file'.calibration[d] = root'.calibration[d]
        <3>1. CASE file' = doc
            BY <3>1, <1>3
        <3>2. CASE file' # doc
            <4>1. file' = file /\ rejected' = rejected \cup {setting}
                BY <3>2, <2>3, <1>4
            <4>2. <<d, "calibration">> \notin rejected' => d # c
                BY <4>1
            <4>3. d # c => root'.calibration[d] = root.calibration[d]
                BY <1>1, <1>2, <1>3
            <4>4. root'.channel = root.channel
                BY <1>2, <1>3
            <4> QED
                BY <2>3, <4>1, <4>2, <4>3, <4>4, <1>0, <1>1 DEF ConfigInv, ReadyInv
        <3> QED
            BY <3>1, <3>2
    <2> QED
        BY <2>1, <2>2, <2>3 DEF ReadyInv
<1>9. CalibrationInv'
    <2>1. ASSUME NEW d \in Live
          PROVE  /\ root'.calibration[d] # Missing
                 /\ <<d, "calibration">> \notin rejected' =>
                       calibration_values'[d] = Narrowed(root'.calibration[d])
        <3>1. CASE d = c
            <4>1. root'.calibration[d] = v /\ v # Missing /\ Narrowed(v) = v
                BY <3>1, <1>1, <1>2, <1>3, SentinelAssumption, NarrowedKeepsBytes DEF Byte
            <4>2. outcome = "ok" => calibration_values'[d] = v
                BY <3>1, <1>0, <1>4 DEF Allocated, Live
            <4> QED
                BY <3>1, <4>1, <4>2, <1>4
        <3>2. CASE d # c
            <4>1. root'.calibration[d] = root.calibration[d]
                BY <3>2, <2>1, <1>0, <1>1, <1>2, <1>3
            <4>2. calibration_values'[d] = calibration_values[d]
                BY <3>2, <2>1, <1>0, <1>4 DEF Allocated, Live
            <4>3. <<d, "calibration">> \notin rejected' =>
                     <<d, "calibration">> \notin rejected
                BY <3>2, <1>4
            <4> QED
                BY <2>1, <4>1, <4>2, <4>3, <1>1 DEF ConfigInv, CalibrationInv
        <3> QED
            BY <3>1, <3>2
    <2> QED
        BY <2>1, <1>5 DEF CalibrationInv
<1>10. BindingInv'
    <2>1. root'.channel = root.channel
        BY <1>2, <1>3
    <2>2. \A d : <<d, "channel">> \notin rejected' => <<d, "channel">> \notin rejected
        BY <1>4
    <2> QED
        BY <2>1, <2>2, <1>1, <1>5 DEF ConfigInv, BindingInv, Loading
<1> QED
    BY <1>6, <1>7, <1>8, <1>9, <1>10 DEF ConfigInv

LEMMA ClearBindingStep ==
    ASSUME ConfigInv, NEW c \in Live, clear_binding(c)
    PROVE  ConfigInv'
<1>0. stage = "ready" /\ Allocated(channel_count) /\ BoundChannels = Live
    BY ReadyTables DEF clear_binding, BoundChannels
<1>1. TypeOK'
    <2>1. Allocated(channel_count)'
        BY <1>0 DEF Allocated, clear_binding, Callbacks
    <2> QED
        BY <2>1 DEF ConfigInv, TypeOK, Allocated, clear_binding
<1>2. (OffInv /\ LoadingInv /\ ReadyInv /\ CalibrationInv)'
    BY DEF clear_binding, ConfigInv, OffInv, LoadingInv, ReadyInv, CalibrationInv,
       Loading, CalibratedChannels, Live
<1>3. BindingInv'
    <2>1. BoundChannels' = Live
        BY <1>0 DEF clear_binding, BoundChannels, Live
    <2>2. \A d \in Live : data_source_callbacks'[d] \in {"NULL", data_source_callbacks[d]}
        BY <1>0 DEF clear_binding, Allocated, Live
    <2> QED
        BY <1>0, <2>1, <2>2 DEF ConfigInv, BindingInv, clear_binding, Loading
<1> QED
    BY <1>1, <1>2, <1>3 DEF ConfigInv

LEMMA ProcessEndsStep ==
    ASSUME ConfigInv, ProcessEnds
    PROVE  ConfigInv'
<1>1. TypeOK'
    BY ChannelsAssumption DEF ConfigInv, TypeOK, ProcessEnds, Byte
<1> QED
    BY <1>1 DEF ProcessEnds, ConfigInv, OffInv, LoadingInv, ReadyInv, BindingInv,
       CalibrationInv, Loading, BoundChannels, CalibratedChannels

LEMMA NextConfigInv ==
    ASSUME ConfigInv, [ConfigNext]_configVars
    PROVE  ConfigInv'
<1>1. CASE \E n \in 0..MaxChannels : AllocateTables(n) \/ AllocationFails(n)
    BY <1>1, AllocateTablesStep, AllocationFailsStep
<1>2. CASE LoadStep
    BY <1>2, RefuseConfigStep, ReadBindingStep, AddBindingStep,
       ReadCalibrationStep, AddCalibrationStep DEF LoadStep
<1>3. CASE \E c \in Live, name \in Names, outcome \in Outcomes :
              set_channel_source_binding(c, name, outcome)
    BY <1>3, SetSourceStep
<1>4. CASE \E c \in Live : clear_binding(c)
    BY <1>4, ClearBindingStep
<1>5. ASSUME NEW c \in Live, NEW v \in SliderValues \cup {calibration_values[c]},
             NEW outcome \in Outcomes, set_channel_calibration(c, v, outcome)
      PROVE  ConfigInv'
    <2>1. v \in Byte
        BY <1>5, ReadyTables, CalibrationsAssumption
        DEF set_channel_calibration, Allocated, Live
    <2> QED
        BY <1>5, <2>1, SetCalibrationStep
<1>6. CASE ProcessEnds
    BY <1>6, ProcessEndsStep
<1>7. CASE UNCHANGED configVars
    BY <1>7 DEF configVars, ConfigInv, TypeOK, OffInv, LoadingInv, ReadyInv, BindingInv,
       CalibrationInv, Loading, BoundChannels, CalibratedChannels, Live
<1> QED
    BY <1>1, <1>2, <1>3, <1>4, <1>5, <1>6, <1>7 DEF ConfigNext, Change

---------------------------------------------------------------------------
(* Theorems                                                                *)

(* The inductive invariant holds in every reachable state.                 *)
THEOREM ConfigInvariance == ConfigSafety => []ConfigInv
<1>1. ConfigInit => ConfigInv
    BY InitConfigInv
<1>2. ConfigInv /\ [ConfigNext]_configVars => ConfigInv'
    BY NextConfigInv
<1> QED
    BY <1>1, <1>2, PTL DEF ConfigSafety

(* Type correctness; in particular the live calibrations are bytes and the *)
(* two tables have one element per channel whenever the panel is usable.   *)
THEOREM TypeCorrectness == ConfigSafety => []TypeOK
<1>1. ConfigInv => TypeOK
    BY DEF ConfigInv
<1> QED
    BY <1>1, ConfigInvariance, PTL

(* What was acknowledged is what a later start loads: RestartRestores, for *)
(* every panel, every config.json and every outcome of every save.         *)
THEOREM AcknowledgedSettingsDurable == ConfigSafety => []RestartRestores
<1>1. ConfigInv => RestartRestores
    <2> SUFFICES ASSUME ConfigInv, stage = "ready", channel_count > 0
                 PROVE  /\ rejected = {} => file # Torn
                        /\ file # Torn =>
                              \A c \in Live :
                                 /\ <<c, "channel">> \notin rejected =>
                                       data_source_callbacks[c] \in
                                          {"NULL", name_string_to_callback(file.channel[c])}
                                 /\ <<c, "calibration">> \notin rejected =>
                                       calibration_values[c] = Narrowed(file.calibration[c])
        BY DEF RestartRestores
    <2>1. rejected = {} => file # Torn
        BY SentinelAssumption DEF ConfigInv, ReadyInv, TypeOK
    <2>2. BoundChannels = Live /\ CalibratedChannels = Live /\ Live \subseteq Channel
        BY ReadyTables DEF BoundChannels, CalibratedChannels
    <2> QED
        BY <2>1, <2>2 DEF ConfigInv, ReadyInv, BindingInv, CalibrationInv
<1> QED
    BY <1>1, ConfigInvariance, PTL

(* Once the panel is usable, a set call always finds the key it changes.   *)
THEOREM SetCallsFindTheirKey == ConfigSafety => []EveryChannelHasEntries
<1>1. ConfigInv => EveryChannelHasEntries
    <2> SUFFICES ASSUME ConfigInv, stage = "ready", NEW c \in Live
                 PROVE  /\ root # NoRoot
                        /\ root.channel[c] # Missing /\ root.calibration[c] # Missing
        BY DEF EveryChannelHasEntries
    <2> QED
        BY ReadyFacts, SentinelAssumption
<1> QED
    BY <1>1, ConfigInvariance, PTL

(* No start overwrites a config.json it cannot parse.                      *)
THEOREM UnreadableFileIsLeftAlone == ConfigSafety => UnreadableConfigKept
<1>1. ConfigInv /\ [ConfigNext]_configVars =>
         ((Loading \/ stage = "off") /\ file = Torn => file' = Torn)
    <2> SUFFICES ASSUME ConfigInv, [ConfigNext]_configVars,
                        Loading \/ stage = "off", file = Torn
                 PROVE  file' = Torn
        OBVIOUS
    <2>1. Loading => Unreadable /\ stage = "binding"
        BY SentinelAssumption DEF ConfigInv, LoadingInv, TypeOK, Unreadable, Loading
    <2>2. ~(stage = "ready")
        BY DEF Loading
    <2>3. CASE LoadStep
        BY <2>1, <2>3 DEF LoadStep, RefuseConfig, ReadBinding, AddBinding,
           ReadCalibration, AddCalibration, Loading
    <2>4. CASE ~LoadStep
        BY <2>2, <2>4 DEF ConfigNext, Change, AllocateTables, AllocationFails, ProcessEnds,
           set_channel_source_binding, clear_binding, set_channel_calibration, configVars
    <2> QED
        BY <2>3, <2>4
<1> QED
    BY <1>1, ConfigInvariance, PTL DEF ConfigSafety, UnreadableConfigKept

(* A start that can read the file works on what the file says.             *)
LEMMA LoadingReadsTheFile ==
    ASSUME ConfigInv, Loading, file # Torn
    PROVE  /\ stage = "binding" => OpenedRoot = Contents(file)
           /\ stage = "calibration" => root = Contents(file)
BY SentinelAssumption DEF ConfigInv, LoadingInv, Loading, OpenedRoot, Contents, TypeOK

(* A start keeps every key config.json holds and adds nothing but defaults. *)
THEOREM StartupKeepsTheFile == ConfigSafety => StartupOnlyAddsDefaults
<1> DEFINE OnlyDefaults(old, new) ==
              \A c \in Channel :
                 /\ \/ new.channel[c] = old.channel[c]
                    \/ old.channel[c] = Missing /\ new.channel[c] = "Unallocated"
                 /\ \/ new.calibration[c] = old.calibration[c]
                    \/ /\ old.calibration[c] = Missing
                       /\ new.calibration[c] = DefaultCalibration
<1>1. ConfigInv /\ [ConfigNext]_configVars =>
         (Loading /\ file # Torn /\ file' # Torn =>
             OnlyDefaults(Contents(file), Contents(file')))
    <2> SUFFICES ASSUME ConfigInv, [ConfigNext]_configVars,
                        Loading, file # Torn, file' # Torn
                 PROVE  OnlyDefaults(Contents(file), Contents(file'))
        OBVIOUS
    <2>1. ASSUME file' = file
          PROVE  OnlyDefaults(Contents(file), Contents(file'))
        BY <2>1
    <2>2. ASSUME NEW outcome \in Outcomes, AddBinding(outcome)
          PROVE  OnlyDefaults(Contents(file), Contents(file'))
        <3> DEFINE doc == [OpenedRoot EXCEPT !.channel[next] = "Unallocated"]
        <3>0. next \in Channel /\ OpenedRoot \in Document /\ OpenedRoot = Contents(file)
            BY <2>2, LoadingTables, OpenedRootType, LoadingReadsTheFile
            DEF AddBinding, ConfigInv
        <3>1. /\ doc \in Document
              /\ doc.calibration = OpenedRoot.calibration
              /\ doc.channel = [OpenedRoot.channel EXCEPT ![next] = "Unallocated"]
            BY <3>0, PutChannel, NamesAssumption
        <3>2. file' \in {doc, file}
            BY <2>2, <3>1, FileAfterType DEF AddBinding, ConfigInv
        <3>3. OpenedRoot.channel[next] = Missing
            BY <2>2 DEF AddBinding
        <3>4. Contents(doc) = doc
            BY <3>1, SentinelAssumption DEF Contents
        <3> HIDE DEF doc
        <3>5. OnlyDefaults(OpenedRoot, doc)
            BY <3>0, <3>1, <3>3 DEF Document
        <3> QED
            BY <3>0, <3>2, <3>4, <3>5, <2>1
    <2>3. ASSUME NEW outcome \in Outcomes, AddCalibration(outcome)
          PROVE  OnlyDefaults(Contents(file), Contents(file'))
        <3> DEFINE doc == [root EXCEPT !.calibration[next] = DefaultCalibration]
        <3>0. next \in Channel /\ root \in Document /\ root = Contents(file)
            BY <2>3, LoadingTables, LoadingReadsTheFile, SentinelAssumption
            DEF AddCalibration, ConfigInv, LoadingInv, Loading, TypeOK
        <3>1. /\ doc \in Document
              /\ doc.channel = root.channel
              /\ doc.calibration = [root.calibration EXCEPT ![next] = DefaultCalibration]
            BY <3>0, PutCalibration DEF DefaultCalibration
        <3>2. file' \in {doc, file}
            BY <2>3, <3>1, FileAfterType DEF AddCalibration, ConfigInv
        <3>3. root.calibration[next] = Missing
            BY <2>3 DEF AddCalibration
        <3>4. Contents(doc) = doc
            BY <3>1, SentinelAssumption DEF Contents
        <3> HIDE DEF doc
        <3>5. OnlyDefaults(root, doc)
            BY <3>0, <3>1, <3>3 DEF Document
        <3> QED
            BY <3>0, <3>2, <3>4, <3>5, <2>1
    <2> HIDE DEF OnlyDefaults
    <2>4. CASE LoadStep
        BY <2>1, <2>2, <2>3, <2>4 DEF LoadStep, RefuseConfig, ReadBinding, ReadCalibration
    <2>5. CASE ~LoadStep
        <3>1. stage # "off" /\ stage # "ready"
            BY DEF Loading
        <3>2. file' = file
            BY <2>5, <3>1 DEF ConfigNext, Change, AllocateTables, AllocationFails, ProcessEnds,
               set_channel_source_binding, clear_binding, set_channel_calibration,
               configVars
        <3> QED
            BY <2>1, <3>2
    <2> QED
        BY <2>4, <2>5
<1> QED
    BY <1>1, ConfigInvariance, PTL DEF ConfigSafety, StartupOnlyAddsDefaults

---------------------------------------------------------------------------
(***************************************************************************)
(* The Linux settings keep the contract of SettingsContract, for any       *)
(* number of channels, any names, any config.json and any outcome of any   *)
(* save: every step of LinuxConfig is a step of the contract or none.      *)
(*                                                                         *)
(* ConfigInv says almost all the mapping needs.  It lets a loaded channel  *)
(* be without its source, as a dialog may have paused it; before the first *)
(* dialog there is none, which LoadedInv adds.                             *)
(***************************************************************************)

LoadedInv ==
    Loading => \A c \in BoundChannels :
                  data_source_callbacks[c] = name_string_to_callback(root.channel[c])

ContractInv == ConfigInv /\ LoadedInv

LEMMA InitLoadedInv == ConfigInit => LoadedInv
BY DEF ConfigInit, LoadedInv, Loading

(* Loading extends the tables by what the document gives for the channel   *)
(* and leaves the earlier entries; no other step happens while it loads.   *)
LEMMA NextLoadedInv ==
    ASSUME ContractInv, [ConfigNext]_configVars
    PROVE  LoadedInv'
<1> USE DEF ContractInv
<1>1. ASSUME NEW n \in 0..MaxChannels, AllocateTables(n)
      PROVE  LoadedInv'
    BY <1>1 DEF AllocateTables, LoadedInv, Loading, BoundChannels, Live
<1>2. CASE ReadBinding
    <2>0. /\ Allocated(channel_count) /\ next \in Live /\ next \in Nat
          /\ Live' = Live
        BY <1>2, LoadingTables DEF ReadBinding, Loading, Live, ConfigInv, TypeOK
    <2>1. next > 0 => OpenedRoot = root
        BY <1>2 DEF OpenedRoot, ReadBinding, ConfigInv, LoadingInv, Loading
    <2>2. ASSUME NEW c \in BoundChannels'
          PROVE  data_source_callbacks'[c] = name_string_to_callback(root'.channel[c])
        <3>1. CASE c = next
            BY <1>2, <2>0, <3>1 DEF ReadBinding, Allocated, Live
        <3>2. CASE c # next
            <4>1. c \in BoundChannels /\ next > 0 /\ c \in Live
                BY <1>2, <2>0, <2>2, <3>2 DEF ReadBinding, BoundChannels, Live
            <4>2. data_source_callbacks'[c] = data_source_callbacks[c] /\ root' = root
                BY <1>2, <2>0, <2>1, <3>2, <4>1 DEF ReadBinding, Allocated, Live
            <4> QED
                BY <1>2, <4>1, <4>2 DEF LoadedInv, Loading, ReadBinding
        <3> QED
            BY <3>1, <3>2
    <2> QED
        BY <2>2 DEF LoadedInv
<1>3. ASSUME NEW outcome \in Outcomes, AddBinding(outcome)
      PROVE  LoadedInv'
    <2> DEFINE doc == [OpenedRoot EXCEPT !.channel[next] = "Unallocated"]
    <2>0. /\ Allocated(channel_count) /\ next \in Live /\ next \in Channel
          /\ next \in Nat /\ Live' = Live /\ Live \subseteq Channel
        BY <1>3, LoadingTables DEF AddBinding, Loading, Live, ConfigInv, TypeOK
    <2>1. OpenedRoot \in Document
        BY <1>3, OpenedRootType DEF AddBinding, ConfigInv
    <2>2. next > 0 => OpenedRoot = root
        BY <1>3 DEF OpenedRoot, AddBinding, ConfigInv, LoadingInv, Loading
    <2>3. doc.channel = [OpenedRoot.channel EXCEPT ![next] = "Unallocated"]
        BY <2>0, <2>1, PutChannel, NamesAssumption
    <2>4. /\ root' = doc /\ data_source_callbacks' = data_source_callbacks
          /\ stage' \in {"calibration", "failed"} /\ next' = next
        BY <1>3 DEF AddBinding
    <2> HIDE DEF doc
    <2>5. ASSUME NEW c \in BoundChannels', Loading'
          PROVE  data_source_callbacks'[c] = name_string_to_callback(root'.channel[c])
        <3>1. CASE c = next
            <4>1. next \in Live \ BoundChannels
                BY <1>3, <2>0 DEF BoundChannels, AddBinding
            <4>2. data_source_callbacks[c] = "NULL"
                BY <1>3, <3>1, <4>1 DEF ConfigInv, BindingInv, Loading, AddBinding
            <4>3. root'.channel[c] = "Unallocated"
                BY <2>0, <2>1, <2>3, <2>4, <3>1 DEF Document
            <4> QED
                BY <2>4, <4>2, <4>3 DEF name_string_to_callback
        <3>2. CASE c # next
            <4>1. c \in BoundChannels /\ next > 0 /\ c \in Channel
                BY <1>3, <2>0, <2>4, <2>5, <3>2
                DEF AddBinding, BoundChannels, Live, Loading
            <4>2. root'.channel[c] = root.channel[c]
                BY <2>1, <2>2, <2>3, <2>4, <3>2, <4>1 DEF Document
            <4> QED
                BY <1>3, <2>4, <4>1, <4>2 DEF LoadedInv, Loading, AddBinding
        <3> QED
            BY <3>1, <3>2
    <2> QED
        BY <2>5 DEF LoadedInv
<1>4. ASSUME stage = "calibration", NextChannel, channel_count' = channel_count,
             data_source_callbacks' = data_source_callbacks,
             root' = root \/ root'.channel = root.channel
      PROVE  LoadedInv'
    <2>1. BoundChannels' = BoundChannels
        BY <1>4, NextChannelStage
    <2> QED
        BY <1>4, <2>1 DEF LoadedInv, Loading
<1>5. CASE ReadCalibration
    BY <1>4, <1>5 DEF ReadCalibration
<1>6. ASSUME NEW outcome \in Outcomes, AddCalibration(outcome)
      PROVE  LoadedInv'
    <2>1. CASE stage' = "failed"
        BY <2>1 DEF LoadedInv, Loading
    <2>2. CASE stage' # "failed"
        <3>1. root \in Document /\ next \in Channel
            BY <1>6, LoadingTables
            DEF AddCalibration, Loading, ConfigInv, LoadingInv, TypeOK
        <3>2. root'.channel = root.channel
            BY <1>6, <3>1, PutCalibration DEF AddCalibration, DefaultCalibration
        <3> QED
            BY <1>4, <1>6, <2>2, <3>2 DEF AddCalibration
    <2> QED
        BY <2>1, <2>2
<1>7. CASE ~Loading'
    BY <1>7 DEF LoadedInv
<1>8. CASE UNCHANGED configVars
    BY <1>8 DEF configVars, LoadedInv, Loading, BoundChannels, Live
<1>9. \/ LoadStep \/ UNCHANGED configVars \/ ~Loading'
      \/ \E n \in 0..MaxChannels : AllocateTables(n)
    BY DEF ConfigNext, Change, AllocationFails, ProcessEnds, Loading,
       set_channel_source_binding, clear_binding, set_channel_calibration
<1>10. CASE RefuseConfig
    BY <1>7, <1>10 DEF RefuseConfig, Loading
<1> QED
    BY <1>1, <1>2, <1>3, <1>5, <1>6, <1>7, <1>8, <1>9, <1>10 DEF LoadStep

LEMMA ContractInvariance == ConfigSafety => []ContractInv
<1>1. ConfigInit => ContractInv
    BY InitConfigInv, InitLoadedInv DEF ContractInv
<1>2. ContractInv /\ [ConfigNext]_configVars => ContractInv'
    BY NextConfigInv, NextLoadedInv DEF ContractInv
<1> QED
    BY <1>1, <1>2, PTL DEF ConfigSafety

---------------------------------------------------------------------------
(* The mapping                                                             *)

(* Before and after a program is up the contract sees the file only.       *)
LEMMA NothingMapped ==
    stage # "ready" => Known = Contract!Nothing /\ InForce = Contract!Nothing
BY DEF Known, InForce, Contract!Nothing

LEMMA ReadyMapped ==
    ASSUME ConfigInv, stage = "ready", channel_count > 0
    PROVE  /\ Known = [s \in Settings \ rejected |-> Effective(root, s)]
           /\ InForce = [s \in Live \X {"channel", "calibration"} |->
                           IF s[2] = "channel" THEN data_source_callbacks[s[1]]
                                               ELSE calibration_values[s[1]]]
           /\ Live \X {"channel", "calibration"} \subseteq Settings
<1>1. root # NoRoot /\ Live \subseteq Channel
    BY ReadyTables DEF ConfigInv, ReadyInv
<1> QED
    BY <1>1 DEF Known, InForce, Settings

(* A start that writes a default down changes nothing a start makes of the *)
(* document.                                                               *)
LEMMA DefaultSource ==
    ASSUME NEW doc \in Document, NEW c \in Channel, doc.channel[c] = Missing,
           NEW s \in Settings
    PROVE  Effective([doc EXCEPT !.channel[c] = "Unallocated"], s) = Effective(doc, s)
<1> DEFINE new == [doc EXCEPT !.channel[c] = "Unallocated"]
<1>1. /\ new.channel = [doc.channel EXCEPT ![c] = "Unallocated"]
      /\ new.calibration = doc.calibration
    BY PutChannel, NamesAssumption
<1>2. s[1] \in Channel /\ doc.channel \in [Channel -> Names \cup {Missing}]
    BY DEF Settings, Document
<1>3. "Unallocated" # Missing
    BY NamesAssumption, SentinelAssumption
<1>4. CASE s[1] = c
    BY <1>1, <1>2, <1>3, <1>4 DEF Effective, name_string_to_callback
<1>5. CASE s[1] # c
    BY <1>1, <1>2, <1>5 DEF Effective
<1> QED
    BY <1>4, <1>5

LEMMA DefaultCalibrationStored ==
    ASSUME NEW doc \in Document, NEW c \in Channel, doc.calibration[c] = Missing,
           NEW s \in Settings
    PROVE  Effective([doc EXCEPT !.calibration[c] = DefaultCalibration], s)
              = Effective(doc, s)
<1> DEFINE new == [doc EXCEPT !.calibration[c] = DefaultCalibration]
<1>0. DefaultCalibration \in Int /\ Narrowed(DefaultCalibration) = DefaultCalibration
    BY NarrowedKeepsBytes DEF DefaultCalibration, Byte
<1>1. /\ new.channel = doc.channel
      /\ new.calibration = [doc.calibration EXCEPT ![c] = DefaultCalibration]
    BY <1>0, PutCalibration
<1>2. s[1] \in Channel /\ doc.calibration \in [Channel -> Int \cup {Missing}]
    BY DEF Settings, Document
<1>3. DefaultCalibration # Missing
    BY <1>0, SentinelAssumption
<1>4. CASE s[1] = c
    BY <1>0, <1>1, <1>2, <1>3, <1>4 DEF Effective
<1>5. CASE s[1] # c
    BY <1>1, <1>2, <1>5 DEF Effective
<1> QED
    BY <1>4, <1>5

(* What a start makes of a document is not nothing: there is a channel.    *)
LEMMA DocumentReadable ==
    \A doc : [s \in Settings |-> Effective(doc, s)] # Contract!Nothing
<1>1. <<0, "channel">> \in Settings
    BY ChannelsAssumption DEF Settings, Channel
<1> QED
    BY <1>1 DEF Contract!Nothing

(* A step of a start that does not bring the program up.                   *)
LEMMA StartingStep ==
    ASSUME stage # "ready", stage' # "ready", Stored' \in {Stored, Contract!Nothing}
    PROVE  [Contract!Next]_Contract!vars
<1>1. /\ Known = Contract!Nothing /\ InForce = Contract!Nothing
      /\ Known' = Contract!Nothing /\ InForce' = Contract!Nothing
    BY DEF Known, InForce, Contract!Nothing
<1>2. Contract!Starting
    BY <1>1 DEF Contract!Starting
<1> QED
    BY <1>2 DEF Contract!Next

(* The step that loads the last channel brings the program up, with what   *)
(* the file says in force.                                                 *)
LEMMA StartStep ==
    ASSUME ContractInv, ContractInv', stage = "calibration", stage' = "ready",
           root' = file', file' \in Document, Stored' = Stored, rejected' = {},
           channel_count' = channel_count, next = channel_count - 1,
           root'.channel = root.channel,
           data_source_callbacks' = data_source_callbacks
    PROVE  Contract!Next
<1> DEFINE all == Live' \X {"channel", "calibration"}
<1>1. /\ channel_count > 0 /\ Live' = Live /\ BoundChannels = Live
    BY LoadingTables DEF ContractInv, Loading, Live, BoundChannels, ConfigInv, TypeOK
<1>2. /\ Known' = [s \in Settings |-> Effective(root', s)]
      /\ InForce' = [s \in all |-> IF s[2] = "channel" THEN data_source_callbacks'[s[1]]
                                                     ELSE calibration_values'[s[1]]]
      /\ all \subseteq Settings
    <2>1. root' # NoRoot /\ Live' \subseteq Channel
        BY <1>1, LoadingTables, SentinelAssumption DEF ContractInv, Loading
    <2> QED
        BY <2>1 DEF Known, InForce, Settings
<1>3. /\ Stored = [s \in Settings |-> Effective(root', s)]
      /\ Stored # Contract!Nothing
    <2>1. Stored' = [s \in Settings |-> Effective(file', s)]
        BY SentinelAssumption DEF Stored, Contents
    <2> QED
        BY <2>1, DocumentReadable
<1>4. ASSUME NEW s \in all
      PROVE  InForce'[s] = Known'[s]
    <2>1. s[1] \in Live /\ s[2] \in {"channel", "calibration"} /\ s \in Settings
        BY <1>1, <1>2
    <2>2. /\ root'.channel[s[1]] # Missing
          /\ data_source_callbacks'[s[1]] = name_string_to_callback(root'.channel[s[1]])
        BY <1>1, <2>1 DEF ContractInv, ConfigInv, LoadedInv, BindingInv, Loading
    <2>3. /\ root'.calibration[s[1]] # Missing
          /\ calibration_values'[s[1]] = Narrowed(root'.calibration[s[1]])
        BY <1>1, <2>1 DEF ContractInv, ConfigInv, CalibrationInv, CalibratedChannels
    <2> QED
        BY <1>2, <2>1, <2>2, <2>3 DEF Effective
<1>5. Contract!Start
    BY <1>2, <1>3, <1>4 DEF Contract!Start
<1> QED
    BY <1>5 DEF Contract!Next

(* A set call that changes the document under one key, and is not rejected *)
(* only if the file is the document and the value in force, is a change of *)
(* the contract, acknowledged or refused.                                  *)
LEMMA ChangeStep ==
    ASSUME ConfigInv, ConfigInv', stage = "ready", stage' = "ready",
           channel_count' = channel_count,
           NEW c \in Live, NEW kind \in {"channel", "calibration"},
           \A s \in Settings \ {<<c, kind>>} : Effective(root', s) = Effective(root, s),
           \A s \in (Live \X {"channel", "calibration"}) \ {<<c, kind>>} :
              InForce'[s] = InForce[s],
           \/ /\ rejected' = rejected \ {<<c, kind>>}
              /\ file' = root'
              /\ InForce'[<<c, kind>>] = Effective(root', <<c, kind>>)
           \/ rejected' = rejected \cup {<<c, kind>>}
    PROVE  Contract!Next
<1> DEFINE setting == <<c, kind>>
           all == Live \X {"channel", "calibration"}
<1>1. /\ channel_count > 0 /\ Live' = Live /\ setting \in all /\ setting \in Settings
      /\ root' # NoRoot /\ root' \in Document
    <2>1. channel_count > 0 /\ c \in Channel
        BY ReadyFacts
    <2> QED
        BY <2>1 DEF Live, Settings, ConfigInv, ReadyInv, TypeOK
<1>2. /\ DOMAIN Known = Settings \ rejected /\ DOMAIN Known' = Settings \ rejected'
      /\ \A s \in Settings \ rejected : Known[s] = Effective(root, s)
      /\ \A s \in Settings \ rejected' : Known'[s] = Effective(root', s)
      /\ DOMAIN InForce = all /\ DOMAIN InForce' = all
    BY <1>1, ReadyMapped DEF Known, InForce
<1>3. Contract!SameBut(setting, Known, Known') /\ Contract!SameBut(setting, InForce, InForce')
    BY <1>2 DEF Contract!SameBut
<1>4. Stored' # Contract!Nothing => \A s \in Settings \ rejected' : Stored'[s] = Known'[s]
    <2> SUFFICES ASSUME Stored' # Contract!Nothing, NEW s \in Settings \ rejected'
                 PROVE  Stored'[s] = Effective(root', s)
        BY <1>2
    <2>1. file' # Torn /\ file' # Absent /\ Contents(file') = file'
        BY <1>1 DEF Stored, Contract!Nothing, ConfigInv, ReadyInv, Contents
    <2>2. Stored'[s] = Effective(file', s)
        BY <2>1 DEF Stored
    <2>3. PICK d \in Channel, k \in {"channel", "calibration"} : s = <<d, k>>
        BY DEF Settings
    <2>4. /\ <<d, "channel">> \notin rejected' => file'.channel[d] = root'.channel[d]
          /\ <<d, "calibration">> \notin rejected' =>
                file'.calibration[d] = root'.calibration[d]
        BY <1>1, <2>1 DEF ConfigInv, ReadyInv
    <2>5. Effective(file', <<d, k>>) = Effective(root', <<d, k>>)
        BY <2>3, <2>4 DEF Effective
    <2> QED
        BY <2>2, <2>3, <2>5
<1>5. Contract!Holds(Stored', Known')
    BY <1>2, <1>4 DEF Contract!Holds
<1>6. CASE rejected' = rejected \cup {setting}
    <2>1. Contract!Refuse(setting)
        BY <1>1, <1>2, <1>3, <1>5, <1>6 DEF Contract!Refuse, Contract!OnlyStoreChanges
    <2> QED
        BY <1>1, <1>2, <2>1 DEF Contract!Next
<1>7. CASE /\ rejected' = rejected \ {setting}
           /\ file' = root'
           /\ InForce'[setting] = Effective(root', setting)
    <2>1. Stored' # Contract!Nothing
        <3>1. Stored' = [s \in Settings |-> Effective(file', s)]
            BY <1>1, <1>7, SentinelAssumption DEF Stored, Contents
        <3> QED
            BY <1>1, <1>7, <3>1, DocumentReadable
    <2>2. setting \in DOMAIN Known' /\ Known'[setting] = InForce'[setting]
        BY <1>1, <1>2, <1>7
    <2>3. Contract!Acknowledge(setting)
        BY <1>1, <1>2, <1>3, <1>5, <2>1, <2>2
        DEF Contract!Acknowledge, Contract!OnlyStoreChanges
    <2> QED
        BY <1>1, <1>2, <2>3 DEF Contract!Next
<1> QED
    BY <1>6, <1>7

LEMMA SetSourceMapped ==
    ASSUME ContractInv, ContractInv', NEW c \in Live, NEW name \in Names,
           NEW outcome \in Outcomes, set_channel_source_binding(c, name, outcome)
    PROVE  Contract!Next
<1> DEFINE doc == [root EXCEPT !.channel[c] = name]
           setting == <<c, "channel">>
           all == Live \X {"channel", "calibration"}
<1>1. /\ stage = "ready" /\ channel_count > 0 /\ c \in Channel
      /\ root \in Document /\ root.channel[c] # Missing
      /\ Allocated(channel_count) /\ Live \subseteq Channel
    BY ReadyFacts, ReadyTables DEF set_channel_source_binding, ContractInv
<1>2. /\ doc \in Document /\ doc.calibration = root.calibration
      /\ doc.channel = [root.channel EXCEPT ![c] = name]
      /\ root.channel \in [Channel -> Names \cup {Missing}]
    BY <1>1, PutChannel DEF Document
<1>3. /\ root' = doc /\ stage' = "ready" /\ channel_count' = channel_count
      /\ Live' = Live /\ calibration_values' = calibration_values
    BY <1>1 DEF set_channel_source_binding, Live
<1>4. IF outcome = "ok"
      THEN /\ data_source_callbacks' =
                 [data_source_callbacks EXCEPT ![c] = name_string_to_callback(name)]
           /\ rejected' = rejected \ {setting}
           /\ file' = doc
      ELSE /\ data_source_callbacks' = data_source_callbacks
           /\ rejected' = rejected \cup {setting}
    <2>1. outcome = "ok" => FileAfter(doc, outcome) = doc
        BY <1>2, FileAfterType DEF ConfigInv, ContractInv
    <2> QED
        BY <1>1, <1>3, <2>1 DEF set_channel_source_binding, Verdict
<1> HIDE DEF doc
<1>5. ASSUME NEW s \in Settings \ {setting}
      PROVE  Effective(root', s) = Effective(root, s)
    <2>1. PICK d \in Channel, k \in {"channel", "calibration"} : s = <<d, k>>
        BY DEF Settings
    <2>2. k = "channel" => root'.channel[d] = root.channel[d]
        BY <1>2, <1>3, <2>1
    <2>3. root'.calibration = root.calibration
        BY <1>2, <1>3
    <2> QED
        BY <2>1, <2>2, <2>3 DEF Effective
<1>6. /\ InForce = [s \in all |-> IF s[2] = "channel" THEN data_source_callbacks[s[1]]
                                                     ELSE calibration_values[s[1]]]
      /\ InForce' = [s \in all |-> IF s[2] = "channel" THEN data_source_callbacks'[s[1]]
                                                     ELSE calibration_values'[s[1]]]
    BY <1>1, <1>3 DEF InForce
<1>7. ASSUME NEW s \in all \ {setting}
      PROVE  InForce'[s] = InForce[s]
    <2>1. PICK d \in Live, k \in {"channel", "calibration"} : s = <<d, k>>
        OBVIOUS
    <2>2. k = "channel" => data_source_callbacks'[d] = data_source_callbacks[d]
        BY <1>1, <1>4, <2>1 DEF Allocated, Live
    <2> QED
        BY <1>3, <1>6, <2>1, <2>2
<1>8. outcome = "ok" =>
         /\ file' = root'
         /\ InForce'[setting] = Effective(root', setting)
    <2> SUFFICES ASSUME outcome = "ok"
                 PROVE  file' = root' /\ InForce'[setting] = Effective(root', setting)
        OBVIOUS
    <2>1. root'.channel[c] = name /\ name # Missing
        BY <1>1, <1>2, <1>3, SentinelAssumption
    <2>2. data_source_callbacks'[c] = name_string_to_callback(name)
        BY <1>1, <1>4 DEF Allocated, Live
    <2> QED
        BY <1>3, <1>4, <1>6, <2>1, <2>2 DEF Effective
<1> QED
    BY <1>1, <1>3, <1>4, <1>5, <1>7, <1>8, ChangeStep DEF ContractInv

LEMMA SetCalibrationMapped ==
    ASSUME ContractInv, ContractInv', NEW c \in Live, NEW v \in Byte,
           NEW outcome \in Outcomes, set_channel_calibration(c, v, outcome)
    PROVE  Contract!Next
<1> DEFINE doc == [root EXCEPT !.calibration[c] = v]
           setting == <<c, "calibration">>
           all == Live \X {"channel", "calibration"}
<1>1. /\ stage = "ready" /\ channel_count > 0 /\ c \in Channel
      /\ root \in Document /\ root.calibration[c] # Missing
      /\ Allocated(channel_count) /\ Live \subseteq Channel
    BY ReadyFacts, ReadyTables DEF set_channel_calibration, ContractInv
<1>2. /\ doc \in Document /\ doc.channel = root.channel
      /\ doc.calibration = [root.calibration EXCEPT ![c] = v]
      /\ root.calibration \in [Channel -> Int \cup {Missing}]
      /\ v \in Int /\ Narrowed(v) = v
    <2>1. v \in Int /\ Narrowed(v) = v
        BY NarrowedKeepsBytes DEF Byte
    <2> QED
        BY <1>1, <2>1, PutCalibration DEF Document
<1>3. /\ root' = doc /\ stage' = "ready" /\ channel_count' = channel_count
      /\ Live' = Live /\ data_source_callbacks' = data_source_callbacks
    BY <1>1 DEF set_channel_calibration, Live
<1>4. IF outcome = "ok"
      THEN /\ calibration_values' = [calibration_values EXCEPT ![c] = v]
           /\ rejected' = rejected \ {setting}
           /\ file' = doc
      ELSE /\ calibration_values' = calibration_values
           /\ rejected' = rejected \cup {setting}
    <2>1. outcome = "ok" => FileAfter(doc, outcome) = doc
        BY <1>2, FileAfterType DEF ConfigInv, ContractInv
    <2> QED
        BY <1>1, <1>3, <2>1 DEF set_channel_calibration, Verdict
<1> HIDE DEF doc
<1>5. ASSUME NEW s \in Settings \ {setting}
      PROVE  Effective(root', s) = Effective(root, s)
    <2>1. PICK d \in Channel, k \in {"channel", "calibration"} : s = <<d, k>>
        BY DEF Settings
    <2>2. k = "calibration" => root'.calibration[d] = root.calibration[d]
        BY <1>2, <1>3, <2>1
    <2>3. root'.channel = root.channel
        BY <1>2, <1>3
    <2> QED
        BY <2>1, <2>2, <2>3 DEF Effective
<1>6. /\ InForce = [s \in all |-> IF s[2] = "channel" THEN data_source_callbacks[s[1]]
                                                     ELSE calibration_values[s[1]]]
      /\ InForce' = [s \in all |-> IF s[2] = "channel" THEN data_source_callbacks'[s[1]]
                                                     ELSE calibration_values'[s[1]]]
    BY <1>1, <1>3 DEF InForce
<1>7. ASSUME NEW s \in all \ {setting}
      PROVE  InForce'[s] = InForce[s]
    <2>1. PICK d \in Live, k \in {"channel", "calibration"} : s = <<d, k>>
        OBVIOUS
    <2>2. k = "calibration" => calibration_values'[d] = calibration_values[d]
        BY <1>1, <1>4, <2>1 DEF Allocated, Live
    <2> QED
        BY <1>3, <1>6, <2>1, <2>2
<1>8. outcome = "ok" =>
         /\ file' = root'
         /\ InForce'[setting] = Effective(root', setting)
    <2> SUFFICES ASSUME outcome = "ok"
                 PROVE  file' = root' /\ InForce'[setting] = Effective(root', setting)
        OBVIOUS
    <2>1. root'.calibration[c] = v /\ v # Missing
        BY <1>1, <1>2, <1>3, SentinelAssumption
    <2>2. calibration_values'[c] = v
        BY <1>1, <1>4 DEF Allocated, Live
    <2> QED
        BY <1>2, <1>3, <1>4, <1>6, <2>1, <2>2 DEF Effective
<1> QED
    BY <1>1, <1>3, <1>4, <1>5, <1>7, <1>8, ChangeStep DEF ContractInv

LEMMA ClearBindingMapped ==
    ASSUME ContractInv, NEW c \in Live, clear_binding(c)
    PROVE  Contract!Next
<1> DEFINE setting == <<c, "channel">>
           all == Live \X {"channel", "calibration"}
<1>1. /\ stage = "ready" /\ Allocated(channel_count) /\ Live \subseteq Channel
      /\ setting \in all /\ setting \in Channel \X {"channel"}
    BY ReadyTables DEF clear_binding, ContractInv
<1>2. /\ InForce = [s \in all |-> IF s[2] = "channel" THEN data_source_callbacks[s[1]]
                                                     ELSE calibration_values[s[1]]]
      /\ InForce' = [s \in all |-> IF s[2] = "channel" THEN data_source_callbacks'[s[1]]
                                                     ELSE calibration_values'[s[1]]]
    BY <1>1 DEF InForce, clear_binding, Live
<1>3. InForce' = [InForce EXCEPT ![setting] = "NULL"]
    <2>1. ASSUME NEW s \in all
          PROVE  InForce'[s] = IF s = setting THEN "NULL" ELSE InForce[s]
        <3>1. PICK d \in Live, k \in {"channel", "calibration"} : s = <<d, k>>
            OBVIOUS
        <3>2. /\ data_source_callbacks'[d] = IF d = c THEN "NULL" ELSE data_source_callbacks[d]
              /\ calibration_values' = calibration_values
            BY <1>1 DEF clear_binding, Allocated, Live
        <3> QED
            BY <1>2, <3>1, <3>2
    <2> HIDE DEF all, setting
    <2> QED
        BY <1>2, <2>1
<1>4. Stored' = Stored /\ Known' = Known
    BY DEF clear_binding, Stored, Known, Contents
<1>5. Contract!Pause(setting)
    BY <1>1, <1>3, <1>4 DEF Contract!Pause, clear_binding
<1> QED
    BY <1>1, <1>2, <1>5 DEF Contract!Next

(* A step of the loop of initialize_data_source_binding.                   *)
LEMMA LoadMapped ==
    ASSUME ContractInv, ContractInv', LoadStep
    PROVE  [Contract!Next]_Contract!vars
<1>0. /\ file' = Torn => Stored' = Contract!Nothing
      /\ file' = file => Stored' = Stored
    BY DEF Stored, Contract!Nothing
<1>1. stage # "ready" /\ Loading
    BY DEF LoadStep, RefuseConfig, ReadBinding, AddBinding, ReadCalibration,
       AddCalibration, Loading
<1>2. /\ next \in Channel /\ next \in Live /\ rejected = {}
      /\ next \in Int /\ channel_count \in Int
    BY <1>1, LoadingTables DEF ContractInv, ConfigInv, LoadingInv, TypeOK
<1>3. ASSUME file' = file, stage' # "ready"
      PROVE  [Contract!Next]_Contract!vars
    BY <1>1, <1>3, StartingStep DEF Stored
<1>4. ASSUME NEW outcome \in Outcomes, AddBinding(outcome)
      PROVE  [Contract!Next]_Contract!vars
    <2> DEFINE doc == [OpenedRoot EXCEPT !.channel[next] = "Unallocated"]
    <2>1. OpenedRoot \in Document /\ OpenedRoot.channel[next] = Missing /\ file # Torn
        BY <1>1, <1>4, OpenedRootType, SentinelAssumption
        DEF AddBinding, ContractInv, ConfigInv, LoadingInv, TypeOK, Unreadable
    <2>2. Contents(file) = OpenedRoot
        BY <1>1, <1>4, <2>1, LoadingReadsTheFile DEF AddBinding, ContractInv
    <2>3. doc \in Document /\ file' \in {doc, file, Torn}
        BY <1>2, <1>4, <2>1, PutChannel, NamesAssumption, FileAfterType
        DEF AddBinding, ContractInv, ConfigInv
    <2>4. \A s \in Settings : Effective(doc, s) = Effective(OpenedRoot, s)
        BY <1>2, <2>1, DefaultSource
    <2> HIDE DEF doc
    <2>5. file' = doc => Stored' = Stored
        BY <2>1, <2>2, <2>3, <2>4, SentinelAssumption DEF Stored, Contents
    <2>6. Stored' \in {Stored, Contract!Nothing}
        BY <1>0, <2>3, <2>5
    <2> QED
        BY <1>1, <1>4, <2>6, StartingStep DEF AddBinding
<1>5. CASE ReadCalibration /\ stage' = "ready"
    <2>1. root = file /\ root \in Document
        BY <1>1, <1>5 DEF ReadCalibration, ContractInv, ConfigInv, LoadingInv, TypeOK
    <2>2. next = channel_count - 1
        BY <1>2, <1>5 DEF ReadCalibration, NextChannel, Live
    <2>3. Contract!Next
        BY <1>2, <1>5, <2>1, <2>2, StartStep DEF ReadCalibration, Stored
    <2> QED
        BY <2>3
<1>6. ASSUME NEW outcome \in Outcomes, AddCalibration(outcome)
      PROVE  [Contract!Next]_Contract!vars
    <2> DEFINE doc == [root EXCEPT !.calibration[next] = DefaultCalibration]
    <2>1. root \in Document /\ root.calibration[next] = Missing /\ file = root
        BY <1>1, <1>6 DEF AddCalibration, ContractInv, ConfigInv, LoadingInv, TypeOK
    <2>2. /\ doc \in Document /\ doc.channel = root.channel
          /\ file' \in {doc, file, Torn} /\ root' = doc
          /\ outcome = "ok" => file' = doc
        BY <1>2, <1>6, <2>1, PutCalibration, FileAfterType
        DEF AddCalibration, ContractInv, ConfigInv, DefaultCalibration
    <2>3. \A s \in Settings : Effective(doc, s) = Effective(root, s)
        BY <1>2, <2>1, DefaultCalibrationStored
    <2> HIDE DEF doc
    <2>4. file' = doc => Stored' = Stored
        BY <2>1, <2>2, <2>3, SentinelAssumption DEF Stored, Contents
    <2>5. CASE stage' # "ready"
        <3>1. Stored' \in {Stored, Contract!Nothing}
            BY <1>0, <2>2, <2>4
        <3> QED
            BY <1>1, <2>5, <3>1, StartingStep
    <2>6. CASE stage' = "ready"
        <3>1. outcome = "ok" /\ NextChannel
            BY <1>6, <2>6 DEF AddCalibration
        <3>2. next = channel_count - 1
            BY <1>2, <2>6, <3>1 DEF NextChannel, Live
        <3>3. Contract!Next
            BY <1>2, <1>6, <2>2, <2>4, <2>6, <3>1, <3>2, StartStep DEF AddCalibration
        <3> QED
            BY <3>3
    <2> QED
        BY <2>5, <2>6
<1>7. CASE RefuseConfig \/ ReadBinding \/ (ReadCalibration /\ stage' # "ready")
    BY <1>3, <1>7 DEF RefuseConfig, ReadBinding, ReadCalibration
<1> QED
    BY <1>4, <1>5, <1>6, <1>7 DEF LoadStep

LEMMA NextMapped ==
    ASSUME ContractInv, ContractInv', [ConfigNext]_configVars
    PROVE  [Contract!Next]_Contract!vars
<1>1. ASSUME NEW n \in 0..MaxChannels, AllocateTables(n)
      PROVE  [Contract!Next]_Contract!vars
    <2>1. /\ stage = "off" /\ root = NoRoot /\ root' = NoRoot /\ Stored' = Stored
          /\ channel_count' = n
        BY <1>1 DEF AllocateTables, ContractInv, ConfigInv, OffInv, Stored
    <2>2. CASE stage' # "ready"
        BY <2>1, <2>2, StartingStep
    <2>3. CASE stage' = "ready"
        <3>1. channel_count' = 0
            BY <1>1, <2>3 DEF AllocateTables
        <3>2. Live' = {}
            BY <3>1 DEF Live
        <3>3. Known' = Contract!Nothing /\ InForce' = Contract!Nothing
            BY <2>1, <3>2 DEF Known, InForce, Contract!Nothing
        <3>4. Contract!Start
            BY <2>1, <2>3, <3>3 DEF Contract!Start, Contract!Nothing
        <3> QED
            BY <3>4 DEF Contract!Next
    <2> QED
        BY <2>2, <2>3
<1>2. ASSUME NEW n \in 0..MaxChannels, AllocationFails(n)
      PROVE  [Contract!Next]_Contract!vars
    BY <1>2, StartingStep DEF AllocationFails, Stored
<1>3. CASE LoadStep
    BY <1>3, LoadMapped
<1>4. CASE Change
    <2>1. ASSUME NEW c \in Live, NEW v \in SliderValues \cup {calibration_values[c]},
                 NEW outcome \in Outcomes, set_channel_calibration(c, v, outcome)
          PROVE  Contract!Next
        <3>1. v \in Byte
            BY <2>1, ReadyTables, CalibrationsAssumption
            DEF set_channel_calibration, Allocated, Live, ContractInv
        <3> QED
            BY <2>1, <3>1, SetCalibrationMapped
    <2> QED
        BY <1>4, <2>1, SetSourceMapped, ClearBindingMapped DEF Change
<1>5. CASE ProcessEnds
    <2>1. stage' = "off" /\ Stored' = Stored
        BY <1>5 DEF ProcessEnds, Stored
    <2>2. CASE stage # "ready"
        BY <2>1, <2>2, StartingStep
    <2>3. CASE stage = "ready"
        <3>1. Known' = Contract!Nothing /\ InForce' = Contract!Nothing
            BY <2>1 DEF Known, InForce, Contract!Nothing
        <3>2. Contract!End
            BY <2>1, <2>3, <3>1 DEF Contract!End
        <3> QED
            BY <3>2 DEF Contract!Next
    <2> QED
        BY <2>2, <2>3
<1>6. CASE UNCHANGED configVars
    BY <1>6 DEF configVars, Contract!vars, Stored, Known, InForce, Live
<1> QED
    BY <1>1, <1>2, <1>3, <1>4, <1>5, <1>6 DEF ConfigNext

---------------------------------------------------------------------------

(* The Linux configuration reader implements the contract of the settings: *)
(* for every panel, every config.json, every sequence of changes, whatever *)
(* becomes of each save and wherever the process ends.                     *)
THEOREM LinuxSettingsKeepTheContract == ConfigSafety => KeepsContract
<1>1. ConfigInit => Contract!Init
    BY NothingMapped DEF ConfigInit, Contract!Init
<1>2. ContractInv /\ ContractInv' /\ [ConfigNext]_configVars
         => [Contract!Next]_Contract!vars
    BY NextMapped
<1> QED
    BY <1>1, <1>2, ContractInvariance, PTL DEF ConfigSafety, KeepsContract, Contract!Spec

(* What the contract comes to, for the Linux settings: what this process   *)
(* loaded or was told is saved is what the next start finds in config.json *)
(* (if that is JSON at all) and what the main loop works with, paused      *)
(* sources apart; and one change at a time is made.                        *)
THEOREM LinuxSettingsAreKept ==
    /\ ConfigSafety => []Contract!KnownIsStored
    /\ ConfigSafety => []Contract!KnownIsInForce
    /\ ConfigSafety => Contract!OneSettingAtATime
<1>1. ConfigSafety => Contract!Spec
    BY LinuxSettingsKeepTheContract DEF KeepsContract
<1>2. ConfigSafety => []Contract!KnownIsStored
    BY <1>1, Contract!KnownSettingsAreStored, PTL
<1>3. ConfigSafety => []Contract!KnownIsInForce
    BY <1>1, Contract!KnownSettingsAreInForce, PTL
<1>4. ConfigSafety => Contract!OneSettingAtATime
    BY <1>1, Contract!ChangesAreSeparate, PTL
<1> QED
    BY <1>2, <1>3, <1>4

---------------------------------------------------------------------------
(* How a start ends                                                        *)

(* The steps a start has ahead of it, at the most: two for each channel    *)
(* still to be loaded, one for a channel whose binding is.                 *)
StepsLeft == 2 * (channel_count - next) - IF stage = "calibration" THEN 1 ELSE 0

LEMMA StepsLeftBounds ==
    ASSUME ConfigInv, Loading
    PROVE  StepsLeft \in 1..(2 * MaxChannels)
<1>1. channel_count \in 0..MaxChannels /\ next \in 0..(channel_count - 1)
    BY LoadingTables DEF ConfigInv, TypeOK, Live
<1> QED
    BY <1>1, ChannelsAssumption, SMT DEF StepsLeft

LEMMA LoadStepProgress ==
    ASSUME ConfigInv, Loading, [ConfigNext]_configVars, ~UNCHANGED configVars
    PROVE  ~Loading' \/ StepsLeft' < StepsLeft
<1>1. channel_count \in Nat /\ next \in Nat
    BY LoadingTables DEF ConfigInv, TypeOK, Live
<1>2. ASSUME stage = "binding", stage' = "calibration" \/ ~Loading',
             channel_count' = channel_count, next' = next
      PROVE  ~Loading' \/ StepsLeft' < StepsLeft
    BY <1>1, <1>2, SMT DEF StepsLeft, Loading
<1>3. ASSUME stage = "calibration", NextChannel \/ ~Loading',
             channel_count' = channel_count
      PROVE  ~Loading' \/ StepsLeft' < StepsLeft
    BY <1>1, <1>3, SMT DEF NextChannel, StepsLeft, Loading
<1>4. CASE RefuseConfig \/ ReadBinding \/ \E outcome \in Outcomes : AddBinding(outcome)
    BY <1>2, <1>4 DEF RefuseConfig, ReadBinding, AddBinding, Loading
<1>5. CASE ReadCalibration \/ \E outcome \in Outcomes : AddCalibration(outcome)
    BY <1>3, <1>5 DEF ReadCalibration, AddCalibration, Loading
<1>6. CASE ProcessEnds
    BY <1>6 DEF ProcessEnds, Loading
<1> QED
    BY <1>4, <1>5, <1>6
    DEF ConfigNext, LoadStep, Change, AllocateTables, AllocationFails, Loading

(* A start is over after at most two steps for each channel: every step it *)
(* takes, and nothing else happens meanwhile, brings it closer to its end  *)
(* or is the end of it, whatever the file holds and becomes of each save.  *)
THEOREM StartMakesProgress ==
    ConfigSafety => /\ [](Loading => StepsLeft \in 1..(2 * MaxChannels))
                    /\ [][Loading => ~Loading' \/ StepsLeft' < StepsLeft]_configVars
<1>1. ConfigInv => (Loading => StepsLeft \in 1..(2 * MaxChannels))
    BY StepsLeftBounds
<1>2. ConfigInv /\ [ConfigNext]_configVars
         => [Loading => ~Loading' \/ StepsLeft' < StepsLeft]_configVars
    BY LoadStepProgress
<1> QED
    BY <1>1, <1>2, ConfigInvariance, PTL DEF ConfigSafety

=============================================================================
