------------------------------- MODULE MfcPanel -------------------------------
(***************************************************************************)
(* The MFC control panel on Windows: the application object, whose         *)
(* constructor loads the settings and looks at no status, the main dialog  *)
(* with its list, the modal adjust dialog, the one second timer and the    *)
(* panel at the other end of the cable, over the settings of               *)
(* RegistryConfig.                                                         *)
(*                                                                         *)
(* There is one thread.  The timer fires wherever a message loop runs, and *)
(* a modal dialog runs one; a handler of a message is not interrupted.  A  *)
(* handler makes one registry write at most and one transfer at most, so   *)
(* a process that dies between the two is one whose write failed and which *)
(* then dies.  A transfer is delivered, fails, or fails although the panel *)
(* has acted on it.                                                        *)
(***************************************************************************)
EXTENDS RegistryConfig

CONSTANTS
    Replies,        \* what a panel may answer to QUERY_CAP
    Readings,       \* what a source other than calibration may read
    Adjusted        \* the rows the user opens the dialog on

ASSUME RepliesAssumption ==
    /\ Replies \subseteq Byte
    /\ \A r \in Replies : ReportsRawValue(r) => RawValue(r) <= MaxChannels

ASSUME ReadingsAssumption == Readings \subseteq Byte

ASSUME AdjustedAssumption == Adjusted \subseteq Channel

VARIABLES
    phase,              \* where the thread is
    needle,             \* the panel: what each of its needles shows
    dialog,             \* AdjustDialog::selectedChannelId
    cachedChannel,      \* AdjustDialog::cachedChannel
    m_PanelList,        \* the channel and calibration columns of the list
    zero,               \* loop index at the end of InitInstance
    lost,               \* observer: channels that loop failed to zero
    entered,            \* observer: channels whose dialog was left with Enter
    chosen              \* observer: the name in the dialog is the user's choice

dialogVars == <<dialog, cachedChannel, chosen>>
windowVars == <<dialogVars, m_PanelList, zero, lost, entered>>
mfcVars == <<vars, phase, needle, windowVars>>

Phases == {"off", "hung", "constructing", "main", "dialog", "zeroing"}

(* The phases in which a message loop runs and the timer can fire.         *)
MessageLoop == phase \in {"main", "dialog"}

Transfers == {"ok", "failed", "unsure"}
Delivered(transfer) == transfer # "failed"

Row(c) == [name |-> get_source_binding_name(c), calibration |-> calibration_values[c]]

NoRows == [c \in {} |-> Row(c)]

NoDialog ==
    /\ dialog' = 0
    /\ cachedChannel' = "Unallocated"
    /\ chosen' = FALSE

NoWindow ==
    /\ NoDialog
    /\ m_PanelList' = NoRows
    /\ zero' = 0
    /\ lost' = {}
    /\ entered' = {}

MfcInit ==
    /\ Init
    /\ phase = "off"
    /\ needle = [c \in Channel |-> 0]
    /\ dialog = 0
    /\ cachedChannel = "Unallocated"
    /\ chosen = FALSE
    /\ m_PanelList = NoRows
    /\ zero = 0
    /\ lost = {}
    /\ entered = {}

---------------------------------------------------------------------------
(* The constructor of the application, and the main dialog                 *)

(* No transfer succeeds on a device that was not opened, and a query that  *)
(* fails counts no channels.                                               *)
QueryPanel ==
    /\ phase = "off"
    /\ phase' = "constructing"
    /\ \E n \in {0} \cup UNION {ChannelCounts(reply) : reply \in Replies} :
          AllocateTables(n) \/ AllocationFails(n)
    /\ UNCHANGED <<needle, windowVars>>

QueryNeverReturns ==
    /\ phase = "off"
    /\ \E reply \in Replies : ChannelCounts(reply) = {}
    /\ phase' = "hung"
    /\ UNCHANGED <<vars, needle, windowVars>>

LoadChannels ==
    /\ phase = "constructing"
    /\ LoadStep
    /\ UNCHANGED <<phase, needle, windowVars>>

TablesThere == DOMAIN data_source_callbacks = Live

(* DoModal: the list is filled, whether or not the settings were loaded.   *)
OnInitDialog ==
    /\ phase = "constructing"
    /\ Usable
    /\ TablesThere
    /\ phase' = "main"
    /\ m_PanelList' = [c \in Live |-> Row(c)]
    /\ UNCHANGED <<vars, needle, dialogVars, zero, lost, entered>>

(* Without tables the first row reads through a null pointer.              *)
OnInitDialogCrashes ==
    /\ phase = "constructing"
    /\ Usable
    /\ ~TablesThere
    /\ phase' = "off"
    /\ ProcessEnds
    /\ NoWindow
    /\ UNCHANGED needle

---------------------------------------------------------------------------
(* The timer                                                               *)

ReadingsOf(callback) ==
    IF callback = "data_source_calibration" THEN {data_source_calibration} ELSE Readings

(* Mutant: the calibration is left out.                                    *)
Calibrated_Raw(c, value) == value

Calibrated(c, value) == Scaled(value, calibration_values[c])

(* The panel after main_loop_callback came as far as channel k, where the  *)
(* transfer ended as transfer says; k = channel_count if none failed.      *)
NeedlesAfterLoop(reading, k, transfer) ==
    [c \in Channel |->
        IF /\ c \in Live
           /\ data_source_callbacks[c] # "NULL"
           /\ c < k \/ (c = k /\ Delivered(transfer))
        THEN Calibrated(c, reading[c])
        ELSE needle[c]]

timer_proc ==
    /\ MessageLoop
    /\ \E reading \in [Live -> Readings \cup {data_source_calibration}] :
          /\ \A c \in Live : reading[c] \in ReadingsOf(data_source_callbacks[c])
          /\ \/ needle' = NeedlesAfterLoop(reading, channel_count, "ok")
             \/ \E k \in Live, transfer \in {"failed", "unsure"} :
                   /\ data_source_callbacks[k] # "NULL"
                   /\ needle' = NeedlesAfterLoop(reading, k, transfer)
    /\ UNCHANGED <<vars, phase, windowVars>>

---------------------------------------------------------------------------
(* The adjust dialog                                                       *)

(* Mutants: the source is not paused; the name is read after the source    *)
(* has been paused.                                                        *)
OnMenu01Calibrate_NameTooLate(c) ==
    /\ phase = "main"
    /\ phase' = "dialog"
    /\ dialog' = c
    /\ clear_binding(c)
    /\ cachedChannel' = get_source_binding_name(c)'
    /\ chosen' = FALSE
    /\ UNCHANGED <<needle, m_PanelList, zero, lost, entered>>

OnMenu01Calibrate_NotPaused(c) ==
    /\ phase = "main"
    /\ phase' = "dialog"
    /\ dialog' = c
    /\ cachedChannel' = get_source_binding_name(c)
    /\ chosen' = FALSE
    /\ UNCHANGED <<vars, needle, m_PanelList, zero, lost, entered>>

(* A menu or a double click opens the dialog on the selected channel, and  *)
(* AdjustDialog::OnInitDialog pauses its source.  Placing the slider sends *)
(* no message, so the needle stays where the last tick left it.            *)
OnMenu01Calibrate(c) ==
    /\ phase = "main"
    /\ phase' = "dialog"
    /\ dialog' = c
    /\ cachedChannel' = get_source_binding_name(c)
    /\ chosen' = FALSE
    /\ clear_binding(c)
    /\ UNCHANGED <<needle, m_PanelList, zero, lost, entered>>

(* Dragging sends the position, letting go sends it once more.             *)
OnHScroll(val) ==
    /\ phase = "dialog"
    /\ val \in Positions(dialog)
    /\ \E transfer \in Transfers :
          needle' = send_usage(needle, dialog, val, Delivered(transfer))
    /\ \E written \in BOOLEAN : set_channel_calibration(dialog, val, written)
    /\ UNCHANGED <<phase, windowVars>>

OnCbnSelchangeChannelCombo(name) ==
    /\ phase = "dialog"
    /\ cachedChannel' = name
    /\ chosen' = TRUE
    /\ UNCHANGED <<vars, phase, needle, dialog, m_PanelList, zero, lost, entered>>

(* Mutant: only the channel column is written again.                       *)
BackToMain_NameOnly ==
    /\ phase' = "main"
    /\ m_PanelList' = [c \in Live |->
          [m_PanelList[c] EXCEPT !.name = IF c = dialog THEN Row(c).name' ELSE @]]
    /\ NoDialog
    /\ UNCHANGED <<needle, zero, lost>>

(* DoModal has returned: OnMenu01Calibrate writes the row again.           *)
BackToMain ==
    /\ phase' = "main"
    /\ m_PanelList' = [c \in Live |-> IF c = dialog THEN Row(c)' ELSE m_PanelList[c]]
    /\ NoDialog
    /\ UNCHANGED <<needle, zero, lost>>

(* Mutants: only a name the user chose is set; the source is resumed but   *)
(* not stored.                                                             *)
OnCancel_NotStored ==
    /\ phase = "dialog"
    /\ data_source_callbacks' =
          [data_source_callbacks EXCEPT ![dialog] = name_string_to_callback(cachedChannel)]
    /\ UNCHANGED <<registry, registry_key, channel_count, calibration_values, stage,
                   next, acknowledged>>
    /\ BackToMain
    /\ entered' = entered \ {dialog}

OnCancel_OnlyIfChosen ==
    /\ phase = "dialog"
    /\ IF chosen
       THEN \E written \in BOOLEAN :
               set_channel_source_binding(dialog, cachedChannel, written)
       ELSE UNCHANGED vars
    /\ BackToMain
    /\ entered' = entered \ {dialog}

(* Escape, and the close box.                                              *)
OnCancel ==
    /\ phase = "dialog"
    /\ \E written \in BOOLEAN :
          set_channel_source_binding(dialog, cachedChannel, written)
    /\ BackToMain
    /\ entered' = entered \ {dialog}

(* Enter: CDialogEx::OnOK, which AdjustDialog does not override.           *)
OnOK ==
    /\ phase = "dialog"
    /\ UNCHANGED vars
    /\ BackToMain
    /\ entered' = entered \cup {dialog}

---------------------------------------------------------------------------
(* The end                                                                 *)

(* The main dialog is left, in whatever way.  KillTimer(NULL, 0) names no  *)
(* timer, but no message loop runs from here on.                           *)
Close ==
    /\ phase = "main"
    /\ phase' = "zeroing"
    /\ m_PanelList' = NoRows
    /\ entered' = {}
    /\ UNCHANGED <<vars, needle, dialogVars, zero, lost>>

(* Mutant: the loop starts at the second channel.                          *)
ZeroNext_SkipsFirst ==
    /\ phase = "zeroing"
    /\ zero < channel_count
    /\ zero' = zero + 1
    /\ \E transfer \in Transfers :
          /\ needle' = send_usage(needle, zero, 0, Delivered(transfer) /\ zero > 0)
          /\ lost' = IF transfer = "ok" THEN lost ELSE lost \cup {zero}
    /\ UNCHANGED <<vars, phase, dialogVars, m_PanelList, entered>>

ZeroNext ==
    /\ phase = "zeroing"
    /\ zero < channel_count
    /\ zero' = zero + 1
    /\ \E transfer \in Transfers :
          /\ needle' = send_usage(needle, zero, 0, Delivered(transfer))
          /\ lost' = IF transfer = "ok" THEN lost ELSE lost \cup {zero}
    /\ UNCHANGED <<vars, phase, dialogVars, m_PanelList, entered>>

Return ==
    /\ phase = "zeroing"
    /\ zero = channel_count
    /\ phase' = "off"
    /\ ProcessEnds
    /\ NoWindow
    /\ UNCHANGED needle

Killed ==
    /\ phase # "off"
    /\ phase' = "off"
    /\ IF stage = "off" THEN UNCHANGED vars ELSE ProcessEnds
    /\ NoWindow
    /\ UNCHANGED needle

---------------------------------------------------------------------------

Starting == QueryPanel \/ QueryNeverReturns \/ LoadChannels
            \/ OnInitDialog \/ OnInitDialogCrashes

Adjusting ==
    \/ \E c \in Live \cap Adjusted : OnMenu01Calibrate(c)
    \/ \E val \in Byte : OnHScroll(val)
    \/ \E name \in Names : OnCbnSelchangeChannelCombo(name)
    \/ OnCancel
    \/ OnOK

Ending == Close \/ ZeroNext \/ Return \/ Killed

MfcNext == Starting \/ timer_proc \/ Adjusting \/ Ending

MfcSafety == MfcInit /\ [][MfcNext]_mfcVars

---------------------------------------------------------------------------
(* Properties                                                              *)

(* Type invariant.                                                         *)
MfcTypeOK ==
    /\ TypeOK
    /\ phase \in Phases
    /\ needle \in [Channel -> Byte]
    /\ dialog \in Channel
    /\ cachedChannel \in Names
    /\ chosen \in BOOLEAN
    /\ m_PanelList \in [(IF MessageLoop THEN Live ELSE {}) ->
                            [name : Names, calibration : Byte]]
    /\ zero \in 0..channel_count
    /\ lost \subseteq Channel
    /\ entered \subseteq Channel

(* The list shows what is live: after dialogs left in either way, writes   *)
(* that failed and a start that failed and was ignored, the row of every   *)
(* channel no dialog is busy with is its live source and calibration.      *)
ListShowsLive ==
    /\ phase = "main" => \A c \in Live : m_PanelList[c] = Row(c)
    /\ phase = "dialog" => \A c \in Live \ {dialog} : m_PanelList[c] = Row(c)

(* A source is paused by its dialog only: a channel this process loaded or *)
(* has stored has the source its stored name means, except while its       *)
(* dialog is open and after one was left with Enter (OnCancel resumes, and *)
(* there is no OnOK).                                                      *)
PausedOnlyByDialog ==
    MessageLoop =>
        \A c \in Live :
           \/ <<c, "channel">> \notin acknowledged
           \/ data_source_callbacks[c] = name_string_to_callback(Here.channel[c])
           \/ phase = "dialog" /\ dialog = c
           \/ c \in entered

(* Looking is not changing: the name stored for a channel changes only     *)
(* when the user chose one in that channel's dialog.  The exceptions are   *)
(* the channels whose live source had already come apart from the stored   *)
(* one: not loaded because the start failed and the constructor went on,   *)
(* not stored, or lost to an Enter.  Closing a dialog on one of those      *)
(* stores what is live over what was stored.  And a name that means no     *)
(* source here, "CPU Temperature" say, does not come back from the live    *)
(* table: closing the dialog makes it "Unallocated", and nothing else.     *)
StoredSourcesSurvive ==
    [][\A h \in Hives, c \in Channel :
          LET name == registry[h].channel[c]
          IN  \/ registry'[h].channel[c] = name
              \/ /\ h = registry_key
                 /\ phase = "dialog" /\ dialog = c
                 /\ chosen \/ <<c, "channel">> \notin acknowledged \/ c \in entered
              \/ /\ h = registry_key
                 /\ registry'[h].channel[c] = "Unallocated"
                 /\ IF Loading THEN ~Readable(name)
                    ELSE /\ phase = "dialog" /\ dialog = c
                         /\ name_string_to_callback(name) = "NULL"]_mfcVars

(* No needle is raised above its channel's calibration, by a tick or by    *)
(* the slider, not even on a channel that was never loaded.                *)
NoOverdrive ==
    [][\A c \in Channel : needle'[c] > needle[c] => needle'[c] <= calibration_values'[c]]_mfcVars

(* While a dialog is open the timer, which goes on firing in the dialog's  *)
(* message loop, never moves its needle; only the slider does.             *)
DialogOwnsNeedle ==
    [][(phase = "dialog" /\ phase' = "dialog") =>
          needle'[dialog] \in {needle[dialog], calibration_values'[dialog]}]_mfcVars

(* When InitInstance returns every needle is at zero, except those whose   *)
(* own transfer failed, although the timer was never killed.               *)
LeftAtZero ==
    (phase = "zeroing" /\ zero = channel_count) =>
        \A c \in Live \ lost : needle[c] = 0

=============================================================================
