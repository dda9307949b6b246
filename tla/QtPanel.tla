------------------------------- MODULE QtPanel -------------------------------
(***************************************************************************)
(* The Qt control panel on Linux: main, the main window with its one       *)
(* second timer, the modal calibration dialog, the collector's main loop   *)
(* and the panel at the other end of the USB cable, over the settings of   *)
(* LinuxConfig.                                                            *)
(*                                                                         *)
(* There is one thread.  What interleaves are events: the timer fires      *)
(* whenever an event loop runs, and the dialog's exec() runs one inside    *)
(* the main window's handler.  A handler that makes several calls the rest *)
(* of the world can tell apart (saves, transfers, death of the process) is *)
(* several actions, chained by phase so that nothing else of the program   *)
(* comes between them.                                                     *)
(*                                                                         *)
(* The link is the set of channels it is bad for: the transfers of those   *)
(* may also fail, with or without the panel having acted on them (one that *)
(* timed out may have arrived), and so may the query.                      *)
(***************************************************************************)
EXTENDS LinuxConfig

CONSTANTS
    Replies,        \* what a panel may answer to QUERY_CAP
    Links           \* the states of the link: sets of channels it is bad for

ASSUME RepliesAssumption ==
    /\ Replies \subseteq Byte
    /\ \A r \in Replies : ReportsRawValue(r) => RawValue(r) <= MaxChannels

ASSUME LinksAssumption == Links \subseteq SUBSET Channel

VARIABLES
    phase,              \* where the thread is
    needle,             \* the panel: what each of its needles shows
    link,               \* one of Links
    dialog,             \* AdjustDialog::channel
    slider,             \* position of slide_calibration
    cachedChannelName,  \* AdjustDialog::cachedChannelName
    table,              \* the channel and calibration columns of panel_table
    zero,               \* loop index of ~ControlPanelDialog
    lost,               \* observer: channels ~ControlPanelDialog failed to zero
    escaped             \* observer: channels whose dialog closed without closeEvent

dialogVars == <<dialog, slider, cachedChannelName>>
windowVars == <<dialogVars, table, zero, lost, escaped>>
qtVars == <<configVars, phase, needle, link, windowVars>>

Phases == {"off", "opened", "hung", "loading", "main", "constructing", "dialog",
           "closed", "zeroing"}

(* The phases in which an event loop runs and the timer can fire.          *)
EventLoop == phase \in {"main", "dialog", "closed"}

Transfers == {"ok", "failed", "unsure"}
Possible(c, transfer) == transfer = "ok" \/ c \in link
Delivered(transfer) == transfer # "failed"

Row(c) == [name |-> get_source_binding_name(c), calibration |-> calibration_values[c]]

NoRows == [c \in {} |-> Row(c)]

NoDialog ==
    /\ dialog' = 0
    /\ slider' = 0
    /\ cachedChannelName' = "Unallocated"

NoWindow ==
    /\ NoDialog
    /\ table' = NoRows
    /\ lost' = {}
    /\ zero' = 0
    /\ escaped' = {}

QtInit ==
    /\ ConfigInit
    /\ phase = "off"
    /\ needle = [c \in Channel |-> 0]
    /\ link \in Links
    /\ dialog = 0
    /\ slider = 0
    /\ cachedChannelName = "Unallocated"
    /\ table = NoRows
    /\ zero = 0
    /\ lost = {}
    /\ escaped = {}

---------------------------------------------------------------------------
(* main, up to the main window                                             *)

(* open_device found the panel and claimed it; when it does not, main      *)
(* returns at once.                                                        *)
OpenDevice ==
    /\ phase = "off"
    /\ phase' = "opened"
    /\ UNCHANGED <<configVars, needle, link, windowVars>>

(* get_channel_count and initialize_data_source_binding's allocations.     *)
QueryPanel ==
    /\ phase = "opened"
    /\ phase' = "loading"
    /\ \E n \in (UNION {ChannelCounts(reply) : reply \in Replies})
                \cup (IF link = {} THEN {} ELSE {0}) :
          AllocateTables(n) \/ AllocationFails(n)
    /\ UNCHANGED <<needle, link, windowVars>>

QueryNeverReturns ==
    /\ phase = "opened"
    /\ \E reply \in Replies : ChannelCounts(reply) = {}
    /\ phase' = "hung"
    /\ UNCHANGED <<configVars, needle, link, windowVars>>

LoadChannels ==
    /\ phase = "loading"
    /\ LoadStep
    /\ UNCHANGED <<phase, needle, link, windowVars>>

(* "Cannot load channel settings!" and return -1.                          *)
GiveUp ==
    /\ phase = "loading"
    /\ stage = "failed"
    /\ phase' = "off"
    /\ ProcessEnds
    /\ UNCHANGED <<needle, link, windowVars>>

(* The constructor of ControlPanelDialog fills the table, starts the timer. *)
ShowPanel ==
    /\ phase = "loading"
    /\ stage = "ready"
    /\ phase' = "main"
    /\ table' = [c \in Live |-> Row(c)]
    /\ UNCHANGED <<configVars, needle, link, dialogVars, zero, lost, escaped>>

---------------------------------------------------------------------------
(* The timer                                                               *)

(* Mutants: the reading is sent without its calibration; the loop runs     *)
(* from the last channel to the first.                                     *)
NeedlesAfterLoop_Unscaled(k, transfer) ==
    [c \in Channel |->
        IF /\ c \in Live
           /\ data_source_callbacks[c] # "NULL"
           /\ c < k \/ (c = k /\ Delivered(transfer))
        THEN data_source_calibration
        ELSE needle[c]]

NeedlesAfterLoop_Downwards(k, transfer) ==
    [c \in Channel |->
        IF /\ c \in Live
           /\ data_source_callbacks[c] # "NULL"
           /\ c > k \/ k = channel_count \/ (c = k /\ Delivered(transfer))
        THEN Scaled(data_source_calibration, calibration_values[c])
        ELSE needle[c]]

(* The panel after main_loop_callback came as far as channel k, where the  *)
(* transfer ended as transfer says; k = channel_count if none failed.      *)
NeedlesAfterLoop(k, transfer) ==
    [c \in Channel |->
        IF /\ c \in Live
           /\ data_source_callbacks[c] # "NULL"
           /\ c < k \/ (c = k /\ Delivered(transfer))
        THEN Scaled(data_source_calibration, calibration_values[c])
        ELSE needle[c]]

main_loop_callback ==
    /\ EventLoop
    /\ \/ needle' = NeedlesAfterLoop(channel_count, "ok")
       \/ \E k \in Live \cap link, transfer \in {"failed", "unsure"} :
             /\ data_source_callbacks[k] # "NULL"
             /\ needle' = NeedlesAfterLoop(k, transfer)
    /\ UNCHANGED <<configVars, phase, link, windowVars>>

---------------------------------------------------------------------------
(* The dialog                                                              *)

(* on_menu_triggered constructs the dialog.  Moving the slider from 0 to   *)
(* the live calibration emits valueChanged, so the slot runs: it sends the *)
(* calibration and saves it again.                                         *)
OpenAdjust(c) ==
    /\ phase = "main"
    /\ phase' = "constructing"
    /\ dialog' = c
    /\ slider' = calibration_values[c]
    /\ \E transfer \in Transfers :
          /\ Possible(c, transfer)
          /\ IF slider' = 0
             THEN needle' = needle /\ UNCHANGED configVars
             ELSE /\ needle' = send_usage(needle, c, slider', Delivered(transfer))
                  /\ \E outcome \in Outcomes :
                        set_channel_calibration(c, slider', outcome)
    /\ UNCHANGED <<link, cachedChannelName, table, zero, lost, escaped>>

(* Mutant: the constructor does not call clear_binding.                    *)
PauseChannel_NotCleared ==
    /\ phase = "constructing"
    /\ phase' = "dialog"
    /\ cachedChannelName' = get_source_binding_name(dialog)
    /\ \E transfer \in Transfers :
          /\ Possible(dialog, transfer)
          /\ needle' = send_usage(needle, dialog, calibration_values[dialog],
                                  Delivered(transfer))
    /\ UNCHANGED <<configVars, link, dialog, slider, table, zero, lost, escaped>>

(* The rest of the constructor; setting the combo box's text comes before  *)
(* the dialog is visible and changes nothing.                              *)
PauseChannel ==
    /\ phase = "constructing"
    /\ phase' = "dialog"
    /\ cachedChannelName' = get_source_binding_name(dialog)
    /\ clear_binding(dialog)
    /\ \E transfer \in Transfers :
          /\ Possible(dialog, transfer)
          /\ needle' = send_usage(needle, dialog, calibration_values[dialog],
                                  Delivered(transfer))
    /\ UNCHANGED <<link, dialog, slider, table, zero, lost, escaped>>

on_slide_calibration_valueChanged(v) ==
    /\ phase = "dialog"
    /\ v # slider
    /\ slider' = v
    /\ \E transfer \in Transfers :
          /\ Possible(dialog, transfer)
          /\ needle' = send_usage(needle, dialog, v, Delivered(transfer))
    /\ \E outcome \in Outcomes : set_channel_calibration(dialog, v, outcome)
    /\ UNCHANGED <<phase, link, dialog, cachedChannelName, table, zero, lost, escaped>>

on_combo_channel_currentTextChanged(name) ==
    /\ phase = "dialog"
    /\ name # cachedChannelName
    /\ cachedChannelName' = name
    /\ UNCHANGED <<configVars, phase, needle, link, dialog, slider, table, zero,
                   lost, escaped>>

(* Mutants: the binding is saved only when the name is a new one; the      *)
(* source is resumed but not saved.                                        *)
closeEvent_SkipsUnchanged ==
    /\ phase = "dialog"
    /\ phase' = "closed"
    /\ IF cachedChannelName = table[dialog].name
       THEN UNCHANGED configVars
       ELSE \E outcome \in Outcomes :
               set_channel_source_binding(dialog, cachedChannelName, outcome)
    /\ escaped' = escaped \ {dialog}
    /\ UNCHANGED <<needle, link, dialogVars, table, zero, lost>>

closeEvent_NotSaved ==
    /\ phase = "dialog"
    /\ phase' = "closed"
    /\ data_source_callbacks' =
          [data_source_callbacks EXCEPT
              ![dialog] = name_string_to_callback(cachedChannelName)]
    /\ escaped' = escaped \ {dialog}
    /\ UNCHANGED <<file, root, channel_count, calibration_values, stage, next,
                   rejected, needle, link, dialogVars, table, zero, lost>>

closeEvent ==
    /\ phase = "dialog"
    /\ phase' = "closed"
    /\ \E outcome \in Outcomes :
          set_channel_source_binding(dialog, cachedChannelName, outcome)
    /\ escaped' = escaped \ {dialog}
    /\ UNCHANGED <<needle, link, dialogVars, table, zero, lost>>

(* Escape: QDialog::reject hides the dialog, which is no close event.      *)
Escape ==
    /\ phase = "dialog"
    /\ phase' = "closed"
    /\ escaped' = escaped \cup {dialog}
    /\ UNCHANGED <<configVars, needle, link, dialogVars, table, zero, lost>>

(* Mutant: only the channel column is written again.                       *)
RefreshRow_NameOnly ==
    /\ phase = "closed"
    /\ phase' = "main"
    /\ table' = [table EXCEPT ![dialog].name = get_source_binding_name(dialog)]
    /\ NoDialog
    /\ UNCHANGED <<configVars, needle, link, zero, lost, escaped>>

(* exec() has returned: on_menu_triggered writes the row again.            *)
RefreshRow ==
    /\ phase = "closed"
    /\ phase' = "main"
    /\ table' = [table EXCEPT ![dialog] = Row(dialog)]
    /\ NoDialog
    /\ UNCHANGED <<configVars, needle, link, zero, lost, escaped>>

---------------------------------------------------------------------------
(* The end                                                                 *)

(* The main window is closed, exec() returns, d is destroyed: the table    *)
(* goes, the timer is stopped and every needle is sent to zero, whatever   *)
(* becomes of each transfer.                                               *)
Quit ==
    /\ phase = "main"
    /\ phase' = "zeroing"
    /\ zero' = 0
    /\ table' = NoRows
    /\ UNCHANGED <<configVars, needle, link, dialogVars, lost, escaped>>

(* Mutants: the loop ends with the first failed transfer; it starts over.  *)
ZeroNext_StopsOnFailure ==
    /\ phase = "zeroing"
    /\ zero < channel_count
    /\ \E transfer \in Transfers :
          /\ Possible(zero, transfer)
          /\ needle' = send_usage(needle, zero, 0, Delivered(transfer))
          /\ lost' = IF transfer = "ok" THEN lost ELSE lost \cup {zero}
          /\ zero' = IF transfer = "ok" THEN zero + 1 ELSE channel_count
    /\ UNCHANGED <<configVars, phase, link, dialogVars, table, escaped>>

ZeroNext_StartsOver ==
    /\ phase = "zeroing"
    /\ zero < channel_count
    /\ \E transfer \in Transfers :
          /\ Possible(zero, transfer)
          /\ needle' = send_usage(needle, zero, 0, Delivered(transfer))
          /\ zero' = IF transfer = "ok" THEN zero + 1 ELSE 0
    /\ UNCHANGED <<configVars, phase, link, dialogVars, table, lost, escaped>>

ZeroNext ==
    /\ phase = "zeroing"
    /\ zero < channel_count
    /\ zero' = zero + 1
    /\ \E transfer \in Transfers :
          /\ Possible(zero, transfer)
          /\ needle' = send_usage(needle, zero, 0, Delivered(transfer))
          /\ lost' = IF transfer = "ok" THEN lost ELSE lost \cup {zero}
    /\ UNCHANGED <<configVars, phase, link, dialogVars, table, escaped>>

Return ==
    /\ phase = "zeroing"
    /\ zero = channel_count
    /\ phase' = "off"
    /\ ProcessEnds
    /\ NoWindow
    /\ UNCHANGED <<needle, link>>

(* Killed or crashed, anywhere.                                            *)
Killed ==
    /\ phase # "off"
    /\ phase' = "off"
    /\ IF stage = "off" THEN UNCHANGED configVars ELSE ProcessEnds
    /\ NoWindow
    /\ UNCHANGED <<needle, link>>

LinkChanges ==
    /\ link' \in Links \ {link}
    /\ UNCHANGED <<configVars, phase, needle, windowVars>>

---------------------------------------------------------------------------

Starting == OpenDevice \/ QueryPanel \/ QueryNeverReturns \/ LoadChannels
            \/ GiveUp \/ ShowPanel

Adjusting ==
    \/ \E c \in Live : OpenAdjust(c)
    \/ PauseChannel
    \/ \E v \in SliderValues : on_slide_calibration_valueChanged(v)
    \/ \E name \in Names : on_combo_channel_currentTextChanged(name)
    \/ closeEvent
    \/ Escape
    \/ RefreshRow

Ending == Quit \/ ZeroNext \/ Return \/ Killed

QtNext == Starting \/ main_loop_callback \/ Adjusting \/ Ending \/ LinkChanges

QtSafety == QtInit /\ [][QtNext]_qtVars

(* What the thread does once it is in a handler, or in main outside the    *)
(* event loop, nobody can keep it from doing.                              *)
Proceed ==
    \/ QueryPanel \/ QueryNeverReturns \/ LoadChannels \/ GiveUp \/ ShowPanel
    \/ PauseChannel \/ RefreshRow
    \/ ZeroNext \/ Return

(* The event loop delivers an expired timer in each of its passes, however *)
(* busy the user keeps it: strong fairness, because the timer is not       *)
(* delivered while a handler runs.  The user, the link and whoever kills   *)
(* the process are under no obligation.                                    *)
QtSpec == QtSafety /\ WF_qtVars(Proceed) /\ SF_qtVars(main_loop_callback)

---------------------------------------------------------------------------
(* Properties                                                              *)

(* Type invariant.                                                         *)
QtTypeOK ==
    /\ TypeOK
    /\ phase \in Phases
    /\ needle \in [Channel -> Byte]
    /\ link \in Links
    /\ dialog \in Channel
    /\ slider \in Byte
    /\ cachedChannelName \in Names
    /\ \E n \in {0, channel_count} :
          table \in [0..(n - 1) -> [name : Names, calibration : Byte]]
    /\ zero \in 0..channel_count
    /\ lost \subseteq Channel
    /\ escaped \subseteq Channel

(* The main window shows what is live: whatever the dialogs did to the     *)
(* tables, with saves that failed and dialogs left in any way, the row of  *)
(* every channel no dialog is busy with is its live source and calibration *)
(* (the table is a copy, refreshed for one row by on_menu_triggered).      *)
TableShowsLive ==
    /\ phase = "main" => \A c \in Live : table[c] = Row(c)
    /\ phase \in {"constructing", "dialog", "closed"} =>
          \A c \in Live \ {dialog} : table[c] = Row(c)

(* A source is paused by its open dialog only: from the moment the dialog  *)
(* is closed the source of a channel is the one its settings name, unless  *)
(* closeEvent could not save the binding, or was not called.               *)
PausedOnlyByDialog ==
    (stage = "ready" /\ phase # "opened") =>
        \A c \in Live :
           \/ data_source_callbacks[c] = name_string_to_callback(root.channel[c])
           \/ phase = "dialog" /\ dialog = c
           \/ <<c, "channel">> \in rejected
           \/ c \in escaped

(* Leaving the dialog resumes the source it paused, however it is left.    *)
(* The code resumes it in closeEvent, which Escape does not reach.         *)
LeavingResumes ==
    phase = "main" =>
        \A c \in Live :
           \/ data_source_callbacks[c] = name_string_to_callback(root.channel[c])
           \/ <<c, "channel">> \in rejected

(* While a dialog is open its needle is its own: the timer, which goes on  *)
(* firing in the dialog's event loop, never moves it; only the slider does.*)
DialogOwnsNeedle ==
    [][(phase = "dialog" /\ phase' = "dialog") =>
          needle'[dialog] \in {needle[dialog], slider'}]_qtVars

(* No needle rises above its channel's calibration, the limit that keeps   *)
(* the voltmeter from damage, except at the user's own hand on the slider. *)
NoOverdrive ==
    [][\A c \in Channel :
          needle'[c] > needle[c] =>
             \/ needle'[c] <= calibration_values[c]
             \/ phase = "dialog" /\ dialog = c /\ needle'[c] = slider']_qtVars

(* When the program returns from main every needle is at zero, except      *)
(* those whose own transfer failed: one failure does not cost the others,  *)
(* and no timer event raises a needle again.                               *)
LeftAtZero ==
    (phase = "zeroing" /\ zero = channel_count) =>
        \A c \in Live \ lost : needle[c] = 0

(* What a needle of a bound channel should show.                           *)
OnTarget(c) ==
    data_source_callbacks[c] # "NULL" =>
        needle[c] = Scaled(data_source_calibration, calibration_values[c])

(* As long as the program runs, the bound needles up to the first channel  *)
(* whose transfers go on failing are on target again and again: no dialog, *)
(* no earlier failure and none of a later channel stops the main loop for  *)
(* them.  (It returns at the first failure; those behind may starve.)      *)
NeedlesFollow ==
    \A k \in 1..MaxChannels :
        (/\ <>[](link \cap 0..(k - 1) = {})
         /\ <>[](EventLoop \/ phase = "constructing")) =>
            []<>(stage = "ready" /\ \A c \in Live : c < k => OnTarget(c))

(* A start that gets its answer from the panel ends in the main window or  *)
(* in an error; only the reply that hangs get_channel_count keeps it.      *)
StartEnds == phase \in {"opened", "loading"} ~> phase \in {"main", "off", "hung"}

(* Closing the window ends the program, also when no transfer succeeds.    *)
QuitCompletes == phase = "zeroing" ~> phase = "off"

=============================================================================
