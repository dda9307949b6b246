# USB performance panel: TLA+ models and proofs

The program drives a USB device with a row of voltmeters ("channels", "needles").
Once a second it reads a source for each channel (CPU, RAM or GPU load, a
temperature, or full scale for calibration), scales the reading by the channel's
calibration and sends the result to the panel.  Settings live in `config.json`
(Linux) or in the registry (Windows).  The user changes them in a calibration
dialog (Qt on Linux, MFC on Windows).  The same collector also runs in a console
program and in a Windows user-mode driver (UMDF).

This directory holds the TLA+ modules, the TLC configurations that check them,
the proofs, and `PROJECT.json`, which relates every definition to the lines it
models and every hazard to the properties that watch it.

Contents: [the system](#the-system) · [hard behaviours](#hard-behaviours) ·
[modules](#modules) · [runs](#runs) · [bounds](#bounds) · [fairness](#fairness) ·
[proofs](#proofs) · [findings](#findings) · [not modelled](#what-is-not-modelled) ·
[plan](#plan)

## The system

| Part | State it keeps | Operations | Talks to |
|---|---|---|---|
| Collector, `datasource/collector.c` | `data_source_callbacks`, `calibration_values` (one entry per channel), the program's `channel_count` | `get_channel_count`, `initialize_data_source_binding`, `main_loop_callback`, `send_usage` | configuration reader (loading), sources (readings), transport |
| Linux configuration reader, `datasource/linux/configurationreader.c` | `root_object` (the JSON document), `config.json` | `get_bound_data_source`, `set_channel_source_binding`, `clear_binding`, `set_channel_calibration`, name and callback conversions | writes the collector's tables and the disk |
| Windows configuration reader, `datasource/windows/registryreader.c` | `registry_key`, the registry | the same | writes the collector's tables and the registry |
| Windows sources, `datasource/windows/*.c` | CPU: the last sample, which all channels share; GPU: handle, `nvidia_gpu_found` | one reading function each | system and NvAPI calls |
| Transport, `platform/libusb.c`, `platform/winusb.c`, part of `platform/umdf.c` | device handle | `open_device`, `close_device`, `transfer_control` | the panel |
| Qt panel, `control/qt/` | table of settings, the dialog's slider and `cachedChannelName` | `main`, timer, `on_menu_triggered`, dialog slots, `closeEvent`, destructors | collector and configuration reader |
| MFC panel, `control/mfc/` | list of settings, the dialog's slider and `cachedChannel` | constructor of the application, `InitInstance`, `timer_proc`, menu and dialog handlers | collector and configuration reader |
| Console program, `control/console_entry.c` with `unix_generic_timer.c` or `windows_eventtimer.c` | none | `main`, `enter_loop` | collector |
| UMDF driver, `platform/umdf.c` | `UsbDevice`, `Timer`, `Device` | PrepareHardware, timer function, cleanup | collector, framework |
| Panel firmware (not in the repository) | what each needle shows | answers `COMMAND_QUERY_CAP`, obeys `COMMAND_SET_USAGE` | transport |

What makes each part correct:

- **Collector**: it finds the panel's channel count and returns; no needle is sent
  more than its calibration allows; one bad transfer does not silence the panel for good.
- **Configuration readers**: what was acknowledged survives a restart; a start adds
  defaults and changes nothing else; what could not be read is left for the user;
  what could not be stored is not in force.
- **Qt panel**: the calibration dialog has its needle to itself and gives the source
  back; the table shows the settings in force; closing the program leaves the needles at zero.
- **MFC panel**: the same, on top of settings it may have failed to load; looking at a
  channel in the dialog does not change what is stored for it.
- **Sources and console program**: what the panel is sent is the load, at the ends of the
  scale too; the program goes on serving every channel.
- **Driver**: the timers never read tables that are not there.

## Hard behaviours

- Three copies of the Linux settings (tables, document, file) change at different
  moments, and each save rewrites the whole file and may fail or be cut short.
- One save is made per missing key during a start, so an interrupted start leaves
  any subset of the keys.
- The main loop runs inside the modal dialog's event loop, over the very table
  entry the dialog has cleared.
- A transfer that timed out may have reached the panel.
- Handlers ignore the status of nearly every call they make; the MFC application and the
  driver go on after a start that failed.
- All channels bound to the CPU share one last sample.
- In the driver the framework's thread rebuilds the tables while timer threads read them.
- Bytes, 7-bit counts and 32-bit products are narrowed at several places.

`PROJECT.json` lists each hazard at its line, with the properties for it.

## Modules

    SettingsContract              what datasource.h promises of the settings, and what follows
    PanelBase                     arithmetic, the wire word, the reply to the query
     |- PanelBaseProofs           what that arithmetic does, for every byte
     |- ChannelQuery              get_channel_count, one action per statement
     |- DataSources               RAM, GPU and CPU conversions, the shared CPU sample
     |- ConsoleProgram            main and the loops, over ChannelQuery and DataSources
     |   `- ConsoleProofs
     |- LinuxConfig               tables, root_object, config.json; implements SettingsContract
     |   |- LinuxConfigProofs     its invariant, the contract, how a start ends
     |   `- QtPanel               main, window, dialog, timer, needles; implements LinuxConfig
     |       `- QtPanelProofs     over QtPanel and LinuxConfigProofs
     |- RegistryConfig            tables and registry; implements SettingsContract
     |   |- RegistryConfigProofs  its invariant, the contract, how a start ends
     |   |- MCRegistryConfig      two keys, for TLC
     |   `- MfcPanel              application, list, dialog, timer, needles; implements RegistryConfig
     |       `- MfcPanelProofs    over MfcPanel and RegistryConfigProofs
     `- UmdfDriver                PrepareHardware against timer threads
         `- UmdfDriverProofs

The proof modules also extend PanelBaseProofs.

**PanelBase.** `Scaled` is `main_loop_callback`'s product, shift and narrowing;
`send_usage` builds the 16-bit word and lets the panel take it apart;
`ChannelCounts(reply)` is the set of counts `get_channel_count` may return for a reply,
empty when it does not return.

**ChannelQuery.** The function statement by statement: transfer (which may fail),
test of the flag, loop, report.  `ReturnsChannelCount`, checked in the run `console`,
justifies the use of `ChannelCounts` elsewhere.

**SettingsContract** is the abstract specification of the settings.  Its state is what a
start would make of each store (`saved`, defaults filled in and numbers narrowed), the
values the main loop works with (`inForce`), and those a caller may rely on (`known`:
loaded or acknowledged, and not refused since).  It has one step per thing a caller can
observe: a start, an acknowledged change, a refused one, a pause, the end.  Writing a
default down, or the copy in memory that a refused change leaves behind, is not visible
here.  `KeepsContract` of LinuxConfig and of RegistryConfig is
`INSTANCE SettingsContract WITH ...` as a property; the mappings stand beside it.

**LinuxConfig.** `file` is `config.json`: absent, not JSON (`Torn`), or a document.
`root` is `root_object`.  `stage` and `next` are the progress of
`initialize_data_source_binding`.

| Action | Code |
|---|---|
| `AllocateTables`, `AllocationFails` | head of `initialize_data_source_binding` |
| `RefuseConfig`, `ReadBinding`, `AddBinding` | `get_bound_data_source` up to the binding; the opening of the file is part of whichever comes first, and any file may fail to be opened or read |
| `ReadCalibration`, `AddCalibration` | the rest of it, with the step to the next channel |
| `set_channel_source_binding`, `clear_binding`, `set_channel_calibration` | the functions of that name |
| `ProcessEnds` | the process returns, is killed or crashes |

A save has the outcome `ok`, `refused` (the file could not be opened and is what it was) or
`torn` (it was truncated and not completed).  A process that dies inside a save is `torn`
followed by `ProcessEnds`.  A stored number goes through `json_object_get_int`, which
saturates, and then the conversion to a byte (`Narrowed`).  `rejected` is an observer: the
settings whose last set call returned an error.  The tables map a channel to its callback
and calibration, so that an index outside them is an error TLC reports.

**QtPanel** extends LinuxConfig and drives its operations.  There is one thread;
`phase` says where it is.  A handler is several actions where it makes several calls
that the disk or the panel can tell apart; `phase` keeps other handlers out in between,
but not the death of the process.

| Action | Code |
|---|---|
| `OpenDevice`, `QueryPanel`, `QueryNeverReturns`, `LoadChannels`, `GiveUp` | `main`, in order |
| `ShowPanel` | constructor of `ControlPanelDialog` |
| `main_loop_callback` | the timer, in any phase with an event loop |
| `OpenAdjust`, `PauseChannel` | constructor of `AdjustDialog`; setting the slider to a value other than 0 runs the slider's slot |
| `on_slide_calibration_valueChanged`, `on_combo_channel_currentTextChanged`, `closeEvent` | the slots and handler of that name |
| `Escape` | `QDialog::reject`, which hides the dialog without a close event |
| `RefreshRow` | the rest of `on_menu_triggered` after `exec()` |
| `Quit`, `ZeroNext`, `Return` | `exec()` returns, `~ControlPanelDialog`, return from `main` |
| `Killed`, `LinkChanges` | environment |

`needle` is the panel: what it shows survives the process.  A transfer is `ok`, `failed`, or
`unsure` (reported as failed, and delivered).  `link` is the set of channels the link is bad
for; their transfers may do any of the three, the others' succeed.  That QtPanel does
nothing to the settings but what LinuxConfig allows is checked as a refinement:
`ConfigSafety` is a property of the run `qt_panel`.

**RegistryConfig** is the Windows counterpart of LinuxConfig.  There is no document;
values are written singly; tables change before the store; the operations also run
after a failed start, because the MFC panel and the driver ignore that failure.  A value
larger than its buffer, name or number (`Overlong`), fails the query, leaves the buffer as
it was and is replaced like a missing one; a name that fits is terminated by the
registry call even though it was stored without its terminator.  A query of a value that
is there and fits is taken to succeed: the key is open with all rights, and the code has
no way to tell such a failure from a missing value.

Its actions are `AllocateTables`, `AllocationFails`, `OpenKey`, `ReadBinding`,
`ReplaceBinding`, `ReadCalibration`, `AddCalibration` (`get_bound_data_source`, in order),
the three set and clear calls and `ProcessEnds`.  `acknowledged` is the observer: the
settings loaded or stored by this process.

**MCRegistryConfig** restricts it for TLC to two keys, `HKLM` with one content, from which
the processes that may open it load, and `HKCU`, with any content, from which the others
load and which they change.

**MfcPanel** extends RegistryConfig as QtPanel extends LinuxConfig.  There is one thread; a
handler is one action, because none writes more than one value and sends more than
one transfer.

| Action | Code |
|---|---|
| `QueryPanel`, `QueryNeverReturns`, `LoadChannels` | constructor of `CcontrolPanelApp` |
| `OnInitDialog`, `OnInitDialogCrashes` | `ControlPanelDialog::OnInitDialog`; without tables the first row reads through a null pointer |
| `timer_proc` | the timer, in any phase with a message loop |
| `OnMenu01Calibrate` | opening the dialog, with `AdjustDialog::OnInitDialog` |
| `OnHScroll`, `OnCbnSelchangeChannelCombo` | the handlers of that name; the box is a drop-down list (`control_panel.rc:105`), so that only its names can be chosen |
| `OnCancel` | Escape and the close box: the handler, and the rest of `OnMenu01Calibrate` |
| `OnOK` | Enter: `CDialog::OnOK`, which is not overridden |
| `Close`, `ZeroNext`, `Return` | the end of `InitInstance` |
| `Killed` | environment |

**DataSources** holds the conversions as relations between a sensor's state and what a
source returns, and the sample of `cpu.c`: `since` is the time that has passed since the
last one, and a sample that spans no time converts 0.0/0.0 to a byte, which may give any
of `Undefined`.

**ConsoleProgram** is `main` in its three builds (libusb with either loop, WinUSB with the
Windows one) over ChannelQuery and DataSources.

| Action | Code |
|---|---|
| `open_device`, `get_channel_count`, `NullHandle`, `initialize_data_source_binding` | `main`, in order; a null handle crashes the libusb builds and fails every transfer of the other |
| `SkipChannel`, `CallSource`, `NullTables`, `send_usage_or_fail`, `EndOfTick` | `main_loop_callback`, one channel and one call at a time |
| `AfterFailure`, `NextTick` | `enter_loop` of `unix_generic_timer.c` and `windows_eventtimer.c` |

**UmdfDriver** interleaves single accesses: `channel_count` (`TestCount`, `EndOfLoop`), the
entry tested (`TestCallback`), the entry called (`CallSource`) and the calibration
(`SendUsage`).  The framework's thread calls PrepareHardware up to `MaxPrepares` times; each
call that gets as far creates a timer, and the timers of earlier calls go on firing, each on
a thread of its own.  A table is a function, `Null` or `Dangling`.  A read of an entry that
is not there is undefined: the process may die, and unless the table is `Null` the read may
also yield anything (`Garbage`).  Two observers: `wild`, the kinds of such reads there were,
and `quiet`, the timers whose tick began after the last PrepareHardware had returned, so
that nothing but other ticks goes on beside it until the next one.

## Runs

| Run | Question | Result |
|---|---|---|
| `linux_config` | Are the copies of the settings consistent, over every initial file, failing saves and restarts, and is every step one the contract allows? | holds |
| `linux_config_rejected` | Does a calibration that could not be set stay off the disk? | **violated** |
| `qt_panel` | Two channels, a link that fails at will: do dialog, timer and shutdown stay out of each other's way, is every needle within its calibration, and is the panel's use of the settings a behaviour of LinuxConfig? | holds |
| `qt_liveness` | Do the needles come back to their targets, up to the first channel whose transfers keep failing; does closing the window end the program; does a start end? | holds |
| `qt_escape` | Is the source resumed however the dialog is left? | **violated** |
| `channel_query_bitmap` | Does `get_channel_count` return at all for an old panel's bitmap? | **violated** |
| `registry_config` | With processes on two keys: do tables and registry agree on what was acknowledged, does a start keep what it can read and all of the other key, and is every step, also after a failed start, one the contract allows? | holds |
| `mfc_panel` | With starts, writes and transfers that fail and are ignored: do list, needles and stored names stay right, and is all of it a behaviour of RegistryConfig? | holds |
| `console` | Do the three builds get from the query to a loop that sends the load of the right sensor and serves every channel before which none keeps failing? | holds |
| `console_ram` | Does the needle follow the RAM source to the top of the scale? | **violated** |
| `umdf_driver` | Is the driver safe between two calls of PrepareHardware, whatever the calls failed to do, and do needles stay within their calibration as long as no read is wild? | holds |
| `umdf_prepared_again` | Is a channel with the default calibration always below half scale? | **violated** |

The properties worth knowing:

- `KeepsContract`: each configuration reader implements SettingsContract.  Most of what
  it says is about the settings a call did *not* name: a refused change, a torn save, a
  default added by a start, or a change made after a failed start touches no other value.
- `RestartRestores` (LinuxConfig, RegistryConfig): for each setting whose last set call
  succeeded, a restart would load what is live.  It relates the file or registry to the
  tables through failed saves of *other* settings, paused sources and narrowed numbers.
- `EveryChannelHasEntries`: the dialogs' set calls never fail for want of a key.
- `StartupOnlyAddsDefaults`, `UnreadableConfigKept`, `StartupKeepsSettings`: what a
  start may do to the store.
- `PausedOnlyByDialog`, `DialogOwnsNeedle`, `TableShowsLive`, `ListShowsLive`: dialog
  against timer and window.  A source is back from the moment its dialog has closed, not
  only when the window has refreshed its row.  `NoOverdrive`: a needle rises above its
  calibration only by the user's own hand on the slider (Qt), or not at all (MFC, where
  the slider stores what it sends).
- `StoredSourcesSurvive` (MfcPanel): a dialog in which nothing was chosen changes no
  stored name.  The exceptions it lists are all the ways in which the code loses one: a
  start that failed and was ignored, a write that failed, a dialog left with Enter, and a
  name that means no source here, which becomes `Unallocated`.
- `NeedlesFollow` (QtPanel) and `ConsoleServes` (ConsoleProgram): the main loop returns at
  the first transfer that fails.  The properties say how far a channel that keeps
  failing does harm: every channel before it is served again and again, in the console
  program as long as its loop lasts.  Those behind it do starve.  `ConsoleServes` also
  says what the program needs: a reply with a count, memory for the tables and, in a
  libusb build, a device.
- `NeedleShowsLoad` (ConsoleProgram): through reading, scaling, packing and unpacking, a
  delivered transfer shows the load of that channel's sensor to within four steps.
- `CpuSampleSpansTime`: a CPU sample is defined unless a second channel shares it within a
  tick or a tick follows at once upon a late one; both happen.
- `LeftAtZero`: on exit every needle whose own transfer succeeded is at zero.
- `SafeBetweenStarts` (UmdfDriver): a tick that begins after the last PrepareHardware
  returned and acts before the next reads only entries that are there, unless an allocation
  failed, however often the device was started and whatever those calls left undone; in a
  device started once this is so of every tick.  `CalibrationHolds`: without a read of an
  entry that is not there no needle exceeds its calibration, also while a second start
  has the tables half built.  What happens in a tick that PrepareHardware does disturb is
  finding 5.
- `NeedlesFollow`, `QuitCompletes`, `StartEnds`, `LoadingEnds`, `TicksEnd`,
  `ConsoleServes`: progress.

Every property of a passing run has a mutant in `PROJECT.json`: a plausible mistake in
one mapped definition under which the run reports that property violated.

`CHECK_DEADLOCK FALSE` appears in the driver's runs (the process may have died, the query
may hang, or the framework may have no further call and no timer may exist) and in the
console's (the program may have returned or crashed, the query may hang, and a panel with
more than `MaxChannels` channels is not followed past the query).

## Bounds

- **Two channels** where channels can disturb each other: the loops over channels act on
  one entry at a time, so a third adds no new kind of neighbour.  `QtEscape.cfg`, which
  looks for a counterexample, has one.
- **Names**: `Unallocated`, `Calibration` and one name without a source of its own
  stand for the seven; the configuration readers treat the others alike.  `mfc_panel`
  has `CPU Utility` as well, to tell a source that is lost from a name that never had one.
- **Stored numbers**: 300 is outside a byte and narrows to 44.  Slider values 0 and
  200: 0 is the position that emits no signal, 200 is above the default.  `registry_config`
  has 255 alone, which tells a change from what is stored and from both defaults.
- **Replies**: counts with the flag, bitmaps with and without bit 0.  `console`
  runs over eighteen replies, the extremes among them.
- **Saves**: `linux_config` has all three outcomes.  `qt_panel` has `ok` and `torn`, the
  two extremes; `refused` differs from `torn` only in what a later start finds, which
  `linux_config` covers.  `qt_liveness` has `ok` only, since a save has no part in its
  properties but a failed start, which `qt_panel` and `linux_config` have.
- **Registry**: `registry_config` has both keys (MCRegistryConfig).  The machine's has one
  content and the processes on it only load, because what they change is changed in the
  other key in the same way; and values too large are names of even channels and numbers of
  odd ones, so that each kind meets each neighbour.  `mfc_panel` has one key: a panel uses
  one for its whole life.  The theorems hold for any number of keys, and any content.
- **Link** (`qt_liveness`): good, bad for the second channel only, and bad for both; the
  first alone bad says no more of the second than both bad do.
- **MFC dialog**: opened on channel 1 only (`Adjusted`), so that the other channel is the
  neighbour that must not be disturbed; one reading (100), which every calibration
  scales to something else, besides full scale.
- **Sensors** (`console`): the ends of their ranges, one value next to each, and values
  beyond them; `MaxElapsed` is 2, the longest pause, enough for no time, time all idle, time
  all busy and half.  `NeedlesShowTheLoad` proves the conversion for all values.
  `console_ram`, which looks for a counterexample, has one channel.
- **PrepareHardware** is called at most twice: one earlier timer is enough for every race
  between a rebuild and a tick.

## Fairness

- `WF(LoadStep)`, `WF(Proceed)`, `WF(Next)` of ChannelQuery, `WF(ConsoleNext)`,
  `WF(Prepare)` and `WF(MainLoop(t))`: a thread inside a function goes on.  No step of
  these waits for anything but a transfer, which has a timeout of five seconds
  (`libusb.c:65`, `umdf.c:20`), and, in the console program, the period of its loop.
- `SF(main_loop_callback)` in QtPanel: the event loop delivers an expired timer in its
  next pass, but not during a handler; the action is enabled again and again rather
  than continuously, however busy the user keeps the loop.
- Nobody is obliged to open or leave dialogs, to kill the process, to repair the link, or
  to start the device again.  `NeedlesFollow` therefore assumes, for the channels up to
  some k, that the link stays good for these and the program stays in its event loops
  from some time on; `ConsoleServes` assumes, for each channel, that from some time on no
  transfer to an earlier one fails.

## Proofs

Each theorem holds for any number of channels up to 127 (the reply has seven bits), any
names, stored numbers, slider values, replies, and outcomes of saves, writes and
transfers, under the assumptions the modules declare beside their constants: names
include the two the code knows, numbers are numbers, and sentinels differ from the
values they stand beside.

| Module | Theorem | States |
|---|---|---|
| `PanelBaseProofs` | `ScaledIsTheShare`, `ScaledIsMonotone` | what is sent for a reading is its share of the calibration, rounded down, and grows with either |
| | `WordRoundTrip`, `ReplyGivesOneCount` | the panel takes apart what `send_usage` packed; a reply gives at most one count, of seven bits, and none exactly for a bitmap with bit 0 |
| `SettingsContract` | `KnownSettingsAreStored`, `KnownSettingsAreInForce` | what a process may rely on is what the next start finds, and what the main loop works with |
| | `ChangesAreSeparate` | a change of one setting leaves every other alone, in force and in the store |
| `LinuxConfigProofs` | `ConfigInvariance` | `ConfigSafety => []ConfigInv` |
| | `TypeCorrectness`, `AcknowledgedSettingsDurable`, `SetCallsFindTheirKey` | `[]TypeOK`, `[]RestartRestores`, `[]EveryChannelHasEntries` |
| | `UnreadableFileIsLeftAlone`, `StartupKeepsTheFile` | `UnreadableConfigKept`, `StartupOnlyAddsDefaults` |
| | `LinuxSettingsKeepTheContract`, `LinuxSettingsAreKept` | LinuxConfig implements SettingsContract; so its three theorems hold of it |
| | `StartMakesProgress` | each step of a start brings it nearer to its end |
| `RegistryConfigProofs` | `RegistryInvariance` | `RegistrySafety => []RegistryInv` |
| | `RegistryTypeCorrectness`, `RegistrySettingsDurable` | `[]TypeOK`, `[]RestartRestores` |
| | `StartKeepsTheRegistry`, `SuppliedIsHalfScale` | `StartupKeepsSettings`, `SuppliedCalibrationIsSafe` |
| | `WindowsSettingsKeepTheContract`, `WindowsSettingsAreKept` | RegistryConfig implements SettingsContract; so its three theorems hold of it |
| | `StartMakesProgress` | each step of a start brings it nearer to its end |
| `QtPanelProofs` | `QtInvariance`, `PanelImplementsConfig` | `QtSafety => []QtInv`; QtPanel implements LinuxConfig |
| | `PanelSettingsDurable`, `QtPanelKeepsTheContract` | `[]RestartRestores` and `KeepsContract`, carried over by the implementation |
| | `PanelTypeCorrectness`, `TableIsLive`, `SourcesReturn`, `NeedlesLeftAtZero` | `[]QtTypeOK`, `[]TableShowsLive`, `[]PausedOnlyByDialog`, `[]LeftAtZero` |
| | `DialogHasItsNeedle`, `NeedlesWithinCalibration` | `DialogOwnsNeedle`, `NoOverdrive` |
| | `ThreadMakesProgress` | each step of `main`, a handler or the destructor brings it nearer to its end |
| `MfcPanelProofs` | `MfcInvariance`, `PanelImplementsRegistry` | `MfcSafety => []MfcInv`; MfcPanel implements RegistryConfig |
| | `MfcSettingsDurable`, `MfcPanelKeepsTheContract` | `[]RestartRestores` and `KeepsContract`, carried over by the implementation |
| | `MfcTypeCorrectness`, `ListIsLive`, `MfcSourcesReturn`, `MfcNeedlesLeftAtZero` | `[]MfcTypeOK`, `[]ListShowsLive`, `[]PausedOnlyByDialog`, `[]LeftAtZero` |
| | `MfcDialogHasItsNeedle`, `MfcNeedlesWithinCalibration`, `LookingIsNotChanging` | `DialogOwnsNeedle`, `NoOverdrive`, `StoredSourcesSurvive` |
| | `ThreadMakesProgress` | each step of the constructor or the shutdown brings it nearer to its end |
| `ConsoleProofs` | `OnlyFullRamIsNotShown`, `NeedlesShowTheLoad` | each delivered transfer shows its load, or is the one of finding 4; `NeedleShowsLoad`, if no channel is bound to the RAM source or the memory is never full |
| | `QueryCounts`, `OnlyOddBitmapsHang` | `[]ReturnsChannelCount`; for which replies the query ends (finding 3) |
| | `SamplesSpanTime`, `ConsoleTypes` | `CpuSampleSpansTime`, `[]ConsoleTypeOK` |
| | `TicksMakeProgress` | each step of a tick brings it nearer to its end |
| `UmdfDriverProofs` | `DriverInvariance`, `DriverTypeCorrectness` | `Spec => []DriverInv`, `[]TypeOK` |
| | `StartsAreSafe`, `NeedlesKeepCalibration` | `[]SafeBetweenStarts`, `[]CalibrationHolds`, for any number of timers |
| | `OnlyGarbageOverdrives`, `FirstStartPreventsDamage` | `CalibrationHolds` under the weakest premise; `DefaultPreventsDamage` with one start of the device (finding 5) |
| | `TicksMakeProgress`, `PrepareMakesProgress` | each step of a tick, and of PrepareHardware, brings it nearer to its end, whatever the other threads do |

The invariants, and why the properties are not inductive without them:

- **`ConfigInv`** (LinuxConfig).  `RestartRestores` speaks of the file, and a save writes
  the *document*, so it needs to know what the document holds.  `OffInv`: without a process
  there is no document, no rejected setting and no channel.  `LoadingInv`: during a start
  the document, once there, is exactly what the file holds, since a start that fails to
  save does not go on.  `ReadyInv`: afterwards the file equals the document as long as no
  setting is rejected, and a readable file differs from it in rejected settings only.
  `BindingInv`, `CalibrationInv`: each channel already loaded has its key in the document,
  and its live entry is what the document gives for it unless that setting is rejected, or
  its source is paused.
- **`ContractInv`** of LinuxConfigProofs adds `LoadedInv` to it: during a start the sources
  loaded so far are those the document names, with no pause; the abstract start needs the
  exact value.
- **`ContractInv`** of SettingsContract: between a process's start and its end what it may
  rely on is in its store, and all of it but paused sources is in force.
- **`RegistryInv`**: what this process loaded or wrote is in its key, whole and readable, and
  the tables agree with it; a start takes the channels in order, each one's source
  first, and `acknowledged` is exactly what it has passed.
- **`QtInv`** is `ConfigInv` with `PhaseInv` (which phase goes with which stage, and that an
  open dialog's source is paused), `TableInv`, `SourcesInv` (each source is what the document
  names, paused by its dialog, refused, or escaped) and `ZeroedInv` (the needles passed
  by the shutdown loop).
- **`MfcInv`** is the same over `RegistryInv`, with `NamedInv` (every live source has a
  name, and the name means it) and `DialogInv`: what the dialog will set is the name the
  stored one comes back as, unless the user chose something else.  Without the two, closing a
  dialog might store another source than the one it found.
- **`ConsoleInv`**: between the reading and the transfer the sample is truthful (its value
  is its load on a scale of 255 to within three steps) and the tables have an entry for the
  channel; each conversion is shown to be truthful for every value of its sensor.  The other
  theorems of the module have invariants of their own: `CountInv` (what `ret_val` is at
  each statement of the query), `SpanInv` (if no time has gone by since the last sample, a
  channel took it in this tick or the tick was rushed), `TypeInv` and `LoopInv` (the loop
  index does not pass the number of channels).
- **`DriverInv`**: how far the tables are built, by where the framework's thread is
  (`BuiltInv`); that a valid entry holds what the registry holds or what it was cleared to
  (`ContentInv`), which is what lets `CalibrationHolds` survive half built tables; that a
  quiet tick has the tables and their length to itself, with what it has tested still so
  (`QuietInv`); and that during a first start no timer runs before the tables are complete,
  so that every tick is quiet (`FirstStartInv`).
- **`HarmlessInv`** (UmdfDriver): as long as no tick read freed memory or beyond a table, each
  needle is within what the registry allows.  It is weaker in its premise than
  `CalibrationHolds`: a NULL table or a cleared entry kills the process and
  moves no needle.

The proofs that they are inductive have one lemma or step per action and one step per
conjunct the action can disturb.  The panels' actions are composed of the configuration
modules' operations, so the panels' proofs cite `NextConfigInv` and `NextRegistryInv`
rather than repeat them.  `LEMMA SendUsageMovesOne` is the round trip of the wire word:
a delivered transfer moves the needle it is meant for, and no other.

For three of the findings a theorem says exactly when the run's counterexample can occur:
`OnlyOddBitmapsHang` (3), `OnlyFullRamIsNotShown` (4), `FirstStartPreventsDamage` (5).
For finding 2 it is `SourcesReturn`, whose exceptions are a save that failed and Escape.

**Progress.**  Liveness under fairness is out of the prover's reach, because `ENABLED` and
induction along a behaviour are.  What is proved instead is the part of it that depends on
the code: for each thing that has to end there is a measure (`StepsLeft`, `ThreadStepsLeft`,
`TickStepsLeft`, `PrepareStepsLeft`, `QueryStepsLeft`), a bounded natural number while it is
under way, which each of its own steps lowers and which no step of anyone else raises.
(The query's alone has an exception: the loop of finding 3.)  The step from there to
`<>` uses fairness, that is, that a thread inside a function goes on, and that such a
thread always has a step to take; TLC checks both on the instances.

| Run's property | Measure |
|---|---|
| `LoadingEnds` (LinuxConfig, RegistryConfig) | `StepsLeft`: `StartMakesProgress` |
| `StartEnds`, `QuitCompletes` (QtPanel) | `ThreadStepsLeft`: `ThreadMakesProgress` |
| `ConsoleServes`, its part about a single tick | `TickStepsLeft` of ConsoleProofs |
| `TicksEnd` (UmdfDriver) | `TickStepsLeft` of UmdfDriverProofs |

Every invariant and action property of the passing runs is proved.  Only model-checked:
all liveness (`LoadingEnds`, `NeedlesFollow`, `QuitCompletes`, `StartEnds`,
`ConsoleServes`, `TicksEnd`).  `NeedlesFollow` and the repetition in `ConsoleServes` have no
measure: they say that something happens again and again, which is fairness alone.

## Findings

1. **A rejected calibration is stored after all** (`configurationreader.c:170-185`).  The
   value stays in `root_object` after a failed save and goes out with the next one.
   Bindings behave the same way.
2. **Escape leaves a channel without its source** (`adjust_dialog.cpp:17-21`).
3. **The query hangs on a bitmap** (`collector.c:33-35`).  The loop has no side effect on
   what it tests; a C11 compiler may also assume that it ends, in which case the result is
   whatever the compiler made of it.  The modules use the plain reading.
4. **The RAM source reads 0 at 100 per cent** (`ram.c:22`).
5. **A second PrepareHardware races with the first timer** (`umdf.c:96-104`).  The code
   expects to be called again: it keeps `UsbDevice` and frees earlier tables.

Noted without a run:

- A binding whose name has no source on Linux reads as `Unallocated`, and closing the dialog
  on it stores that (the source marks this as TODO).
- The default of 255 for channels bound to `Calibration` in `registryreader.c:158-162`
  applies only to hand-written registries, because a start stores the default for an
  unbound channel first.
- A process with administrator rights and one without keep their settings in different keys
  (`registryreader.c:131`).
- In the MFC panel Enter in the dialog leaves the channel without its source, because only
  `OnCancel` resumes it (`adjust_dialog.cpp:64`); and after a start that failed and was
  ignored (`control_panel.cpp:48`) closing a dialog stores `Unallocated` over the name that
  could not be read.  Both are exceptions `PausedOnlyByDialog` and `StoredSourcesSurvive` name.
- `KillTimer(NULL, 0)` (`control_panel.cpp:88`) names no timer; only the absence of a
  message loop keeps the timer from firing while the needles are zeroed.
- Two channels bound to the CPU share its last sample, so the second one of a tick may
  convert 0.0/0.0 (`cpu.c:23`).
- Without a device the libusb builds hand a null handle to libusb (`console_entry.c:19`).

## What is not modelled

- **Unload of the driver**: depends on when the framework deletes the objects a device owns.
- **JSON values of other types** than names and numbers: a null name would crash a start, and
  a calibration stored as a string could never be set.
- **A GPU that comes and goes**: `GpuFound` of RegistryConfig is settled once.
- **WinUSB enumeration**: a sequence of system calls without state of its own; what it
  leaves behind is `opened` of ConsoleProgram.
- **Tray icon and painting of the MFC panel** change nothing but what is visible.
- **Trace, resources, about dialogs, layout, build files**: no state, or text and layout only.
- **`cpu_amd.c`, `datasource/linux/cpu.c`**: a stub and an empty file.

## Plan

Everything the first plan named is done: the two configuration readers with their
contract, both panels, the console program, the sources and the driver, with the safety
properties of each proved, and a measure for each thing that must end.  What is left:

1. a proof that a thread that has a measure also has a step (the guards of its actions
   cover every state in which it is under way), which needs no `ENABLED`;
2. documents with values of other types, and a GPU that comes and goes between starts;
3. the driver's unload, under stated assumptions about the framework.
