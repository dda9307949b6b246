CONSTANTS
    MaxChannels = 2
    Hives = {"HKCU"}
    Names = {"Unallocated", "Calibration", "CPU Utility", "CPU Temperature"}
    Overlong = Overlong
    StoredDwords = {}
    SliderValues = {200}
    Adjusted = {1}
    GpuFound = FALSE
    Replies = {1, 130}
    Readings = {100}
    Missing = Missing
    NoKey = NoKey
SPECIFICATION MfcSafety
INVARIANTS
    MfcTypeOK
    ListShowsLive
    PausedOnlyByDialog
    LeftAtZero
PROPERTIES
    StoredSourcesSurvive
    NoOverdrive
    DialogOwnsNeedle
    RegistrySafety
