CONSTANTS
    MaxChannels = 2
    Names = {"Unallocated", "Calibration"}
    StoredInts = {}
    SliderValues = {200}
    Replies = {130}
    Outcomes = {"ok", "torn"}
    Links = {{0, 1}}
    Missing = Missing
    Absent = Absent
    Torn = Torn
    NoRoot = NoRoot
SPECIFICATION QtSafety
INVARIANTS
    QtTypeOK
    TableShowsLive
    PausedOnlyByDialog
    LeftAtZero
PROPERTIES
    ConfigSafety
    DialogOwnsNeedle
    NoOverdrive
