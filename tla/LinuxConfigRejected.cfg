CONSTANTS
    MaxChannels = 2
    Names = {"Unallocated", "Calibration", "CPU Utility"}
    StoredInts = {300}
    SliderValues = {200}
    Outcomes = {"ok", "refused", "torn"}
    Missing = Missing
    Absent = Absent
    Torn = Torn
    NoRoot = NoRoot
SPECIFICATION ConfigSafety
INVARIANTS
    RejectedStaysOffDisk
