CONSTANTS
    MaxChannels = 1
    Names = {"Unallocated", "Calibration", "CPU Utility"}
    StoredInts = {}
    SliderValues = {200}
    Outcomes = {"ok", "refused", "torn"}
    Replies = {0, 1, 128, 129}
    Links = {{}, {0}}
    Missing = Missing
    Absent = Absent
    Torn = Torn
    NoRoot = NoRoot
SPECIFICATION QtSafety
INVARIANTS
    LeavingResumes
