CONSTANTS
    MaxChannels = 2
    Names = {"Unallocated", "Calibration"}
    StoredInts = {}
    SliderValues = {0}
    Outcomes = {"ok"}
    Replies = {2, 3, 130}
    Links = {{}, {1}, {0, 1}}
    Missing = Missing
    Absent = Absent
    Torn = Torn
    NoRoot = NoRoot
SPECIFICATION QtSpec
PROPERTIES
    NeedlesFollow
    QuitCompletes
    StartEnds
