CONSTANTS
    MaxChannels = 2
    Hives = {"HKLM", "HKCU"}
    Names = {"Unallocated", "Calibration", "GPU Utility"}
    Overlong = Overlong
    StoredDwords = {300}
    SliderValues = {255}
    GpuFound = FALSE
    Missing = Missing
    NoKey = NoKey
SPECIFICATION KeysSpec
INVARIANTS
    TypeOK
    RestartRestores
PROPERTIES
    SuppliedCalibrationIsSafe
    StartupKeepsSettings
    LoadingEnds
    KeepsContract
