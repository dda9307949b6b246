CONSTANTS
    Replies = {0, 1, 2, 3, 4, 6, 7, 8, 126, 127, 128, 129, 130, 131, 132, 200, 254, 255}
    MaxChannels = 2
    Percentages = {0, 1, 50, 99, 100}
    Heats = {0, 1, 99, 100, 130}
    Frosts = {1, 20}
    MaxElapsed = 2
    Undefined = {0, 255}
    WindowsSources = {"data_source_cpu_utility", "data_source_nvidia_gpu_utility", "data_source_nvidia_gpu_temperature"}
    Calibrations = {128, 255}
SPECIFICATION ConsoleSpec
INVARIANTS
    ConsoleTypeOK
    ReturnsChannelCount
PROPERTIES
    NeedleShowsLoad
    
    ConsoleServes
CHECK_DEADLOCK FALSE
