CONSTANTS
    Replies = {129}
    MaxChannels = 1
    Percentages = {0, 50, 99, 100}
    Heats = {}
    Frosts = {}
    MaxElapsed = 2
    Undefined = {0}
    WindowsSources = {"data_source_ram_utility"}
    Calibrations = {128}
SPECIFICATION ConsoleSpec
PROPERTIES
    NeedleShowsLoad
CHECK_DEADLOCK FALSE
