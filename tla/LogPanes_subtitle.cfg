CONSTANTS
    p0 = p0  p1 = p1  p2 = p2  s0 = s0  s1 = s1  Sep = Sep
    PaneIds <- MC_PaneIds
    Original = p0
    LoggerNames <- MC_LoggerNames
    Levels = {"", "INFO", "VERBOSE"}
    SEP = Sep
    Searches <- MC_Searches
    MaxHandlers = 2
SPECIFICATION Spec
INVARIANT SubtitleCountsOthers
