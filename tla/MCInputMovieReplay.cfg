SPECIFICATION MovieSpec
CONSTANTS
 FrameSteps = 2
 MaxSteps = 4
 MaxEvents = 2
 MaxRewinds = 1
 Timelines <- MCTimelines
 Absent = Absent
INVARIANT ReplayInjects
CHECK_DEADLOCK FALSE
