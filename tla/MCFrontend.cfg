SPECIFICATION FrontendSpec
CONSTANTS
  Contents = {zero, one}
  Blank = zero
  Period = 2
  Horizon = 2
  Torn = Torn
  None = None
  MaxAttempts = 3
  MaxDownloads = 2
  MaxKills = 1
  FrameSteps = 2
  MaxSteps = 2
  MaxEvents = 2
  MaxRewinds = 1
  Timelines <- MCTimelines
  Absent = Absent
INVARIANTS
  NothingForgotten MoviesReproduce
PROPERTIES
  KeepsTheBattery PortIsReleased QuietLossIsRetried
  CancelHolds PreservesSettings
CHECK_DEADLOCK FALSE
