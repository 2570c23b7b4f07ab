SPECIFICATION PicSpec
CONSTANTS
  LineDots = 19
  Notch = 2
  ScanDots = 4
  Phase = 2
  Ends = {8, 9}
  EarlyDots <- MCEarly
  VisibleLines = 2
  LastLine = 4
  Comparands = {0, 1, 3}
  Selections = {{}, {"hblank"}, {"lyc"}, {"oam", "lyc"}, {"vblank", "oam"}}
  DotSpans = {1, 3, 12}
INVARIANT ComparesInVblank
CHECK_DEADLOCK FALSE
