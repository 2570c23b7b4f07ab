SPECIFICATION PartsSpec
CONSTANTS
  Sources = {1, 4}
  Lines = 2
  SettleSteps = 1
  MaxDepth = 1
  Operands = {0, 1, 6, 9, 15, 16, 25, 64, 69, 90, 127, 128, 144, 153, 240, 255}
  Bytes = 3
  ByteCycles = 2
  StartCycles = 3
  DmaSpans = {1, 2, 5}
  BusSpans = {1, 3, 4, 9}
  LineLength = 4
  HblankDot = 3
  MaxBlocks = 3
  LineDots = 19
  Notch = 2
  ScanDots = 4
  Phase = 2
  Ends = {8, 9}
  EarlyDots <- MCEarly
  VisibleLines = 2
  LastLine = 4
  Comparands = {0, 1, 3}
  Selections = {{}, {"hblank"}, {"lyc"}, {"oam", "lyc"}, {"vblank", "oam"}}
  DotSpans = {1, 3, 12}
  DividerSpan = 32
  CounterSpan = 3
  Rates = {0, 1}
  Period <- MCPeriod
  ApuPeriod <- MCApuPeriod
  ReloadDelay = 2
  Propagation = 4
  Spans = {1, 2, 3, 7}
  Steps = 2
  one = one
  two = two
  First = one
  Second = two
  Ticks <- MCTicks
  LongestStep = 3
  Slice = 20
  Boards = {"dmg", "cgb_e"}
  VoiceSets = {{"pulse"}, {"wave"}, {"noise"}}
  PulsePeriods = {4, 8}
  LongPeriod = 8
  WavePeriods = {0, 1}
  NoisePeriods = {2, 3}
  Rate = 1
  MasterClock = 3
  SoundSpans = {1, 4}
  MaxWrites = 1
  Cgbs = {TRUE, FALSE}
  FullLength = 3
  Width = 24
  FirstDot = 80
  LatestEnd = 369
  WriteStep = 4
  Scrolls = {0, 1, 3, 7, 12}
  Delays = {0}
  WindowsAt = {0, 3, 6, 7, 12, 20, 30}
  ObjectLists <- MCLists
  Controls = {{"background"}, {"background", "window"}, {"background", "objects"},
              {"background", "window", "objects"}, {"window", "objects"}}
  MaxPixelWrites = 1
INVARIANTS
  PartsTypeOK   Consistent InStep OneBlockPerHblank
  SkippingIsInvisible Balanced ShortcutsAreInaudible CountedSoundsEnd
  PictureIsRight
PROPERTIES
  EiShadow NothingIsDropped NothingIsSkipped Snapshot ImplementsCycles
CHECK_DEADLOCK FALSE
