SPECIFICATION LinkSpec
CONSTANTS
  one = one
  two = two
  none = none
  First = one
  Second = two
  Nobody = none
  ByteBits = 2
  NormalPeriod = 2
  FastPeriod = 2
  Bytes <- MCBytes
  ProbeByte <- MCProbe
  FastModes <- MCDmg
  Ticks <- MCTicks
  Slice = 2
  Timeout = 4
  MaxTransfers = 2
  LongestStep = 2
  host = host
  join = join
  Host = host
  Join = join
  Lossy <- MCAnswers
  BaseParts = 2
  MaxRetries = 3
  RetryTicks = 2
  Interval = 3
  Silence = 9
  MaxWait = 1
  MaxTroubles = 1
INVARIANTS
  SessionMatchesCable
  AlikeStayTogether
PROPERTIES
  RetryFromBoundary StuckIsNoticed
  AlikeBecomeReady SilenceEnds
CHECK_DEADLOCK FALSE
