SPECIFICATION HandshakeSpec
CONSTANTS
  host = host
  join = join
  Host = host
  Join = join
  BaseParts = 2
  MaxRetries = 3
  RetryTicks = 3
  Interval = 4
  Silence = 7
  Lossy <- MCAnswers
  MaxWait = 7
  MaxTroubles = 0
INVARIANT AlikeStayTogether
CHECK_DEADLOCK FALSE
