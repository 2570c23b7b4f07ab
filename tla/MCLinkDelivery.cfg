SPECIFICATION BoundedSpec
CONSTANTS
  host = host
  join = join
  none = none
  Host = host
  Join = join
  None = none
  ByteBits = 2
  NormalPeriod = 1
  FastPeriod = 1
  GuestBytes <- MCBytes
  Commands <- MCArm
  Backoff = 1
  MaxRetries = 1
  MaxRequests <- MCHostTwice
  MaxResets <- MCJoinOnce
  MaxLosses = 1
  MaxQueue = 1
INVARIANTS
  ClockedOnce NoByteIsTorn OnlyTimeouts
PROPERTIES
  BytesAreSwapped
CHECK_DEADLOCK FALSE
