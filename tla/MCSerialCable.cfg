SPECIFICATION LineSpec
CONSTANTS
  one = one
  two = two
  none = none
  First = one
  Second = two
  Nobody = none
  ByteBits = 2
  NormalPeriod = 2
  FastPeriod = 1
  Bytes <- MCBytes
  ProbeByte <- MCProbe
  FastModes <- MCDmg
  Ticks <- MCTicks
  Host = one
  Join = two
  Packets <- MCPackets
  MaxQueued = 2
  Pieces = {0, 6}
  MaxPackets = 3
  MaxJoins = 3
  MaxDamage = 1
INVARIANTS OwnerIsTheDriver
PROPERTIES EdgesAreExchanged UnplugStrandsNobody ArmedPairProgresses
  WholeBytesAreSwapped ImplementsArbiter
  ImplementsFifo EverythingArrives
CHECK_DEADLOCK FALSE
