SPECIFICATION Spec
CONSTANTS
  Pools = {2}
  MaxLength = 2
  MaxInFlight = 2
  UringDepth = 64
  SocketFrames = 1
  Owned = {{}}
  MaxFaults = 1
INVARIANT PoolAfterAdapter
