SPECIFICATION Spec
CONSTANTS
  Pools = {1}
  MaxLength = 2
  MaxInFlight = 2
  UringDepth = 64
  SocketFrames = 1
  Owned = {{}}
  MaxFaults = 0
INVARIANT NeverWaitsForItself
