SPECIFICATION FairSpec
CONSTANTS
  Pools = {2, 5}
  MaxLength = 3
  MaxInFlight = 2
  UringDepth = 64
  SocketFrames = 1
  Owned = {{}, {2}}
  MaxFaults = 1
INVARIANTS NeverWaitsForItself WithinInFlight SuccessIsWhole PostedGetsItsSend AllJoined
PROPERTY StreamEnds
