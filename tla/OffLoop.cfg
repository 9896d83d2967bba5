SPECIFICATION FairSpec
CONSTANTS
  Calls = {c1, c2, c3}
  Signals = {s1, s2}
  MaxFree = 1
  Workers = 2
  NoSignal = NoSignal
INVARIANTS IdleSignalsAreFree OneCallPerSignal ReturnsItsResult
PROPERTY CallsReturn
