SPECIFICATION Spec
CONSTANTS
  Threads = {t1, t2}
  Devices = {d1, d2}
  Frames = 3
  Ceiling = 2
  MaxCount = 2
  None = None
INVARIANTS FramesExclusive UsedIsCount EveryRegionHasItsKeys CeilingHolds
PROPERTY GrowsOnWhatItSaw
SYMMETRY Symmetry
