SPECIFICATION FairSpec
CONSTANT Keys = {k1, k2, k3}
INVARIANTS OneReader FrameToLiveBuffer NoFrameDropped
PROPERTY ReceivesReturn
