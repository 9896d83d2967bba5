SPECIFICATION AbandonSpec
CONSTANT Keys = {k1, k2, k3}
INVARIANT FrameToLiveBuffer
