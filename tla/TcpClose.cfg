SPECIFICATION FairSpec
CONSTANT Keys = {k1, k2, k3}
PROPERTY CloseReleasesAll
