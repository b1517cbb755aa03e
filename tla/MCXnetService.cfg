SPECIFICATION FrameFairSpec
CONSTANTS
    Network = {n1, n2, n3, n4}
    MaxTaps = 3
    Null = Null
INVARIANTS
    TapsDistinct
    NoLeftovers
    FrameInOwnTap
    OutputHasNode
SYMMETRY NetworkSymmetry
PROPERTY CallsReturn
CHECK_DEADLOCK FALSE
