SPECIFICATION Spec
CONSTANTS
    Network = {n1, n2, n3}
    MaxTaps = 2
    Null = Null
INVARIANT NetifNotYetAdded
