SPECIFICATION EnginesSpec
CONSTANTS
    Packet <- MCPacket
    ZtSrc <- MCZtSrc
    Flow <- MCFlow
    NoPacket = NoPacket
INVARIANTS
    HeaderStaysValid
