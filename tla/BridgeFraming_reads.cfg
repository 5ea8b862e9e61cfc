SPECIFICATION HostSpec
CONSTANTS
    PacketCount = 3
    DataLen = 8
    MaxDrops = 1
INVARIANTS
    OnceInOrder
    WholeUnlessHeadless
CHECK_DEADLOCK FALSE
