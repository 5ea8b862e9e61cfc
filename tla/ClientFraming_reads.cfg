SPECIFICATION Spec
CONSTANTS
    PacketCount = 3
    DataLen = 8
    MaxDrops = 2
INVARIANTS
    PendingIsUnfinished
PROPERTY DeliversLines
CHECK_DEADLOCK FALSE
