SPECIFICATION InboundSpec
CONSTANT MaxPackets = 4
INVARIANTS
    ExactWhenAligned
    AnnouncedOnlyIfCut
    
CHECK_DEADLOCK FALSE
