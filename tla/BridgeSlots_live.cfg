SPECIFICATION FairSpec
CONSTANTS
    c1 = c1
    c2 = c2
    c3 = c3
    ann = ann
    bob = bob
    Conns <- ThreeConns
    Names <- OneName
    MaxClients = 2
    Packets <- NoPackets
PROPERTIES
    Served
    ImplementsAdmission
CHECK_DEADLOCK FALSE
