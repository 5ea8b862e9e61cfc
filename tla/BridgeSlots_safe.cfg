SPECIFICATION Spec
CONSTANTS
    c1 = c1
    c2 = c2
    c3 = c3
    ann = ann
    bob = bob
    Conns <- ThreeConns
    Names <- TwoNames
    MaxClients = 2
    Packets <- TwoKinds
SYMMETRY ConnSymmetry
INVARIANTS
    SlotOwnership
    RejectedOnlyWhenFull
    StaleNameOnlyWhileLeaving
    NameLostOnlyByHeirs
    SteadyClientsServed
CHECK_DEADLOCK FALSE
