SPECIFICATION Spec
CONSTANTS
    Names = {ann, bob}
    NoName = NoName
    Absent = Absent
    Null = Null
    MaxCommands = 3
    MaxEnds = 2
SYMMETRY Symmetry
INVARIANTS
    BadReadOnlyInClear
    OneListOwned
    FileAsWanted
    NobodyTwice
PROPERTIES
    TwitsHidden
CHECK_DEADLOCK FALSE
