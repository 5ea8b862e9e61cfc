SPECIFICATION Spec
CONSTANTS
    Rooms = {lobby, LongRoom, CutRoom}
    DefaultRoom = lobby
    NoRoom = NoRoom
    Nicks = {ann, Long, Cut}
    FirstNick = ann
    NoName = NoName
    Long = Long
    Cut = Cut
    Kept <- MCKept
    LongRoom = LongRoom
    CutRoom = CutRoom
    KeptRoom <- MCKeptRoom
    MaxJoins = 1
    MaxSays = 1
    MaxMoves = 1
    MaxRenames = 2
    MaxDrops = 2
    MaxChats = 1
    MaxHeres = 1
    MaxEvents = 4
INVARIANTS
    RoomAgrees
    NamesAgree
    NothingMissed
    NothingAstray
PROPERTIES
    Rejoined
CHECK_DEADLOCK FALSE
