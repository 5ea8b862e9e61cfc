SPECIFICATION Spec
CONSTANTS
    Space = Space
    Letter = Letter
    Window = 4
    MaxText = 10
    Texts <- MCTexts
INVARIANTS
    SaidOnceInOrder
    WordsKeptWhole
    PacketsFilled
PROPERTIES
    MovesOn
CHECK_DEADLOCK FALSE
