SPECIFICATION FairSpec
CONSTANTS
    Kinds <- ChatKinds
    MaxMessages = 2
    MaxViews = 1
    MaxSessions = 2
INVARIANTS
    ShownOnce
    NotOverwritten
    HighlightHasCause
    MentionsCounted
PROPERTY ReceiverReleased
CHECK_DEADLOCK FALSE
