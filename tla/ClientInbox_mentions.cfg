SPECIFICATION Spec
CONSTANTS
    Kinds <- MentionKinds
    MaxMessages = 2
    MaxViews = 0
    MaxSessions = 1
INVARIANT MentionsStored
CHECK_DEADLOCK FALSE
