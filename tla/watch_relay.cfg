SPECIFICATION FairSpec
CONSTANTS
    Kinds <- MCKinds
    MaxSessions = 2
    MaxRelays = 1
    MaxLines = 2
    MaxEvents = 1
INVARIANTS RelayedInOrder AnswerBelowQuestion NothingSkipped
PROPERTIES OwnLinesRelayed RelayEnds
CHECK_DEADLOCK FALSE
