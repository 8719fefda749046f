SPECIFICATION FairSpec
CONSTANTS
    Script <- MCScript
    MaxEndpoints = 2
    MaxMsgs = 1
    MaxBlank = 2
    max_length = 4
INVARIANTS
    ShownInOrder
    AllShown
PROPERTIES
    SessionEnds
CHECK_DEADLOCK FALSE
