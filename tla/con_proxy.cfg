SPECIFICATION FairSpec
CONSTANTS
    Script <- MCScript
    MaxEndpoints = 2
    MaxMsgs = 1
    MaxBlank = 2
    max_length = 5
PROPERTIES
    ProxySessionEnds
CHECK_DEADLOCK FALSE
