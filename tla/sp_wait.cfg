SPECIFICATION FairSpec
CONSTANTS
    Users = {1, 2}
    Sizes = {"small", "big"}
    MaxLine = 4
PROPERTIES
    ServerReturns
CHECK_DEADLOCK FALSE
