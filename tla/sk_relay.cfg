SPECIFICATION FairSpec
CONSTANTS
    Ops = {"connect", "bind"}
    Octets <- MCOctets
    NumOctets = 2
    MaxRules = 2
    MaxBytes = 4
    max_length = 2
INVARIANTS
    TypeOK
    FirewallKept
    InOrder
    EndIsComplete
    DataAfterReply
PROPERTIES
    RelayEnds
CHECK_DEADLOCK FALSE
