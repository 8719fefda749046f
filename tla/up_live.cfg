SPECIFICATION UpFairSpec
CONSTANTS
    max_client_num = 2
    Proc = {p1, p2}
    p1 = p1
    p2 = p2
    NickNames = {}
    NoName = NoName
    Server = Server
    NoFifo = NoFifo
    Cmds = {}
    TellIds = {}
    MaxCmds = 3
    MayDrop = {}
    UpLines <- AllWays
INVARIANTS
    UpTypeOK
    SignalFits
PROPERTIES
    NotReplaced
    PipeEnds
    FifoArrives
CHECK_DEADLOCK FALSE
