SPECIFICATION FairSpec
CONSTANTS
    max_client_num = 2
    Proc = {p1, p2}
    p1 = p1
    p2 = p2
    NickNames = {a}
    a = a
    NoName = NoName
    Server = Server
    Cmds = {"yell", "tell", "name", "exit"}
    TellIds = {2}
    MaxCmds = 1
    MayDrop = {}
INVARIANTS
    SenderOrder
PROPERTIES
    BroadcastEnds
    YellReachesAll
    SessionsMove
CHECK_DEADLOCK FALSE
