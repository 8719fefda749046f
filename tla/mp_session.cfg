SPECIFICATION Spec
CONSTANTS
    max_client_num = 2
    Proc = {p1, p2, p3}
    p1 = p1
    p2 = p2
    p3 = p3
    NickNames = {}
    NoName = NoName
    Server = Server
    Cmds = {"exit"}
    TellIds = {}
    MaxCmds = 0
    MayDrop = {p1}
SYMMETRY Symmetry
INVARIANTS
    TypeOK
    OneHolder
    LostByLeaving
    ClientNumExact
    Capacity
    OneInLock2
PROPERTIES
    NoIdSkipped
CHECK_DEADLOCK FALSE
