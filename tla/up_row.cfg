SPECIFICATION UpSpec
CONSTANTS
    max_client_num = 2
    Proc = {p1, p2, p3}
    p1 = p1
    p2 = p2
    p3 = p3
    NickNames = {}
    NoName = NoName
    Server = Server
    NoFifo = NoFifo
    Cmds = {"exit"}
    TellIds = {}
    MaxCmds = 1
    MayDrop = {}
    UpLines <- SendOnly
SYMMETRY Symmetry
INVARIANTS
    OneMail
PROPERTIES
    FreshRow
CHECK_DEADLOCK FALSE
