SPECIFICATION Spec
CONSTANTS
    fd_infor_list_size = 3
    FdLimit = 5
    MaxCross = 3
    MaxLine = 7
    Forms = {"tell", "env", "redir", "single", "pipe", "pipes", "exit", "eot"}
INVARIANTS
    TypeOK
    TableSound
    EndIsSeen
PROPERTIES
    NoOverwrite
    Routing
    CommandLeaksNothing
CHECK_DEADLOCK FALSE
