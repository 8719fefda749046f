SPECIFICATION Spec
CONSTANTS
    max_client_num = 2
    Names = {"x"}
    Vars = {"v", "w"}
    Values = {"a"}
    PipeLines <- MCPipeLines
INVARIANTS
    TypeOK
    TableSound
    ListSound
    EnvFollows
PROPERTIES
    PipesKept
CHECK_DEADLOCK FALSE
