SPECIFICATION Spec
CONSTANTS
    max_client_num = 2
    Names = {"x"}
    Vars = {"PATH", "v"}
    Values = {"a"}
    PipeLines <- MCPipeLines
INVARIANTS
    EnvIsOwn
CHECK_DEADLOCK FALSE
