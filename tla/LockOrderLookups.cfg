\* One thread creates buffers while a worker builds its commands.
SPECIFICATION Spec
CONSTANTS
    Clients = {c1}
    Workers = {w1}
    Ops = {"createBuffer", "createTexture", "command"}
    MaxCalls = 2
INVARIANT LookupsAlone
CHECK_DEADLOCK FALSE
