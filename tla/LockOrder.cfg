\* Two threads of the application, one worker, three calls out of nine.  The other
\* two (input layouts, buffers) take the locks of their maps in the same pattern.
SPECIFICATION FairSpec
CONSTANTS
    Clients = {c1, c2}
    Workers = {w1}
    Ops = {"createConstantBuffer", "createRootSignature", "createPipelineState", "compile",
           "createTexture", "destroyTexture", "command", "present", "resize"}
    MaxCalls = 3
INVARIANTS
    HandlesProtect
PROPERTY EveryCallReturns
CHECK_DEADLOCK FALSE
