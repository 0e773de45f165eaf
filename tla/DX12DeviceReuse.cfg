\* A frame comes round while its last batch is pending.
SPECIFICATION Spec
CONSTANTS
    BufferCount = 3
    MaxCalls = 6
    Rewinding = FALSE
INVARIANT FrameReusable
CHECK_DEADLOCK FALSE
